# TLA+ models of tiktok-klaviyo-crm

The service in `src/` moves customer events in two directions: TikTok leads become Klaviyo
events (inbound), Klaviyo metric events become TikTok CRM events (outbound). It acknowledges a
webhook with 200 *before* it works on it, so from then on nobody but the service itself can
make up for what is lost or done twice. Everything that protects an event (a Redis key, a row
of Postgres, a BullMQ job) is reached by an `await`, each of which can fail, be overtaken or be
cut short. These modules model that: what the program does at each await, and what is true of
the result in every interleaving.

Contents: [inventory](#1-inventory) · [modules](#2-modules-and-how-they-correspond-to-the-code)
· [faults](#3-what-the-surroundings-may-do) · [runs](#4-runs) · [bounds](#5-bounds)
· [fairness](#6-fairness-and-rest) · [proofs](#7-proofs) · [findings](#8-findings)
· [not modelled](#9-not-modelled) · [plan](#10-plan)

## 1. Inventory

Paths are relative to `src/src/`. "State" is what outlives a call.

| Component | Source | State | Operations | What is hard |
|---|---|---|---|---|
| InboundPipeline | `inbound-pipeline.ts` | none of its own; the open `process` calls | `process` | many calls interleave; a 200 was already given; an outer catch swallows everything |
| OutboundPipeline | `outbound-pipeline.ts` | as above | `process` | redeliveries share one id, hence one key, row and job; a duplicate writes a row too |
| RedisDeduplicator | `deduplication/redis-dedup.ts` | keys with a TTL | `isDuplicate` (`SET NX EX`) | fails open on errors; keys expire or are evicted |
| EventLog | `db/event-log.ts`, `db/migrate.ts` | table `crm_event_log` | `insert`, `updateStatus`, `incrementAttempt` | only `insert` reports errors; `updateStatus` overwrites any status |
| RetryQueue | `queue/retry-queue.ts` | two BullMQ queues | `enqueueInbound`, `enqueueOutbound`, workers, `failed` handlers, `getMetrics`, `close` | backoff, stalled jobs, ids of finished jobs that are kept |
| KlaviyoAPIClient, TikTokAPIClient | `clients/` | limiter | `upsertProfile`, `createEvent`; `sendEvents` | answers that are lost after the service has acted; POSTs that are repeated; a refusal inside a 200 |
| TokenStore | `tiktok-auth/token-store.ts` | table row and Redis copy per advertiser | `save`, `get`, `getAll`, `delete`, `getActiveToken` | two stores written one after the other, by many callers |
| ProactiveTokenRefresher | `tiktok-auth/proactive-refresher.ts` | a timer | `start`, `stop`, `refreshExpiringTokens` | works on a snapshot; a check every 23 h with a buffer of 1 h |
| OAuth routes and client | `tiktok-auth/oauth-routes.ts`, `tiktok-oauth.ts` | OAuth state in Redis | authorize, callback, refresh, revoke, status | a state meant for one use; refresh tokens used up by use |
| CRMEventSetManager and routes | `event-set/` | row and Redis copy per advertiser; the sets at TikTok | `list`, `create`, `provision`, `select`, `resolve`, `saveToDb` | provision is list-then-create; a cache between |
| Webhook listeners | `listeners/` | none | parse, verify, validate, answer, call `process` | the order of body parsers |
| Server | `server.ts` | process, pools | bootstrap, shutdown | the order in which things are installed and closed, while calls and jobs go on; a second signal |
| Pure functions | `filters/`, `enrichment/`, `normalization/`, `transformer/` | none | map, enrich, hash, build | a person's data passes through six of them and through Klaviyo before it is hashed; two throw |
| Start-up and data | `config/env.ts`, `logging/`, `db/migrate.ts`, `types/` | none | | |

How they interact: a listener calls `process` without waiting for it. `process` asks the
deduplicator, writes the log, calls the destination; if the destination fails it marks the row
`failed` and *then* adds a job. The worker of the queue counts the attempt in the log, calls
the destination and marks the row; a handler marks the row `failed` when BullMQ has no attempts
left. The outbound pipeline asks the event-set manager where to send, and the TikTok client
asks the token store with what token; routes and the refresher write the two. Inbound and
outbound share the *classes*, but no key, row, job id or queue, so each pipeline is composed
with an instance of its own.

What makes the parts correct:

- deduplicator with queue: one event per lead or metric, unless the key is lost;
- log: never claims a delivery that did not happen; in the end tells what happened; `sent` is final;
- queue: an event is given up exactly when its attempts are used up, and does not wait for ever;
- token store: what is served was durable; row and copy agree when nothing interfered;
- event sets: `provision` makes no surplus sets and does not undo a choice; `resolve` answers the row;
- refresher: how long a token can stay expired;
- intake: a genuine webhook is taken;
- shutdown: interrupts no job, leaves nothing half done that a crash would not, and ends;
- OAuth state: once it is used up, it stays refused;
- the data on its way: hashed, one key per person however spelled, under the id of the event
  whatever the profile says by then, the lead id comes back to TikTok.

The full list of hazards, each at its line and with the properties that cover it, is `hazards`
in `PROJECT.json`.

## 2. Modules and how they correspond to the code

```
Surroundings ─ Events ── EventLog ──┐
     │            └───── Destination┴── RetryQueue ──┐
     ├── RedisDeduplicator ──────────────────────────┴── InboundPipeline ──► AtMostOnceDelivery
     │                                               │         └── GracefulShutdown ──► (both)
     │                                               └── OutboundPipeline
     ├── CachedRow ── TokenStore
     │           └─── CRMEventSetManager
     ├── ProactiveTokenRefresher                     WebhookIntake
     └── ConversionFlow ── Identity ── Normalizer
```

(lines: EXTENDS; arrow: refinement.) `MC*` modules instantiate, `*Proofs` modules prove.

- **EventLog.** `log[id]` is the row of event id: status, attempts and the payload column. One
  operator per method, its failures beside it: `InsertFails` (reported), the second disjunct of
  `UpdateStatus` and `IncrementAttempt` (swallowed).
- **Destination.** `accepted`, the ids that Klaviyo or TikTok has. A call resolves, or rejects
  with or without the event taken.
- **RedisDeduplicator.** `claimed`, the keys; `lapsed`, a history of keys that expired or whose
  check failed open. The code's `SET NX` is one atomic step; its outcomes are `Claim`,
  `AlreadyClaimed`, `FailOpen` and `ClaimResent`.
- **RetryQueue.** `job[id]` as BullMQ keeps it and `worker[id]`, where the processor is. BullMQ
  itself (external, modelled from the options the code sets: `attempts`, `backoff`,
  `removeOn*`, `jobId`) picks, delays, finds stalled and trims jobs; the processor's three
  awaits and the `failed` handler are the code's.
- **InboundPipeline, OutboundPipeline.** `call[d]` is the await at which `process` is for a
  delivery. One action per await: the answer of the call *and* all code up to the next await,
  with every return and throw in it. The outer catch is the stage `dropped`. An inbound
  delivery has a fresh id (`uuidv4`) and a lead as key; outbound deliveries of an event share
  id, key, row and job (`EventOf`).
- **AtMostOnceDelivery.** What deduplication and retry promise, with no Redis, Postgres or
  queue: a delivery is `new`, `open`, then `delivered` or `closed`, and is opened only while no
  other of its subject is open or delivered, or the promise has lapsed for the subject. `Phase`
  in InboundPipeline maps to it: a delivery is open between the check and its end in the call,
  and while its job lives; `Close` closes several at once, as a crash does.
- **CachedRow.** A row of Postgres, its copy in Redis and the operations in flight: what
  TokenStore and CRMEventSetManager have in common. Two history variables say when a
  disagreement of row and copy is excused: `op[o].ok`, nothing has overlapped this operation;
  `clean`, the last writer ended with `ok`.
- **GracefulShutdown.** The process around InboundPipeline: requests are accepted until it exits;
  on a signal `shutdown` awaits the queue's close (processors finish, no job is picked), Redis'
  `quit` and the pool's `end`, and only then closes the HTTP server and arms its timer. `server`
  is the await at which it is. `late` is the set of calls whose current await was issued to a
  store after that store's goodbye: such an await is rejected (`RefusedStep`), one issued before
  is still answered. A second signal makes the process die of an unhandled rejection
  (`ExitTwice`).
- **TokenStore.** One advertiser's token. The kinds of operation are its callers: the OAuth
  callback (`authorize`), the manual refresh, the refresher, a sender, a revoke. Each runs
  through the awaits of `get`, `getAll`, `save` or `delete` that it makes; tokens are numbered
  in the order of issue. `oauth[s]` is the Redis key of an authorization's state: set by the
  initiation, read and then deleted by a callback (`GetState`, `DelState`), or expired after ten
  minutes. A browser may come back more than once with it.
- **CRMEventSetManager.** One advertiser's event set: `provision`, `create`, `select`,
  `resolve` and the `saveToDb` in them. `remote` is what TikTok lists (external).
- **ProactiveTokenRefresher.** The same refresher against time. Hours are counted down: `wait`
  to the next check, `left` to the end of the token. `excused` is the history of hours for
  which the code is not to blame.
- **Normalizer.** `normalizeEmail`, `normalizeName`, `parseFullName` and `normalizePhone`. A text
  is its words and how they are written; a phone number is what the code looks at: a leading
  plus, the digits, other characters or none.
- **Identity.** The pure functions that carry a person's data: `enrichFromTikTokLead`,
  the profile of `buildKlaviyoEvent`, `enrichFromKlaviyoProfile`, `hashUser`, the table of
  `filterOutboundEvent`, `generateEventId`, `buildTikTokPayload`. Users and profiles are partial
  functions: what is not in the domain is absent or empty, as the code's truthiness tests treat
  it. `SHA256(v)` is a record from which nothing but equality can be read.
  `EnrichFromTikTokLead` says what the loop over `field_data` leaves: each field has the value of
  the last entry that sets it. MCConversion has the loop itself (`ApplyInOrder`) and TLC compares
  the two over all forms of up to three entries (`EnrichIsTheLoop`).
- **ConversionFlow.** One person through both pipelines. Leads write to the person's Klaviyo
  profile (upsert, event, retried event), people and Klaviyo edit it, a metric's webhook takes a
  snapshot of it, and the outbound pipeline filters, builds and sends it. `sendEvents` gets a token
  or rejects (`TokenFails`); `Post` is one POST with TikTok's answer to it (`Answered`: external,
  what it has acted on by then included) and what the client makes of the answer (`React`): success
  is HTTP 200 with code 0, what axios-retry repeats it repeats, the rest rejects. The worker calls
  `sendEvents` again with the payload that was enqueued; inbound, every run of a job is a step
  (`RetryEvent`), of which Klaviyo may act on any. Deduplication, log and routing are left to the
  pipelines' own modules; here any number of deliveries of one event may get through.
- **WebhookIntake.** One request through the parsers in the order `server.ts` installs them,
  the router's own parser and the handler, with the limits of both: 10kb of the global parsers, as
  written, and 100kb of `express.raw`, by default.

Operators whose comment begins with "Mutant" are never part of a specification: each is the
preceding idea with a plausible bug in it, kept to show that a property can tell the two apart.

## 3. What the surroundings may do

`Faults` (module Surroundings) switches kinds of trouble on per instance.

| Fault | Meaning | Why it is real |
|---|---|---|
| `api` | a call fails after the client's HTTP retries | the clients throw, the pipelines catch |
| `reply` | the service has acted, the answer is lost | a timeout of axios does not undo a POST |
| `postgres` | an INSERT, UPSERT, DELETE or SELECT is reported as failed; a write may have been committed | connection lost before or after the commit |
| `update` | an UPDATE of the event log fails; the code logs the error and goes on | `updateStatus` and `incrementAttempt` catch it |
| `redis` | a command is answered with an error | every caller has a catch for it, and they differ |
| `resend` | ioredis repeats a command whose answer was lost | `maxRetriesPerRequest: null`, `server.ts:30` |
| `ttl` | a key expires or is evicted | `EX`; `allkeys-lru` in `docker-compose.yml` |
| `crash` | the process dies and is started again | calls and processors vanish; Redis, Postgres and BullMQ's jobs stay |

## 4. Runs

All properties are in the component's module, each with a comment that says what it is about.

| Run | Checks | Shows |
|---|---|---|
| `inbound_faults` | `ShutdownTypeOK`, `SentMeansDelivered`, `NoDuplicateLead`, `AttemptsBounded`, `UnmarkedIsNotQueued`, `ExitSparesJobs`, `ShutdownEnds`, `ImplementsAtMostOnce`, `ImplementsSettling` | one lead delivered twice while Klaviyo, Postgres and Redis fail, and a crash or a shutdown at any point: no false `sent`; no second event for the lead unless its key was lost; no more attempts counted than `Attempts + MaxStalls`; pipeline, deduplicator, queue and process together implement AtMostOnceDelivery and leave no delivery open; a shutdown waits for the processors, ends, and leaves no job behind a row it could not mark |
| `inbound_outage` | `SettledLogIsTruthful`, `GivesUpOnlyWhenExhausted`, `DuplicateIsBacked`, `SentIsFinal`, `EveryLeadSettles` | two leads, each delivered twice; Klaviyo refuses events and keys expire, nothing else fails; one lead carries a time that cannot be built: the log ends up true, a lead is given up only after all attempts, a duplicate of a lead that can be built is backed by a delivery that counts (one that cannot keeps its key from the first delivery that throws, and its redelivery is backed by nothing), `sent` is final, every lead that can be built settles |
| `outbound_faults` | `TypeOK`, `SentMeansDelivered`, `SingleSender`, `DuplicateNeverOverwrites` | until its key lapses an event has one sender (one call, or the job it left); a duplicate's row never replaces the event's |
| `outbound_outage` | `SettledLogIsTruthful`, `GivesUpOnlyWhenExhausted`, `SentIsFinal`, `EveryEventSettles` | the same as inbound, among deliveries that are filtered, unroutable or cannot be built |
| `token_store` | `TypeOK`, `CopyWasStored`, `CoherentUnlessDisturbed`, `LastTokenWins`, `UsedStateIsRefused` | all callers, all faults: Redis has only tokens that Postgres was given; row and copy disagree only after an overlap, failure or kill, and the next undisturbed writer heals them; the row is then the last token issued; a callback that comes after its OAuth state was deleted is refused |
| `event_sets` | `TypeOK`, `CoherentUnlessDisturbed`, `NoMoreSetsThanProvisions`, `AnswersTheRow`, `ProvisionKeepsTheChoice` | `provision` makes at most as many sets as ever ran side by side, even if answers are lost; it leaves a choice by hand alone; `resolve` answers the row also when Redis fails |
| `refresher` | `TypeOK`, `OutageBounded` | with 23 h and 1 h a token is expired for less than 22 h at a time, plus the excused hours |
| `conversion` | `TypeOK`, `NoPlaintext`, `OnePersonOneKey`, `LeadComesBack`, `IdOfTheEvent`, `NoPurchaseWithoutValue` | two leads and two metric webhooks of one person whose e-mail and phone are typed differently, while both services fail and the profile is edited: nothing personal leaves unhashed; one hash per person; the conversion names a lead that Klaviyo had; its id is that of the event whatever the profile says by then, and two metrics of one `unique_id` that are one event of TikTok's share it; a sale without a value never leaves. The last two are at odds with texts and tests of the repository, see Findings |
| `outbound_duplicate` | `DuplicateMeansProcessed` | *violated*, see Findings |
| `outbound_retry` | `EveryFailureIsRetried` | *violated* |
| `token_revoked` | `RevokedMeansGone` | *violated* |
| `webhook_raw_body` | `GenuineIsTaken` | *violated* |

Read the outage runs with the fault runs: what the *log* says in the end is promised only while
Postgres and Redis work and the process lives, because the code logs and goes on (or drops the
lead) otherwise. Under all faults only the one-sided facts hold, and those are what the fault
runs check. `inbound_faults` leaves out `update`, which multiplies its states; with it the same
invariants and `ImplementsAtMostOnce` are proved (section 7), and `outbound_faults` has it. Under `reply`, `failed` may stand for an event the destination has; no property
claims otherwise.

`OutageBounded` is a statement about a weakness. A token of 24 hours that is issued an hour after a
check has 2 hours left at the next one, is not yet due, and stays expired for 21 hours until the
check after that; a token that the refresher itself has issued is in this position as soon as
TikTok's answer takes any time at all. That a token never expires does not hold; the theorem
`WideBufferSuffices` says which buffer would make it hold.

Every property has at least one entry under `mutants`: the same run, with one definition
replaced, violates it.

## 5. Bounds

| Bound | Value | Why it is enough |
|---|---|---|
| deliveries | 2 of one lead or event, 4–5 with others | every conflict of the code is between two users of a key, row or job; the others show that they are independent |
| `Attempts` | 2, 3 inbound under an outage (code: 3 inbound, 5 outbound) | one retry shows "attempts left" and "used up". The theorem on attempts holds for all values |
| `MaxStalls` | 1 | BullMQ's default `maxStalledCount` |
| `MaxCrashes` | 1 or 0 | one crash or shutdown at any point; a second finds the same stages. The theorems hold for any number |
| `Ops` | 3 for tokens (2 in `token_revoked`), 2 for event sets | a writer, one that interferes and one that reads; a slot is reused when its operation ends, so histories are longer than this |
| `MaxIssued` | 2, 3 | an old and a new token, and one renewed from it; beyond it TikTok refuses |
| `OAuthStates` | 2 | one used by two callbacks, one beside it |
| leads, metric deliveries of a person | 2 and 2 | a lead before and after a snapshot; a redelivery, and two metrics of one `unique_id`, mapped to one event or to two |
| `LeadData`, `Edits`, `Sources` | 2, 1, 5 | e-mail and phone in three spellings, a full name and a blank one, a field given twice; mapped to one event, to another, unmapped, with and without a value |
| `MaxRetries` | 1 in `conversion` (code: `TIKTOK_MAX_RETRIES`) | a POST that is repeated and one that is the last |
| event sets | 3, one of them the environment's | none, one, several: what `provision` tells apart |
| `Interval`, `Buffer`, `Lifetimes` | 23, 1, {2, 24} hours | the code's, TikTok's 24 h and a short-lived token |
| `MaxExcused` | 25 hours | more than an interval of trouble |

Symmetry is declared only in runs without liveness, over ids the specification does not tell
apart (operations; deliveries of the same lead or event; event sets other than the
environment's; OAuth states; metric deliveries).

## 6. Fairness and rest

`Fairness` of the pipelines is weak fairness of each call's step and of each job's step. The
event loop resumes every settled await, and calls of the two API clients settle (they set a timeout
of 30 s);
a running worker takes the jobs it can; BullMQ's timers move delayed and stalled jobs. `SFairness`, of the process, adds that
`shutdown` goes on when what it awaits is over, that it exits, and that whoever runs the
service starts it again; it assumes that Redis and Postgres answer `quit` and `end`,
for the timer that forces the exit is armed only after them. Nothing
is assumed to make webhooks arrive, keys expire, jobs be trimmed, faults stop or the process
stay up: the bound on crashes is what lets calls go on after the last one. Liveness is checked
only with `FairSpec` and `SFairSpec`. The inbound `FairSpec` is of a process that holds (`UpNext`:
without `Crash`); `SFairSpec` has the process that dies and comes back.

`CHECK_DEADLOCK FALSE` stands in all configurations: once all deliveries are settled and
nothing can expire, the system is at rest. (The refresher's clock stops at `MaxExcused`.)

## 7. Proofs

TLAPS proves the following for *every* value of the constants: any number of deliveries, leads,
attempts, stalls, crashes, operations, tokens, hours, and any set of faults but for those a theorem excludes. The assumptions
are the named ones of the modules (`FaultsAssumption`, `RetryAssumption`, `InboundAssumption`,
`NoneAssumption`, `TokenAssumption`, `EnvSetAssumption`, `FiniteAssumption`, `TimingAssumption`, and those of the outbound pipeline,
`NationalAssumption` and `FlowAssumption`): types of constants, at least one
attempt, tokens numbered from 1, finitely many operations and event sets, and token lifetimes longer than the buffer (a token that is
due at once would be renewed at every check).

Some theorems have hypotheses beside that; each is written in the statement. `StoresMayFail` asks
for faults, `Without(kinds)` excludes them: a property of the log that the code only keeps while
its stores answer is proved with every *other* fault allowed, and the table says which have to be
left out. Two about the data assume `EditsSpareLead` and `OnePerson` (module
ConversionFlow); the instance that TLC checks satisfies both (`TheoremsApply` in MCConversion),
and the configurations of the outage runs satisfy the `Without`.

| Theorem | States | Inductive invariant |
|---|---|---|
| InboundPipelineProofs!`TypeCorrect` | `Spec => []TypeOK` | itself |
| `SentIsDelivered` | `[]SentMeansDelivered` | `SentInv`: also, whoever is *about* to mark a row `sent` has seen the call resolve |
| `AttemptsAreBounded` | `[]AttemptsBounded` | `QueueInv`, `CountInv` |
| `NoLeadTwice` | `[]NoDuplicateLead` | `QueueInv`, `DedupInv` |
| `PipelineImplementsAtMostOnce` | `Spec => ImplementsAtMostOnce` | `QueueInv`, `DedupInv`, then step by step |
| `InboundSentIsFinal` | `SentIsFinal`, without `redis`, `crash` | `OrderlyInv` |
| `InboundGivesUpExhausted` | `[]GivesUpOnlyWhenExhausted`, without `update`, `redis`, `crash` | `OrderlyInv`, `PursuitInv` |
| `InboundSettledLogIsTruthful` | `[]SettledLogIsTruthful`, without `postgres`, `update`, `reply`, `redis`, `crash` | `OrderlyInv`, `PursuitInv`, `TruthfulInv` |
| `DuplicatesAreBacked` | `[]DuplicateIsBacked`, without `postgres`, `update`, `redis`, `resend`, `crash` | `OrderlyInv`, `PursuitInv`, `BackedInv` |
| GracefulShutdownProofs!`ShutdownImplementsPipeline` | `SSpec => Spec`, if `StoresMayFail` | `ServerInv`: a shutdown under way may still count as a death |
| `ShutdownTypes` | `[]ShutdownTypeOK` | itself, from the pipeline's |
| `ShutdownKeepsPromises` | `[]SentMeansDelivered`, `[]NoDuplicateLead`, `[]AttemptsBounded`, `ImplementsAtMostOnce` for `SSpec` | by the refinement |
| `UnmarkedIsNeverQueued` | `[]UnmarkedIsNotQueued` | `UnmarkedInv` |
| `ExitSparesJobsHolds` | `ExitSparesJobs`, if `StoresMayFail` | `QuietInv` |
| OutboundPipelineProofs!`OutboundTypes` | `Spec => []TypeOK` | itself |
| `OutboundSentIsDelivered` | `[]SentMeansDelivered` | `SentInv` |
| `DuplicatesOverwriteNothing` | `DuplicateNeverOverwrites` | step by step |
| `OneSender` | `[]SingleSender` | `SenderInv` |
| `OutboundSentIsFinal` | `SentIsFinal`, without `redis`, `ttl`, `crash` | `SoleEntrant`, `OrderlyInv` |
| `OutboundGivesUpExhausted` | `[]GivesUpOnlyWhenExhausted`, without `update`, `redis`, `ttl`, `crash` | and `PursuitInv` |
| `OutboundSettledLogIsTruthful` | `[]SettledLogIsTruthful`, without `update`, `reply`, `redis`, `ttl`, `crash` | and `TruthfulInv` |
| ConversionFlowProofs!`NormalizePhoneIdempotent`, `SpellingsAgree` | `NormalizePhone` twice is once; all spellings of a US number have one normal form | |
| `NoPlaintextHolds` | `[]NoPlaintext` | `PayloadInv` |
| `FlowTypeCorrect` | `[]TypeOK` | itself, with `ConvRecords` |
| `IdOfTheEventHolds` | `[]IdOfTheEvent` | `NamedInv` |
| `NoPurchaseWithoutValueHolds` | `[]NoPurchaseWithoutValue` | `WorthInv` |
| `LeadComesBackHolds` | `[]LeadComesBack`, if `EditsSpareLead` | `BackInv` |
| `OnePersonOneKeyHolds` | `[]OnePersonOneKey`, if `OnePerson(words, national)` | `KeyInv` |
| TokenStoreProofs!`CopiesWereStored` | `[]CopyWasStored` | `StoredInv`: also the row, and whoever holds a token to write into the copy |
| `TokenTypes` | `[]TypeOK` | `StoredInv`, `HistoryOK`, `StatesInv` |
| `UsedStatesAreRefused` | `[]UsedStateIsRefused` | `StatesInv`: a used state is never `pending` again |
| `CoherenceHolds` | `[]CoherentUnlessDisturbed` | `UndisturbedInv`: `Apart`, `CopyInv` |
| `LastTokenStays` | `[]LastTokenWins` | `UndisturbedInv`: `Apart`, `LastInv` |
| CRMEventSetManagerProofs!`EventSetTypes` | `[]TypeOK` | `TypeInv`, `CountInv` |
| `NoSurplusSets` | `[]NoMoreSetsThanProvisions` | `CountInv`: once there is a set, those made and those about to be are no more than `peak` |
| `EventSetCoherence`, `ResolveAnswersTheRow` | `[]CoherentUnlessDisturbed`, `AnswersTheRow` | `UndisturbedInv`: `Apart`, `CopyInv` |
| `ChoicesAreKept` | `ProvisionKeepsTheChoice` | `ChoiceInv`: an undisturbed provision finds what it saw, no set or the one it holds |
| ProactiveTokenRefresherProofs!`OutageIsBounded` | `[]OutageBounded` | `RefresherInv` |
| `RefresherTypes` | `[]TypeOK` | `RefresherInv` |
| `WideBufferSuffices` | no token expires, but for excused hours, if `Buffer >= Interval` | from `OutageIsBounded` |

How the less obvious ones go:

- *Attempts.* The bound does not follow from itself: the counter of the log, the job's
  `attemptsMade` and its stalls move in different steps. `CountInv` relates them: a live job has
  `made < Attempts` and `stalls <= MaxStalls`, and the log has counted at most
  `made + stalls` and the current run. `QueueInv` adds that a processor only works on an active
  job and that before a call has ended there is no job and no attempt, so that a new job starts
  from nought.
- *One event per lead.* `Holds(d)` says that delivery d may still reach Klaviyo or has: it is
  past the check, has a job, or has arrived. `HoldersClaim`: what a delivery holds is claimed,
  or has lapsed. `SoleHolder`: one holder per lead, unless lapsed. The lemma
  `OnlyTheCheckAdmits` shows that no action but `Deduplicate` creates a holder or frees a key
  unrecorded; `CheckAdmitsOne` that the check creates one at most and only on a free key. The
  theorem is the case of two holders that have arrived.
- *Refinement.* A step about one delivery (`Local`) that delivers it, closes it or leaves its phase
  (`Moves`) is a step of AtMostOnceDelivery or a stutter (`LocalStep`); `CallMoves` and `QueueMoves`
  show that of everything but the check, an expiry and a crash. The check opens a delivery only on a
  free key or one that lapses, and `HoldersClaim` says that an open or delivered sibling would hold
  that key (`DeduplicateStep`). A crash closes exactly the deliveries whose calls were open.
- *Shutdown.* Nothing is proved anew of the promises: a command that a closed store refuses is
  answered as by a store that fails (`RefusalIsFault`), an exit is a crash (`ExitIsCrash`), and the
  goodbyes leave the pipeline's variables alone (`StepsMap`). `StoresMayFail` says that the
  pipeline's `Faults` include these faults; that is why `Faults` names those of the UPDATEs apart,
  so that the run can do without them. `UnmarkedInv`: a call of whose 'failed' the pool refused
  to take note comes next to Redis, which said goodbye before, or is already dropped.
- *One sender.* `SenderInv` is the outbound counterpart of `DedupInv`: whoever is past the check,
  and the live job of an event, hold its key (`SendersClaim`), unless it lapsed.
- *What the log says in the end.* Row, job and worker of one id are written by the call, the
  worker and the `failed` handler, and the claim about the row at rest follows only from what it says
  while they move. `Orderly` is the order of the writers: there is no job before the call has ended,
  no processor without an active job, an active job is attended (nothing stalls), and a row that
  reads `sent` has nobody left who could write anything else. `Pursuit` adds the count: while the job lives
  the log's attempts are its runs, so a job that ends undelivered has used up `Attempts`. `Truthful`
  adds, stage by stage, what the row will be set to next. Steps of other ids leave all three alone
  (`QueueLocal`, `StepsApart`). The lemmas about the queue (`QueueAttended`, `QueueSentRests`,
  `QueueCounts`, `QueueFailureMarked`, `QueueSuccessMarked`) are RetryQueueProofs' and serve both
  directions.
- *Why these faults are left out.* `redis`: the end of a job's run is not recorded, or the job is
  never added; `crash`: a run or a call ends in the middle; both let a delivered event run again, and
  its last failure overwrites `sent`. `update`: the counter or the status is not written. `reply`:
  Klaviyo or TikTok has an event whose row says `failed`. `postgres`: an insert is reported as failed
  and was committed, so a dropped lead stays `pending`. `resend`: a key is claimed by its own lost
  command, and the delivery is a duplicate of itself. `ttl` is left out only outbound, where
  a redelivery after the key's end works on the row and job of the first.
- *Outbound, one entrant.* There several deliveries share the row. `SoleEntrant`: with keys that are
  kept at most one delivery of an event was ever admitted, so its call and its job are the only
  writers, beside inserts of `duplicate`, which a row that exists ignores. A duplicate may write first;
  what the log says *while* the event's call is before its `MarkSent` or `MarkFailed` is therefore left open.
- *Backed duplicates.* A key is claimed by a delivery that is then `Accounted`: admitted, with a job, arrived or
  exhausted. `AccountedStays`: nothing takes that away. So a claimed key always has such a delivery behind it
  (`BackedInv`), unless the lead cannot be built: that one claims the key and is dropped.
- *Shutdown and jobs.* `QuietInv`: from the close of the queue on no processor runs, for a closing worker
  takes no job, and from the end of the pool on no `failed` handler either.
- *The data.* `ConversionSteps` splits every step, as one conversion sees it, into three: as it was, carried on
  with the payload it has, or met and built from the profile of the moment. What a payload says is thus an
  invariant of the profile, carried over once. `NamedInv`: the id is made of the source and the event of its
  metric, which has one only (`OneEventPerMetric`, from the table). `WorthInv`: what is built for a
  Purchase has a value. `BackInv`: once a lead was told, the profile
  names one that was; the key under which `buildKlaviyoEvent` writes a field is where
  `enrichFromKlaviyoProfile` looks for it, and no other field's (`KeysAgree`, `ProfileKeeps`,
  `EnrichFinds`). `KeyInv`: the profile's address and phone are the person's own in one writing
  or another, and all of them hash alike (`WritingsAgree`, `SpellingsAgree`, `HashesAlike`).
- *No plaintext.* `HashUser` gives a record for whatever of the personal attributes it keeps; the
  payload of a call is built once and every later step, retries included, only hands it on.
- *Coherence.* Both users of CachedRow go the same way. `Apart` says what the two history variables
  are for: whoever is `ok`, and while the stores are `clean` everybody, is alone in flight or
  among readers only. So the step of a writer finds the others disturbed, and nothing is owed to
  them (`WriterFrame`, `WriterLast`); what remains is what the writer itself knows at each await: at
  the copy, that the row has what it holds; at the deletion of the row, that the copy is gone.
- *Surplus sets.* A provision makes a set only after an empty list, and the first set that is made
  ends the empty lists. From then on `made` plus the provisions that are past an empty list
  (`Creating`) never grows, and before it those are at most the provisions in flight.
- *Outage.* The bound on `left` now needs one on `left` at the next check: `NextCheckInv` says
  that while the process runs and no refresh is under way, `left - wait` obeys it too.

Only model-checked: the liveness properties `EveryLeadSettles`, `EveryEventSettles`, `ShutdownEnds` and
`ImplementsSettling` (liveness under fairness is beyond the prover); and that `EnrichFromTikTokLead` is what its
loop computes (`EnrichIsTheLoop`; an induction over the form). Every invariant and action property that a
passing run checks is also a theorem.

## 8. Findings

The first four are violation runs, with short counterexamples. The last two are shown by invariants
of `conversion` that hold: they say what the code does, and what is quoted says otherwise.

1. **A duplicate of an event that was never sent** (`outbound_duplicate`). The key is claimed
   at `outbound-pipeline.ts:73`, before advertiser and event set are known. An event that cannot
   be routed keeps its key for the TTL (48 h), and its redelivery is logged as `duplicate`, after the
   event set has been provisioned, too. `isDuplicate` is documented as "has already been
   processed".
2. **A failure that is not retried** (`outbound_retry`). BullMQ ignores an `add` under the id of a
   job it still keeps, finished ones included (`removeOnComplete` 100, `removeOnFail` 500). If an
   exhausted event is delivered again after its key expired and the send fails, "enqueueing for
   retry" is logged and nothing is enqueued.
3. **A revoked token that comes back** (`token_revoked`). `delete` clears the copy, then the row;
   a `save` or a `get` in between writes the copy again, and it is served for up to 23 hours. With
   nothing failing.
4. **Genuine JSON webhooks are refused** (`webhook_raw_body`). `express.json()` is installed for
   every route before the webhook routers and reads the body; `express.raw()` then leaves it, and
   the signature is checked on an object. No test sends a request through the listeners.
5. **A sale without a value is never sent** (`conversion`, `NoPurchaseWithoutValue`). The builder throws
   (`tiktok-event-builder.ts:51`), the outer catch drops the event, its key stays claimed. Tests
   expect such a Purchase to be built and sent, from events that have no value:
   `tests/outbound-pipeline.test.ts:91` and `:145`, `tests/tiktok-event-builder.test.ts:101`,
   `tests/pii-safety.test.ts:29`. Whether code or tests are meant is for the owners to say.
6. **The outbound id is not made of what the texts say** (`conversion`, `IdOfTheEvent`). It is the hash of
   `unique_id`, TikTok's event and the second (`outbound-pipeline.ts:70`). The README (line 218) and the
   comment of `generateEventId` (`hasher.ts:85`) say the lead's id: then a redelivery would
   have another id as soon as the profile names another lead. The comment at the call
   (`outbound-pipeline.ts:67`) says the metric's name: but metrics that are mapped to one event,
   such as `deal won` and `closed won`, share the id, and the second of one `unique_id` and second is
   refused as a duplicate.

The model also has behaviours that no document promises away, and which are therefore not
findings: a lead that is lost because the process died between its key and its row, its insert
failed, or Redis refused its job; the outbound row that keeps the empty payload of a duplicate
whose insert came first; a token revoked during a refresh that is written back renewed; the
environment's event set as the answer when Postgres fails; two callbacks that overlap with one
OAuth state both exchange their codes (it is read and deleted in two commands); a second signal
that ends the process in the middle of its shutdown; a call in flight that finds its stores closed
and drops its lead; a retried event of an older lead that writes over a newer profile.

What `normalizePhone` does beyond the US is by its own rule and in the model: ten digits or fewer
without a plus or 00 become a US number, whatever the country; "+" and "00" alone become "+",
although the comment speaks of E.164. `external_id` is hashed as it is, without trimming or lower
case.

## 9. Not modelled

- *The rate limiters* (Bottleneck in the client, BullMQ's in the worker) delay a call, which any
  interleaving does. They count calls, not the POSTs that axios-retry makes in them; a property
  of that needs rates over time. *HTTP retries of KlaviyoAPIClient* end in "resolved" or
  "rejected"; those of TikTokAPIClient are in ConversionFlow.
- *`batch_upload_status`* in TikTok's answer: the code does not look at it, and no text says what
  TikTok puts there. That code 0 means the event was taken is therefore an assumption (`Answered`).
- *A worker that is declared stalled while it still runs* (an event loop blocked for the 30 s of
  its lock): the model's stalled jobs have no worker.
- *Eviction of live jobs or of BullMQ's own keys* by `allkeys-lru`: the deployment's mistake, it
  loses jobs without a trace in the code.
- *Goodbyes that are never answered*: if `redis.quit` or `pool.end` hangs, nothing in the code ends
  the process. *Shutdown around the outbound pipeline*: the same code around the same awaits.
- *The callback's loop over several advertisers* (`oauth-routes.ts:80`), which may stop half-way, and
  the admin key in front of it.
- *`getActiveToken`'s comparison with the expiry*: it reads only. One advertiser of the
  refresher's loop: the others are independent rows.
- *Of the pure functions*: characters (texts are words and how they are written); the campaign, ad
  and advertiser ids a payload carries; the time's conversion, but for its throw; a metric named like
  a property of `Object.prototype`; collisions of SHA-256. Klaviyo's merge of a profile is external
  ("what is new wins").
- *`chunkPayload`, `bulkCreateEvents`, `filterInboundEvent`, `normalizeZip`, `normalizeGeo`*: never called. *`getMetrics`, status routes*: read only.
- *Configuration, logging, migrations*: start-up or data.

## 10. Plan

Done, in this order: EventLog, Destination, RedisDeduplicator, RetryQueue → InboundPipeline with
its abstract specification and proofs → OutboundPipeline → CachedRow, TokenStore with proofs,
CRMEventSetManager → ProactiveTokenRefresher with proofs, WebhookIntake → GracefulShutdown around the
inbound pipeline with proofs → the OAuth state in TokenStore with its proof → Normalizer, Identity,
ConversionFlow with proofs → proofs of the outbound pipeline, of the coherence of the token store and
of the event sets → proofs of what the log says in the end, in both directions, of the jobs a
shutdown spares, and of the data on its way.

Next, proving:

1. How far the log may be off with one of the excluded faults at a time: `failed` only for an event
   whose answer was lost or whose run was repeated, `pending` only for one whose write was.
2. The abstract register below, as a refinement of TokenStore and CRMEventSetManager.

Next, extending the model:

1. An abstract register for CachedRow ("the last write wins, or a reader may see an older value
   until it expires") with TokenStore and CRMEventSetManager as implementations.
2. The refresher's loop and the callback's loop over several advertisers, with one failing.

## Running

In this directory, with TLC and TLAPS installed:

```
tlc -workers 2 -config InboundFaults.cfg MCShutdown
tlapm InboundPipelineProofs.tla
```

`runs` in `PROJECT.json` gives the module of each configuration. The longest run,
`Conversion.cfg`, takes about three minutes, `InboundFaults.cfg` and `TokenStore.cfg` about half of that.
