# Formal model of the event-driven notification engine

TLA+ modules, TLC configurations and TLAPS proofs for the notification engine in
this repository. Paths below are relative to the repository root (`src/...` is the
TypeScript source, `docs/...` the documentation).

Check a run with `tlc -config DeliveryCalm.cfg MCDelivery`, the proofs with
`tlapm DeliveryProofs.tla`. `PROJECT.json` lists runs, mutants, the map from
definitions to source lines, findings, hazards and theorems.

## 1. The system

An event enters by HTTP or Kafka, is deduplicated, routed to channels, checked
against preferences, caps and quiet hours, rendered, queued on RabbitMQ, and
delivered by workers through external providers with failover, retry and dead
lettering. Several replicas of the same process run all of it; they share
PostgreSQL, Redis, RabbitMQ and Kafka and no memory.

| Component | State it keeps | Operations | Talks to |
|---|---|---|---|
| Ingestion (`events/`, `infrastructure/kafka`) | Kafka offsets, idempotency keys | `ingest`, consumer handler | deduplication, engine |
| Deduplication (`notifications/engine/deduplication.service.ts`) | Redis fingerprints with TTL | `check`, `claim`, `release`, `register` | ingestion, engine |
| Engine (`notifications/engine/notification-engine.service.ts`) | notification rows up to QUEUED | `process`, `resume`, `fanOut`, `renderAndQueue` | everything below |
| Scheduled release, digests (`scheduled-release.service.ts`, `notifications/digest/`) | Redis sorted sets and buckets | `releaseDue`, `add`, `flushDue` | engine, dispatch |
| Compliance (`compliance/`) | DND cache, consent records, frequency counters | `check`, `record`, `evaluate`, `isWithinQuietHours` | engine, delivery |
| Routing, preferences, send time | preference cache, engagement histogram | `route`, `resolve`, `update` | engine |
| Dispatch and broker (`delivery/dispatch`, `infrastructure/rabbitmq`) | channel queues, dead letter exchange | `publish`, `publishStored`, `consume`, `connect` | engine, delivery, retry |
| Delivery (`delivery/delivery.service.ts`, `delivery/workers`) | the notification row from QUEUED on, `dead_letter_queue` | `process`, `deliver`, `handleSuccess`, `handleFailure`, `deadLetter` | broker, compliance, breaker, providers, retry |
| Retry (`delivery/retry`) | Redis sorted sets of due times | `scheduleRetry`, `processDueRetries`, `requeueNotification` | delivery, dispatch |
| Circuit breaker (`delivery/circuit-breaker`) | Redis state, counters, `last_attempt`; `provider_health` | `allowRequest`, `recordSuccess`, `recordFailure`, `transitionTo` | delivery |
| Receipts, reads, operators (`webhook-dlr.controller.ts`, `state.service.ts`, `notifications.service.ts`) | status column | `transition`, `markAsRead`, `resolveDlqEntry`, `eraseUserData` | delivery |
| Jobs (`shared/jobs`) | none of their own | content scrub, dead letter clean-up | rows of delivery |
| Templates and A/B tests (`templates/`) | registry, variants and their weights | `validateEvent`, `render`, `resolveVariant`, `truncate`, preview | engine |
| Accounts (`auth/`) | codes, rate counters, refresh tokens in Redis; user rows | `request`, `verify`, `refresh`, `eraseUserData` | breaker, providers |
| Payments, throttling, dashboard, analytics, health | none that another part reads | | ingestion, or read-only |

What is hard in it: nothing is locked, so every `await` lets another worker, replica,
poller, receipt or operator in; PostgreSQL, Redis and RabbitMQ are written one after
the other without a transaction across them; the broker redelivers; providers lose
replies; processes die between any two writes.

What makes it correct, by component:

* delivery: a message is sent once; an SMS is checked against DND before it is sent;
  the evidence stored is the evidence that allowed the send; a failure is retried a
  bounded number of times and then visible as a dead letter; nothing is stranded;
* circuit breaker: the documented state machine, and recovery under traffic;
* ingestion: an accepted event produces its notification once, or a parked message;
* engine, release and digests: nothing held is lost or sent twice, alone or in a digest;
* caps: what is let through in any window is bounded, and a cap lifts again;
* caches and settings: a withdrawn permission takes effect on the next check;
* qualification: mandated and critical events reach their channels, the user's settings
  and quiet hours decide everything else;
* accounts: one account per identifier, sessions of its owner only, one live token each.

## 2. Modules

| Module | Models |
|---|---|
| `NotificationStates` | `notification-states.ts`: statuses, `VALID_TRANSITIONS`, `isValidTransition`; `ALREADY_HANDLED` and the audit's `SENT_STATES` |
| `Ingestion` | `EventsService.ingest`, `DeduplicationService`, `KafkaService`, the ingestion consumer and the first half of `NotificationEngineService.process` |
| `Engine` | the second half of `process`, `resume`, `fanOut`; `ScheduledReleaseService`, `DigestBucketService`, `DigestFlushService` |
| `FrequencyCaps` | `FrequencyCapService` over expiring Redis counters |
| `UserPolicies` | the DND cache, the preference cache, the update of quiet hours |
| `EventCatalogue` | the tables: event types, channels, regulatory channels, payload validators, templates and localisations |
| `Qualification` | what is decided for one event: validation, preference layers, caps, quiet hours, ranking, send time, rendering, A/B variant, SMS length, preview |
| `Delivery` | workers, broker, retry pollers, receipts, operators, erasure and retention jobs |
| `CircuitBreakerPromise` | abstract: the state diagram of `docs/sequence-diagrams/provider-failover.md` |
| `CircuitBreaker` | `CircuitBreakerService`, command by command, for one provider |
| `Accounts` | `SignupService`, `OtpService`, `OtpCodeStore`, `OtpCodeDeliveryService`, `AuthService` |
| `MC...` | the instance of each module for TLC |
| `DeliveryProofs`, `CircuitBreakerProofs`, `IngestionProofs`, `EngineProofs`, `FrequencyCapsProofs`, `QualificationProofs`, `UserPoliciesProofs`, `AccountsProofs` | TLAPS proofs about the module each is named after |

A notification passes through them in that order: `Ingestion` ends where the row is
ENRICHED, `Engine` starts there and ends where it is QUEUED, `Delivery` starts there. What
`Engine` leaves open (the routing decision) is what `Qualification` computes from the tables
of `EventCatalogue`; what `Qualification` takes as given (counters, preferences) is what
`FrequencyCaps` and `UserPolicies` keep under concurrency. A module that ends with a free
choice is checked for every choice the next module could make, so the modules are joined
by over-approximation, not by a product.

### Ingestion

State. The Redis slots of idempotency keys and fingerprints with the id they hold, the log
of one partition, the committed offset, the fetch position and the owner of the partition;
the row of each notification as far as this part goes; what was answered to each caller.
Each HTTP call and each consumer is a process.

Actions. `Arrive`, `claim` (one SET NX per slot), `ReadHolder` and `Untake` when another
request holds the second slot, `Publish` or `PublishFails` (refused, or written and its
acknowledgement lost), `release` and `ReleaseDelete` (GET, then DEL), `HandlerDies`. The
consumer's `Fetch`, `check`, `FindRow`, `CreateRow`, `register`, `EnrichCheck`,
`EnrichWrite`, `Settle`, then `Commit`; `EngineThrows` leads to `Park` or `ParkFails`;
`ConsumerCrashes` and `Rebalance` move the partition back to the committed offset.

Abstractions. One partition, because records are keyed by user; keys outlive a behaviour;
`Settle` stands for everything `Engine` does.

### Engine

State. Rows of notifications and digests; the release set, the quiet queue, the digest
buckets and their due set in Redis; `queued` counts the messages put on each channel's
queue. Per replica a release poller and a digest flusher; per notification the consumer's run
of `process`. `night` is the user's quiet window, which ends once (`Dawn`).

Actions. `Route`, `Hold`, `Bucket`, `QuietQueue`, `scheduleRelease` are `process` after the
decision; `Queue` and `PublishChannel` the fan-out, shared by the three callers, with
`QueueFails` leading to a dead letter. `Poll`, `Depth`, `Claim` (ZREM), `Defer`...,
`Resume`, `ResumeStatus`, `Reschedule` are `releaseDue`; `ClaimDue`, `Take`, `Find`, `Uncap`,
`CreateDigest`, `Settle`, `Mark`, `Restore` are `flushDue`. `ReleaseThrows`, `SendThrows`,
`FlushThrows`, `EngineThrows` are the exceptions each `catch` of the code handles, `Crash`
the death of a replica.

### Frequency caps, user policies

`FrequencyCaps` has one counter and TTL per dimension (global, category, channel, cooldown)
and time in ticks. Its actors are the release and the `Consumers`: one for each topic's
consumer group, each handling one event of the user at a time, since records are keyed by
user. Either may meet any event type, for `ingest` chooses the topic by the priority its
caller gave (`events.service.ts:115`), not by the type. A rebalance during a slow handler can
leave one more at work, which is a larger set of `Consumers`. `check` reads one counter a
step, channel by channel; `record` counts channel by channel, later, and the commands of one
call, which are sent together, are one step. Three faults leave a channel half done: its
rendering fails, its publish fails after it was counted, or (`RecordCutShort`) one of the
pipelines of `record` loses its EXPIRE or all of it. `sent` is the history `WindowBound` speaks of: for each key, the ages of the sends
that had been asked for, as long as they are younger than its window.

`UserPolicies` counts updates, so a value that is smaller than another is older. `Get`,
`Load`, `Fill` are a read through the cache; `updateDndStatus`, `assertQuietWindow` (the
preference update), `refreshDndCache` the three writers; `WriterFails` ends a write
anywhere; `Expire` is the TTL. The quiet hours have no cache: `assertQuietWindow` reads them,
`WriteQuietHours` writes those the request names, with the transaction of the channels in
between.

### Event catalogue and qualification

`EventCatalogue` holds the code's tables as functions: per template and channel the payload
fields its text prints, per event type the fields its validator requires.
`Qualification` takes one event through `validateEvent`, `resolve`, `Digest`, `CheckCaps`,
`CheckQuietHours`, `Rank`, `Suppress`, `Optimise`, then through `resume`, `deferToDigest` or
`flush` if it was held, delayed, capped or digested, to `fanOut` or into a digest. Its inputs
(entries, usage, clock, window, score table, rendering) are chosen at the step that reads
them. The channels of an event ask for their caps one after the other, and each reads the
counters again (`routing-engine.service.ts:114`); so the answers are chosen per channel, and
two channels may find the same counter open and full. Time is in
half hours, as the time zones of the code's users need. A text is its length, alphabet,
extended characters, naira signs and last space.

### Accounts

State. Per kind of request and identifier the rate counter, its TTL and the cooldown key;
the stored codes; user rows and their preferences; refresh tokens, `auth:refresh` keys and
revoked families. Whether a presented code is right is a choice that only somebody the code
was delivered to can make. Each client is one HTTP request at a time: `request` to
`sendSms`, `verify` to `issue`, `refresh` to `Revoke`. `FailsOpen` is a Redis error inside
the rate limit, `CutShort` a request that ends anywhere, `eraseUserData` an erasure, which
frees the identifier.

### Delivery

State. A notification row is `status`, `attempts` (`deliveryAttempts`), `content`
(`renderedContent` not null), `externalId` (set or not), `dndResult`, `consentRecord`;
its `dead_letter_queue` row is `dlqEntry` (none, open, or resolved as retried or
discarded). RabbitMQ is a count of ready messages per notification (`queue`) and of
messages on the dead letter queues (`deadLettered`); Redis is the set `retryQueue`.
Each worker, poller, operator and webhook is a process with a program counter.

Actions. One per awaited write; reads are joined to a neighbouring step only when no
other actor can see the difference. `Receive` to `Ack` follow `process()` line by line:
requeue, consent, DND, primary provider, fallback, success or failure, retry or dead
letter, acknowledgement. `StartFailure` reads `deliveryAttempts` and `HandleFailure`
writes it back later, as the code does. `WorkerThrows` is any exception inside
`process()` (the consumer nacks without requeue), `WorkerCrashes` the death of the
process (the broker redelivers), `Disconnect` the loss of the broker connection
(redelivery, and `connect()` does not register the consumers again). `Poll` ...
`Zrem` are the retry worker; `ResolveDlqEntry` ... `MarkResolved` the operator;
`TransitionCheck`/`TransitionWrite` are `StateService.transition`, whose check and
write are separate database calls.

Abstractions. Retry delays, priorities and time are gone: a retry is due whenever the
model says so. Consent, the DND registry and providers answer nondeterministically, and
the circuit breaker's refusal is one of the ways a provider call fails. Writes to
append-only tables (`notification_state_log`, `delivery_attempts`), metrics and the
dashboard are left out: they are not read back, and their failure is `WorkerThrows`.
The client library's reaction to settling a message on a dead channel is external and
left open (`Settle`). A publish whose frames never reach the broker is not modelled.

### Circuit breaker

State. The Redis keys `state`, `failures` and `half_open_successes` with their TTLs,
`last_attempt` as the number of ticks since it was written, and `provider_health`.
A caller is one execution of `tryProvider`; each Redis or PostgreSQL command is a step,
so a decision can be stale when it is written. `CallCutShort` is a command that throws
or a process that dies. `openedFor` is a history variable for the properties.
A tick is 30 seconds: 2 ticks open, a window of 2, half-open successes kept for 1.

`CircuitBreakerPromise` is the documented machine. `CircuitBreaker!Documented` says the
service implements it under a refinement mapping in which a decision already taken
counts as a full counter, even if the key expires before the state is written. That an
old success never counts in a later probing period rests on the 30-second TTL being
shorter than the 60 seconds a circuit stays open: nothing deletes the key on
HALF_OPEN → OPEN.

## 3. Runs

| Run | Instance | Shows |
|---|---|---|
| `ingestion` | a call, its retry with the same key and a competing call, 2 consumers, 2 buckets, any one fault, fair | `OneNotification`, `AnswersHold`, `SkippedOnlyUnparked`, `Consumed` |
| `skipped_message` | 2 events, 1 consumer | violates `AtLeastOnce` |
| `engine_replicas` | 2 notifications, 2 replicas, 2 channels, any one fault | `SentOnce`, `HeldIsKept`, `DigestedIsInDigest` |
| `engine_release` | 3 notifications, 1 replica, a failed send or publish, fair | `PileIsDigested`, `HeldIsReleased` |
| `frequency_caps` | 2 consumers, 6 alerts that answer to all four caps, one of them held at a time, a day and an hour of 3 ticks, one fault, fair | `WindowBound`, `CapLifts` |
| `user_policies` | 2 readers, 2 writers, 3 updates, 2 reads, one fault | `ReadsLastUpdate` |
| `qualification` | 25 event types, 3 clocks, 3 windows, 4 states per preference layer, the usages of `MCUsages` (some differ between channels), 3 score tables | `MandatedKept`, `SettingsObeyed`, `DueOnTime`, `PreviewAgrees`, `MarginCallComplete`, `OneSegment` |
| `delivery_calm` | an SMS and an in-app notification, 2 workers, 1 poller, 1 operator, 2 receipts, 1 lost reply, 2 retries, fair | `NoDoubleSend`, `EvidenceMatchesSend`, `RetryBudget`, `DeadLetterHasEntry`, `Drains` |
| `delivery_crash` | an SMS, 2 workers, 1 poller; a crash, an exception, an operator request and an upkeep job, or a disconnect and a receipt | `InFlightAccounted`, `SmsSentChecked`, `ResolutionFinal` |
| `breaker_sequential` | one caller, the code's thresholds | `Documented`, `HealthAgrees` |
| `breaker_concurrent` | two callers, one call cut short, fair | `FullWindowTrips`, `Recovers` |
| `accounts` | 2 clients, one phone number, 2 code requests, 3 tokens, one fault | `OneAccountPerIdentifier`, `SessionIsOwners`, `Rotation`, `WindowIsTimed` |

`TypeOK` is an invariant of `delivery_calm`, `breaker_sequential`, `ingestion`,
`engine_replicas` and `accounts`. What the properties say:

* `OneNotification`: with acknowledged publishes and no overtaken handler, requests for one
  event lead to one notification per key, and per fingerprint and bucket, plus one for each
  request that could not claim its keys (Redis failed, or the claim was taken back because
  another request held the second key): such requests are published unclaimed, and the
  engine's own check is what tells them apart later. `AnswersHold`: an
  event refused with 503 leaves no key behind that a retry would meet
  (`RefusedHoldsNothing`), what was answered 202 was dispatched or parked in the end, for
  callers who use a key for one event only (`AcceptedIsHandled`). `SkippedOnlyUnparked`,
  `Consumed`: the committed offset passes over nothing that could be parked, and the lag
  returns to zero.
* `SentOnce`: no row is queued twice on a channel, and no notification goes out both alone
  and in a digest. `HeldIsKept`: whatever is held is in a set that will be polled or in
  somebody's hands (`HeldForMorning`, `HeldForDigest`). `DigestedIsInDigest`: DIGESTED is
  backed by a digest that was queued. `PileIsDigested`, `HeldIsReleased`: the morning after.
* `WindowBound`: consumers that check at once pass the same last slot, so one opening of a
  counter lets through its cap and one more for each other consumer (`Room`); two openings
  can meet in a stretch of a window's length, which makes at most twice that, less one, and
  one more for each fault. The run attains the bound: with two consumers and a cap of 2,
  five of the six alerts are sent within a day, with no fault. The cooldown, which starts
  again with each send, lets one through per consumer and fault. `CapLifts`: though an EXPIRE
  may be lost, a cap that is reached lifts again.
* `ReadsLastUpdate`: a check that begins after an update was answered sees it. No
  property speaks of the six hours of quiet: two updates can leave less (section 5).
* `MandatedKept`: a mandated channel is lost to nothing but the category or the global cap,
  read when that channel asks, and then possibly alone; a critical event keeps all of them
  and never waits. `SettingsObeyed`: from the entries to the queue, after whatever hold, delay
  and release: a channel turned off is queued only when it is mandated, one turned on unless
  a cap took it or it has no text. Both end where an event goes into a digest (section 5).
  `DueOnTime`: when; its part `QuietHoursKept` says that nothing but critical and delayed
  events is sent in the quiet window, at once, released or in a digest, and compares the
  code's interval tests with a modular reference; `DelayedToBestHour` the code's delay with
  the user's clock. `PreviewAgrees`, `MarginCallComplete`, `OneSegment`: what is rendered.
* `NoDoubleSend`: a message is sent once, and once more per lost reply at most.
  `EvidenceMatchesSend`: the DND and consent evidence stored is what allowed the send.
  `RetryBudget`, `DeadLetterHasEntry`, `Drains`: attempts are bounded, dead letters
  complete, queues empty in the end. `InFlightAccounted`: what is shown as queued or
  retrying is somewhere. `SmsSentChecked`, `ResolutionFinal`: see section 4.
* `OneAccountPerIdentifier`: two racing verifications create one row. `SessionIsOwners`: a
  session was opened with a code delivered to its account. `Rotation`: one redeemable
  refresh token per session, and none once it is revoked. `WindowIsTimed`: a rate counter
  without a TTL belongs to a request that is about to set it, whatever others count
  meanwhile, or was left by a request cut short between INCR and EXPIRE; the latter refuses
  its identifier for good (section 5).

Each property has a mutant of the code's definition that violates it (`PROJECT.json`). A
property that the code keeps only under a condition states the condition, and the case
outside it is listed in section 5.

Bounds. `MaxRetries` is 2 where the code has 3 to 5: the second retry is the first
that can be lost to a late `zrem`, and one more repeats the same steps. `Budget`,
`MaxFaults` bound the faults; the invariants that must survive faults meet any one of them
at any moment, in `delivery_crash` one of each of several kinds. There, the constraint
`OneStory` keeps apart two stories (process faults and upkeep; connection faults and
receipts) whose product is too large; `InFlightAccounted` speaks of the first. Two workers,
consumers, replicas, writers or clients are the least that can race. One or two
notifications suffice for `Delivery` because rows, queue counts and retry ids never interact
across notifications except through the workers, which a second notification keeps busy;
`engine_release` has three so that a pile can be larger than `DigestThreshold` (1 for 5) and
than `CappedMinItems`. Caps of 2, windows of 3 ticks and a cooldown of 1
let two openings of a counter meet and both be filled within 6 events, which is where
`WindowBound` is tight; one type on one channel is what makes 6 events affordable, and other
types and lists of channels are left to the proof. `OTP_MAX_ATTEMPTS` and `RATE_LIMIT` are 2
(for 5 and 3), enough to be reached by two clients. The breaker's failure threshold is 5
as in the code for one caller, and 2 for two callers, who then need not wait for each
other. Symmetry is used only in runs without liveness and over sets whose members are
interchangeable.

Deadlock is checked for `FrequencyCaps`, where time always passes, and for `CircuitBreaker`;
everywhere else the system stops when all requests, events and notifications are done.

Fairness. Workers, pollers, consumers and requests that have begun keep going: consumers are
pushed messages by the broker, the pollers run on intervals, a request runs to its end. Time
passes (`Dawn`, `Tick`, `Expire`). No fault, receipt, operator, job or new request is ever
forced. `Recovers` assumes traffic (callers keep calling); without calls the breaker does
nothing, since it has no timer of its own.

## 4. Proofs

Every theorem holds for all values of the constants that meet the module's ASSUME and the
hypotheses the theorem itself names. The assumptions type the constants and say that model
values are distinct; three of them carry more: `IsFiniteSet` of the clients, requests or
notifications where a count is bounded, and in `Qualification` the form of the inputs
(preference entries name channels, score tables map hours to counts, a text has a length).

### Delivery

For any number of notifications, workers, pollers, operators, webhooks and faults:

* `TypeCorrect`: `Spec => []TypeOK`.
* `SmsAlwaysChecked`: `SmsSentChecked`, the count the compliance audit requires to be zero.
  The invariant is not inductive: a worker past the DND check, a receipt that has been
  validated but not written and an external id all lead to a sent state later. `DndEvidence`
  adds that each of them already implies a check; that a user's READ needs DELIVERED is the
  lemma `OnlyDeliveredIsRead`.
* `ResolutionNeverReopened`: `ResolutionFinal`, by cases on the four steps that write a dead
  letter entry.

With one poller, one operator and no crash, exception or lost connection (`NothingFails`,
`OnePoller`, `OneOperator`), and any number of workers, notifications, operator requests,
receipts, lost replies, erasures and clean-ups:

* `OneCopyAlways`: the invariant `CopyInv`. A notification has one copy at a time: a message,
  a worker at work on it, an id waiting in Redis, or a dead letter an operator may resend.
  Two of them may coexist only where the second can no longer be published: a poller between
  its publish and its `zrem`, an operator between publish and resolution, or a row whose
  content was scrubbed. Everything below rests on it.
* `NeverSentTwice` (`NoDoubleSend`): `SendInv` says that a notification a provider has taken
  is `Finished`, and `FinishedStays` that it remains so.
* `EvidenceAlwaysMatches` (`EvidenceMatchesSend`): `EvidenceInv`. After the send nobody asks
  for consent or the registry again, so nothing overwrites what allowed it.
* `RetriesAlwaysBounded` (`RetryBudget`): `AttemptInv`. The count read before the failure is
  the count when it is written back, because the reader holds the only copy.

Each hypothesis is needed: section 5 has the case without it. Under weaker ones:

* `DeadLetterAlwaysHasEntry` (`DeadLetterHasEntry`): any number of pollers and operators, and
  connections may break; no crash, no exception, no clean-up of entries.
* `InFlightAlwaysAccounted` (`InFlightAccounted`): one poller and one operator request;
  everything may crash, throw, be redelivered, erased and cleaned up. `FlightInv` names who
  carries a notification shown as QUEUED or RETRYING, and excludes carriers that are about to
  let go (a poller before its `zrem`, an operator before the resolution, a worker that has
  written the outcome).

### Circuit breaker

For any number of callers and all positive thresholds, durations and windows:

* `TypeCorrect`; `FullWindowAlwaysTrips` (`FullWindowTrips`). The strengthening
  `ClosersClear` says that whoever is closing the circuit continues by clearing the counters;
  without it the step that leaves `upsertHealth` could end with a full window and nobody to
  act on it.

One call at a time, none cut short (`OneAtATime`):

* `HealthAlwaysAgrees` (`HealthAgrees`).
* `ImplementsPromise`: `Spec => Documented`, the refinement of `CircuitBreakerPromise`, step
  by step (`RefinementStep`). It also needs `WindowsFit`: the windows of both counters are no
  longer than the circuit stays open, as in the code's configuration (60 s and 30 s, 60 s).
  `SequentialInv` has four parts: what a call read still holds when it acts on it
  (`CallIsCurrent`), the circuit half-opens after its duration (`ClockIsRight`), counters of
  an earlier period have expired by then (`CountersAge`), and enough successes are being
  acted on (`FullProbeCloses`).

### Ingestion

For any number of requests, keys, entities, consumers and faults:

* `TypeCorrect`: `TypeOK`, through `Types`, which adds that offsets lie within the log.
* `OnlyUnparkedSkipped` (`SkippedOnlyUnparked`): `Skips` counts the unhandled messages below
  the position the owner of the partition has passed, not only below the committed offset.
* `AnswersAlways` (`AnswersHold`). For refusals (`RefusalHoldsNothing`), `Holding` says which
  keys a request may hold at each of its steps while it is not on the bus. For acceptances
  the danger is a circle, one event dropped as the duplicate of another that is dropped, or
  backs out, as the duplicate of the first. `OwingAll` speaks of the events of an entity for
  which nothing has been done yet (`Untouched`): until then only claims and their undoing
  write redis, and whoever an event is turned away for will not be turned away itself. The
  holder of a key is still claiming or passes the consumer's check by that key (`KeyKept`);
  the holder of the current bucket's fingerprint has not been dropped (`PrintKept`), and of
  all holders of fingerprints one has not (`SomeKept`); so of all that were promised to a
  caller one is under way (`Owed`). `MindedAll` adds that, without a crash, a row that exists
  is worked on until it is settled. A first form of the property excused a crash only for
  rows stranded in ENRICHED; it failed on the attempt to prove it, and TLC then showed the
  way a row in CREATED is stranded, with five requests, one consumer and one crash
  (known gaps).
* `OneNotificationAlways` (`OneNotification`): `Sole` is the consumers' half (one handler at a
  time, a settled row is not dispatched again), `Claims` the requests' half (who has taken,
  and not given back, a key and a fingerprint). The bound on cardinalities is derived from
  them. A first form of the property, one notification per key without exception, was true
  of three requests and false of four; the proof attempt found it.

### Engine

For any number of notifications, digests, channels and replicas, and every fault:

* `TypeCorrect`: `TypeOK`, through `Types`, one part per group of variables.
* `DigestedAlwaysInDigest` (`DigestedIsInDigest`): `Marked` follows a digest from its row to
  the mark of its items.
* `SentOnceAlways` (`SentOnce`): `Rowwise` ties the status of each row to the step of whoever
  works on it (the consumer's run, the poller that claimed it by ZREM, the flusher of its
  digest); `Placed` says that a notification is in one bucket or in one flusher's hands, and
  counts the digests that list it by the failures so far.
* `HeldAlwaysKept` (`HeldIsKept`): `Keeping` names who has what waits for the morning
  (`KeptForMorning`) or for a digest (`KeptForDigest`), and that each bucket that holds
  something is due or won by a flusher (`BucketsDue`). It needs two more facts. `Intact`: as
  long as no release is retried, whatever is scheduled is still as `process` left it, so a
  deferral or a resumption finds the status it expects. `Grouped`: a flush that failed after
  uncapping leaves its ids together, so that a later flush does not find fewer than
  `DIGEST_MIN_ITEMS` and drop them.
* `PileAlwaysDigested` (`PileIsDigested`), for one releasing replica and no retried release:
  `Overnight` follows the pile. Until the morning's first poll all of it is scheduled, so that
  poll reads all of it, and a depth above the threshold; each member then stays in the batch
  or is being deferred.

### Qualification

For every event, preference, counter, clock, window, score table and text the assumption
admits, and every way through holds, delays, releases and digests: `SettingsAlwaysObeyed`,
`MandatedAlwaysKept`, `PreviewAlwaysAgrees`, `MarginCallAlwaysComplete`, `OneSegmentAlways`
and `AlwaysDueOnTime`, each named after its property. The invariants `SettingsResolved`,
`Kept`, `Accounted`, `Rendered` and `Awake` say what the chain of filters has preserved at
each stage; `QuietTest`, `QuietEnds`, `BestHour`, `Ranking` and
`CutFits` are lemmas about the operators. That a smallest element exists (`Least`) comes from
the library's theorem on well-founded orders, with a set as its parameter. The ranking is
stated as a choice of a sorted sequence, because the library's `SortSeq` is recursive.

### User policies and accounts

* `AlwaysReadsLastUpdate` (`ReadsLastUpdate`): `Fresh` says that an entry of the cache, or a
  value about to be put there, that is older than an answered update is known to be in doubt.
* `TypeCorrect`, `WindowAlwaysTimed` (`WindowIsTimed`).
* `OneAccountAlways` (`OneAccountPerIdentifier`), inductive as it stands: only the insert and
  the erasure write the table (`OthersLeaveAccounts`), the insert is refused by the unique
  index, and an erased row no longer counts. The check before the insert is not needed.
* `SessionAlwaysOwners` (`SessionIsOwners`): `Owned` attaches to each code request the
  identifier it was delivered to, and follows it through `verify` to the token.
* `RotationAlways` (`Rotation`): `OneHolder` counts live tokens and requests about to issue
  one, `LateIsStopped` says that a refresh that began after the revocation is refused.

### Frequency caps

For any number of consumers, caps above one, windows, types, channel lists, number of events
and faults:

* `CapsHold` (`WindowBound`). The invariant is one law per key (`Law`), a statement about its
  counter, its TTL and the ages of its sends, so that the lemmas about it speak of numbers
  and a sequence only: what a send, a count, a fault, a passed check and a tick do to it. An
  open window divides the sends at its opening: with C the cap and P the consumers, at most
  C + P - 2 are older, at most C + P - 1 belong to it, and s and u of the faults are charged to
  the two parts (`OpenAt`). When the window ends, the send that opened it has grown too old
  as well, which leaves C + P - 2 (`LawTick`). Four details make it inductive. A consumer that
  has found a counter below its cap and has not yet recorded its send is charged in advance
  (`Coming`, which counts such consumers): the one that reads a counter below C finds at most
  P - 1 others who have. Which keys those are is `Pending`, for the reads of a channel come
  one by one and the channels after one another. A fault on an event's first channel is
  charged in advance as well (`Owed`), for the sends that follow count their channel only.
  And a window that a release has opened gives up one of its cap until something is sent in
  it: there caps above one are needed, as with a cap of one a send that passed the check
  before a release opened the window is a second one in it, and TLC finds the bound exceeded.
  The rest is `ConsumerRow`: the lists of a consumer name a channel once, so that no channel
  is charged or sent twice.

### Only model-checked

Liveness under fairness (`Drains`, `Recovers`, `Consumed`, `HeldIsReleased`, `CapLifts`),
which the prover does not handle. No module declares a RECURSIVE operator.

## 5. Known gaps

Places where the code does less than its comments or documents say, found while modelling.
`skipped_message` is a run (and a finding in `PROJECT.json`); the others are the conditions
under which the properties above are stated.

Delivery and breaker:

* Two replicas' pollers read the same due id (`retry-worker.service.ts:137`) and both
  republish it; the second RETRYING write undoes SENT, and the message is sent twice.
  `NoDoubleSend` is checked for one poller.
* The `zrem` after a republish (`retry-worker.service.ts:144`) deletes a retry scheduled
  meanwhile under the same id; the notification stays FAILED.
* A retry by one operator and a discard by another, or a discard after a retry that failed
  half-way, resolve the entry while the row says RETRYING (`notifications.service.ts:236`):
  nothing carries it any more. `InFlightAccounted` is stated for one request.
* After an operator's retry the dead letter stays resolved (`delivery.service.ts:337`): a
  second failure is in no list.
* A crash between the status DLQ and the dead letter row (`delivery.service.ts:302`) loses
  the row: the redelivered message counts as already handled.
* `create` on an existing entry (`retry-worker.service.ts:196`) throws on every poll, before
  the `zrem`.
* `connect()` does not register the consumers again (`rabbitmq.service.ts:54`): after a
  disconnect the replica consumes nothing.
* `transitionTo` writes the state before `last_attempt` (`circuit-breaker.service.ts:158`):
  a caller in between half-opens the circuit at once. A half-open circuit lets every caller
  through, though lines 22 and 79 speak of a single probe. With two callers
  `provider_health` may keep a state the circuit has left.
* A provider whose reply is lost and the fallback both send (`provider-failover.md:59`
  mentions idempotency keys; the code passes none). A FAILED receipt leaves the notification
  FAILED without a retry.

Ingestion:

* A publish that is written but not acknowledged releases its claim: the caller's retry
  becomes a second notification (`deduplication.service.ts:19`).
* A crash after ENRICHED strands the row: redelivery takes it for already processed
  (`notification-engine.service.ts:131`). The same holds when a handler throws and its
  message is parked.
* A crash after CREATED can strand the row as well. On redelivery the consumer may find the
  key of the event taken by a request that found the key free and the event's own
  fingerprint held, and is about to give the key back (`deduplication.service.ts:120`): the
  event is dropped as that request's duplicate (`:49`), and the request is answered with the
  event's id.
* A second request may be answered 202 with the id of an event whose publish then fails.
* An exception between the claim and the publish (`events.service.ts:107`) keeps the claim.
* `fromBeginning: false` (`kafka.service.ts:258`): what was published before the group's
  first start is not read; an unparsable message is dropped (`:276`).

Engine, release and digests:

* A crash between ZREM and the end of a release or a flush loses what was in hand.
* `flush()` that throws before or after `take`, outside `send()`, drops the ids it took from
  Redis although "nothing is ever dropped silently" (`digest-flush.service.ts:48`).
* A release that throws after QUIET became ROUTED, or DIGEST_PENDING, is put back but not
  resumed when the next poll finds a pile: `deferToDigest` takes it for released
  (`scheduled-release.service.ts:105`).
* Two replicas, or a batch of more than 50, split a pile: part of it may go out alone.
* A flush that fails half-way repeats items in a second digest.

Caps, policies:

* The "rolling 24h" counters (`frequency-cap.service.ts:20`) are fixed windows that open
  with the first send. A release does not ask again; a rendering failure leaves the event
  uncounted. `increment` drops the errors of its pipeline (`redis.service.ts:97`): a message
  goes out uncounted, and of a fresh counter that loses its EXPIRE as often as its cap is
  high, the cap never lifts. A cap of one would not be kept at all (section 4).
* "One user's events are processed in order by a single consumer" (`frequency-cap-flow.md:66`)
  is true of one topic. An event of any type posted with priority 1 goes to the other
  (`events.service.ts:115`): both pass the last slot,
  and two events of one type are sent within the "min 15 min gap" of
  `frequency-cap.service.ts:24`. `WindowBound` says how far this goes.
* A fill that read before an update and writes after its invalidation is served until its
  TTL ends (`dnd.service.ts:184`). `updateDndStatus` and `refreshDndCache` have no callers.
* Two partial updates of the quiet window are each validated against the hours stored before
  (`preferences.service.ts:96`) and can together leave less than six hours.
* The digest mode is read by a second GET and may be newer than the channels.

Qualification:

* A delay to the best hour may end inside the user's quiet window.
* `recordEngagement` counts the server's hour, the delay uses the user's.
* Mandated events of a user in digest mode go out at once, but when they are part of a
  quiet-hours pile, or a cap takes all their channels, they end in a digest,
  against `docs/consent-and-digests.md:72` (`scheduled-release.service.ts:95`,
  `notification-engine.service.ts:317`).
* A digest goes out on push and in-app (`digest-flush.service.ts:27`, `:253`), whether or not
  the user has turned them off.
* Several templates print fields their validators do not require; `MarginCallComplete`
  names the types for which they do.
* A text that is cut may still be too long when it holds characters of the extension table.
* An A/B variant whose template is not registered dead-letters every send of its share.

Accounts:

* A counter whose EXPIRE was cut off after INCR refuses the identifier for good
  (`otp-code-store.service.ts:50`).
* `verify` reads, compares and writes: concurrent wrong codes count once, and two requests
  with the right code both pass.
* An account whose preferences failed stays without them; the caller's retry is a conflict.
* A code no provider took is answered as sent.
* A revocation mark lives as long as the token presented, not as the family.
* A code stored, or a session opened, before `eraseUserData` still works afterwards.

## 6. Not modelled, and what is left

Not modelled: the texts of templates, provider HTTP formats and signatures, PII encryption,
payment webhooks (a stateless adapter in front of `ingest`), plan throttling (one MULTI per
request), dashboards, analytics, health and metrics (views over state kept elsewhere),
seeds, scripts and configuration, partition maintenance (DDL), consent records (an
append-only table).

Out of the prover's reach: liveness, and what folds compute for every input. Every safety
property of the passing runs is a theorem.
