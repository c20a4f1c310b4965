------------------------------ MODULE Delivery ------------------------------
(***************************************************************************)
(* The delivery half of the engine: the channel queues of RabbitMQ, the    *)
(* workers that consume them (DeliveryWorkerService, DeliveryService), the *)
(* Redis retry queue and its pollers (RetryWorkerService), the provider    *)
(* receipts and user reads that drive StateService.transition, the         *)
(* operator's resolution of dead letters (NotificationsService) and the    *)
(* jobs that scrub content (erasure, retention).                           *)
(*                                                                         *)
(* Granularity: one step per write to PostgreSQL, Redis, RabbitMQ or a     *)
(* provider, because every `await` lets every other actor run.  A read is  *)
(* joined to the step before it when that step touches nothing another     *)
(* actor can see.  Appending to notification_state_log, delivery_attempts, *)
(* metrics and the dashboard changes nothing that is read again; such a    *)
(* call can only throw, which WorkerThrows covers at every point.          *)
(***************************************************************************)
EXTENDS Naturals, NotificationStates

CONSTANTS
    Notifications,   \* notification rows already rendered and queued
    Workers,         \* concurrent executions of DeliveryWorkerService.handle
    Pollers,         \* replicas running RetryWorkerService
    Operators,       \* concurrent calls of resolveDlqEntry
    Webhooks,        \* concurrent calls of StateService.transition
    Channel,         \* the channel of each notification
    Classification,  \* TRANSACTIONAL or PROMOTIONAL, for each notification
    MaxRetries,      \* RETRY_CONFIG[priority].maxRetries, for each notification
    ConsentMode,     \* CONSENT_ENFORCEMENT
    Budget,          \* bound on each kind of fault and of outside request
    None             \* no notification

Channels == {"sms", "email", "push", "whatsapp", "in_app"}

BudgetKinds ==
    {"crash", "throw", "disconnect", "lostReply", "operator", "receipt", "upkeep"}

ASSUME DeliveryAssumption ==
    /\ Channel \in [Notifications -> Channels]
    /\ Classification \in [Notifications -> {"TRANSACTIONAL", "PROMOTIONAL"}]
    /\ MaxRetries \in [Notifications -> Nat]
    /\ ConsentMode \in {"off", "audit", "enforce"}
    /\ Budget \in [BudgetKinds -> Nat]
    /\ None \notin Notifications

VARIABLES
    \* the notification row
    status, attempts, content, externalId, dndResult, consentRecord,
    \* its row in dead_letter_queue
    dlqEntry,
    \* RabbitMQ: ready messages per notification, messages on the DLX queues
    queue, deadLettered,
    \* Redis: members of the retry sorted sets
    retryQueue,
    \* delivery workers: program counter, message held, attempt number read,
    \* and whether the consumer still has the channel it was registered on
    wpc, job, att, attached,
    \* retry pollers: program counter, due ids still to do, id being requeued
    ppc, due, cur,
    \* operators and webhooks: program counter, subject, target
    opc, entry, hpc, subject, target,
    \* messages the providers have accepted for delivery (history)
    accepted,
    \* faults and outside requests used so far
    used

row     == <<status, attempts, content, externalId, dndResult, consentRecord>>
broker  == <<queue, deadLettered>>
worker  == <<wpc, job, att, attached>>
poller  == <<ppc, due, cur>>
operatr == <<opc, entry>>
webhook == <<hpc, subject, target>>
vars    == <<row, dlqEntry, broker, retryQueue, worker, poller, operatr, webhook,
             accepted, used>>

WorkerPc ==
    {"idle", "requeue", "consent", "noConsent", "dnd", "dndBlock", "primary", "fallback",
     "success", "confirm", "failed", "schedule", "dlq", "dlqRow", "ack"}
PollerPc   == {"next", "publish", "create", "zrem"}
OperatorPc == {"idle", "retry", "republish", "resolveRetry", "resolveDiscard"}

DndResults     == {"NOT_CHECKED", "REGISTERED", "NOT_REGISTERED", "UNKNOWN"}
ConsentRecords == {"none", "granted", "withdrawn"}
DlqEntries     == {"none", "open", "retried", "discarded"}

TypeOK ==
    /\ status        \in [Notifications -> NotificationStatus]
    /\ attempts      \in [Notifications -> Nat]
    /\ content       \in [Notifications -> BOOLEAN]
    /\ externalId    \in [Notifications -> BOOLEAN]
    /\ dndResult     \in [Notifications -> DndResults]
    /\ consentRecord \in [Notifications -> ConsentRecords]
    /\ dlqEntry      \in [Notifications -> DlqEntries]
    /\ queue         \in [Notifications -> Nat]
    /\ deadLettered  \in [Notifications -> Nat]
    /\ retryQueue    \in SUBSET Notifications
    /\ wpc           \in [Workers -> WorkerPc]
    /\ job           \in [Workers -> Notifications \cup {None}]
    /\ att           \in [Workers -> Nat]
    /\ attached      \in [Workers -> BOOLEAN]
    /\ \A w \in Workers : wpc[w] # "idle" => job[w] \in Notifications
    /\ ppc           \in [Pollers -> PollerPc]
    /\ due           \in [Pollers -> SUBSET Notifications]
    /\ cur           \in [Pollers -> Notifications \cup {None}]
    /\ \A p \in Pollers : ppc[p] # "next" => cur[p] \in Notifications
    /\ opc           \in [Operators -> OperatorPc]
    /\ entry         \in [Operators -> Notifications \cup {None}]
    /\ \A o \in Operators : opc[o] # "idle" => entry[o] \in Notifications
    /\ hpc           \in [Webhooks -> {"idle", "write"}]
    /\ subject       \in [Webhooks -> Notifications \cup {None}]
    /\ target        \in [Webhooks -> NotificationStatus]
    /\ \A h \in Webhooks : hpc[h] # "idle" => subject[h] \in Notifications
    /\ accepted      \in [Notifications -> Nat]
    /\ used          \in [BudgetKinds -> Nat]

\* Every notification has just been moved to QUEUED and published by the
\* engine: one message, content stored, nothing attempted.
Init ==
    /\ status        = [n \in Notifications |-> "QUEUED"]
    /\ attempts      = [n \in Notifications |-> 0]
    /\ content       = [n \in Notifications |-> TRUE]
    /\ externalId    = [n \in Notifications |-> FALSE]
    /\ dndResult     = [n \in Notifications |-> "NOT_CHECKED"]
    /\ consentRecord = [n \in Notifications |-> "none"]
    /\ dlqEntry      = [n \in Notifications |-> "none"]
    /\ queue         = [n \in Notifications |-> 1]
    /\ deadLettered  = [n \in Notifications |-> 0]
    /\ retryQueue    = {}
    /\ wpc           = [w \in Workers |-> "idle"]
    /\ job           = [w \in Workers |-> None]
    /\ att           = [w \in Workers |-> 0]
    /\ attached      = [w \in Workers |-> TRUE]
    /\ ppc           = [p \in Pollers |-> "next"]
    /\ due           = [p \in Pollers |-> {}]
    /\ cur           = [p \in Pollers |-> None]
    /\ opc           = [o \in Operators |-> "idle"]
    /\ entry         = [o \in Operators |-> None]
    /\ hpc           = [h \in Webhooks |-> "idle"]
    /\ subject       = [h \in Webhooks |-> None]
    /\ target        = [h \in Webhooks |-> "READ"]
    /\ accepted      = [n \in Notifications |-> 0]
    /\ used          = [k \in BudgetKinds |-> 0]

Spend(kind) ==
    /\ used[kind] < Budget[kind]
    /\ used' = [used EXCEPT ![kind] = @ + 1]

SetStatus(n, s) == status' = [status EXCEPT ![n] = s]
Publish(n) == queue' = [queue EXCEPT ![n] = @ + 1]

-----------------------------------------------------------------------------
(***************************************************************************)
(* DeliveryService.process, run by a delivery worker for one message.      *)
(***************************************************************************)

\* Provider failure handling starts by reading deliveryAttempts; the value
\* is written back by HandleFailure, after other workers may have run.
StartFailure(w) ==
    /\ wpc' = [wpc EXCEPT ![w] = "failed"]
    /\ att' = [att EXCEPT ![w] = attempts[job[w]] + 1]
    /\ UNCHANGED <<job, attached>>

GoTo(w, pc) ==
    /\ wpc' = [wpc EXCEPT ![w] = pc]
    /\ UNCHANGED <<job, att, attached>>

Release(w) ==
    /\ wpc' = [wpc EXCEPT ![w] = "idle"]
    /\ job' = [job EXCEPT ![w] = None]
    /\ att' = [att EXCEPT ![w] = 0]

Take(w, n) ==
    /\ wpc[w] = "idle"
    /\ attached[w]
    /\ queue[n] > 0
    /\ queue' = [queue EXCEPT ![n] = @ - 1]

\* A message for a notification that needs nothing more is acked and dropped.
SkipHandled(w, n) ==
    /\ Take(w, n)
    /\ status[n] \in AlreadyHandled
    /\ UNCHANGED <<row, dlqEntry, deadLettered, retryQueue, worker, poller, operatr, webhook,
                   accepted, used>>

\* Plausible slip: the worker starts on a message without remembering it.
Receive_Unbound(w, n) ==
    /\ Take(w, n)
    /\ status[n] \notin AlreadyHandled
    /\ wpc' = [wpc EXCEPT ![w] = IF status[n] = "RETRYING" THEN "requeue" ELSE "consent"]
    /\ UNCHANGED <<row, dlqEntry, deadLettered, retryQueue, job, att, attached, poller, operatr,
                   webhook, accepted, used>>

Receive(w, n) ==
    /\ Take(w, n)
    /\ status[n] \notin AlreadyHandled
    /\ wpc' = [wpc EXCEPT ![w] = IF status[n] = "RETRYING" THEN "requeue" ELSE "consent"]
    /\ job' = [job EXCEPT ![w] = n]
    /\ UNCHANGED <<row, dlqEntry, deadLettered, retryQueue, att, attached, poller, operatr,
                   webhook, accepted, used>>

\* A retried notification re-enters the pipeline as QUEUED.
Requeue(w) ==
    /\ wpc[w] = "requeue"
    /\ SetStatus(job[w], "QUEUED")
    /\ GoTo(w, "consent")
    /\ UNCHANGED <<attempts, content, externalId, dndResult, consentRecord, dlqEntry, broker,
                   retryQueue, poller, operatr, webhook, accepted, used>>

requiresConsent(n) ==
    \/ Channel[n] = "whatsapp"
    \/ Channel[n] \in {"sms", "email"} /\ Classification[n] = "PROMOTIONAL"

\* Plausible slip: exempt messages skip the registry altogether.
AfterConsent_ExemptUnchecked(n) ==
    IF Channel[n] = "sms" /\ Classification[n] = "PROMOTIONAL" THEN "dnd" ELSE "primary"

AfterConsent(n) == IF Channel[n] = "sms" THEN "dnd" ELSE "primary"

\* Plausible slip: a user who was never asked counts as consenting.
ConsentPermits_NeverAsked(record) == record # "withdrawn" \/ ConsentMode = "audit"

\* What a consent decision lets through, once the lookup has answered.
ConsentPermits(record) == record = "granted" \/ ConsentMode = "audit"

PassesConsent(w) ==
    LET n == job[w] IN
    /\ wpc[w] = "consent"
    /\ \/ \* check switched off, or not needed for this channel and class
          /\ ConsentMode = "off" \/ ~requiresConsent(n)
          /\ GoTo(w, AfterConsent(n))
          /\ UNCHANGED consentRecord
       \/ \* the latest record decides, and its id is stored on the row
          /\ ConsentMode # "off" /\ requiresConsent(n)
          /\ \E record \in ConsentRecords :
               /\ consentRecord' = IF record = "none" THEN consentRecord
                                   ELSE [consentRecord EXCEPT ![n] = record]
               /\ GoTo(w, IF ConsentPermits(record) THEN AfterConsent(n) ELSE "noConsent")
       \/ \* the lookup throws: treated as a failed attempt
          /\ ConsentMode # "off" /\ requiresConsent(n)
          /\ StartFailure(w)
          /\ UNCHANGED consentRecord
    /\ UNCHANGED <<status, attempts, content, externalId, dndResult, dlqEntry, broker, retryQueue,
                   poller, operatr, webhook, accepted, used>>

BlockNoConsent(w) ==
    /\ wpc[w] = "noConsent"
    /\ SetStatus(job[w], "NO_CONSENT")
    /\ GoTo(w, "ack")
    /\ UNCHANGED <<attempts, content, externalId, dndResult, consentRecord, dlqEntry, broker,
                   retryQueue, poller, operatr, webhook, accepted, used>>

\* DndService.check: critical events are all transactional, so transactional
\* messages are exempt and promotional ones need a registry that says no.
\* The tripwire in process() re-checks the registered case.
DndAllows(n, registry) ==
    \/ Classification[n] = "TRANSACTIONAL"
    \/ registry = "NOT_REGISTERED"

\* The registry is consulted, the answer persisted on the row, and decides.
CheckDnd(w) ==
    LET n == job[w] IN
    /\ wpc[w] = "dnd"
    /\ \E registry \in DndResults \ {"NOT_CHECKED"} :
         /\ dndResult' = [dndResult EXCEPT ![n] = registry]
         /\ \/ DndAllows(n, registry) /\ GoTo(w, "primary")
            \/ ~DndAllows(n, registry) /\ registry = "UNKNOWN" /\ StartFailure(w)
            \/ ~DndAllows(n, registry) /\ registry # "UNKNOWN" /\ GoTo(w, "dndBlock")
    /\ UNCHANGED <<status, attempts, content, externalId, consentRecord, dlqEntry, broker,
                   retryQueue, poller, operatr, webhook, accepted, used>>

BlockDnd(w) ==
    /\ wpc[w] = "dndBlock"
    /\ SetStatus(job[w], "DND")
    /\ GoTo(w, "ack")
    /\ UNCHANGED <<attempts, content, externalId, dndResult, consentRecord, dlqEntry, broker,
                   retryQueue, poller, operatr, webhook, accepted, used>>

\* Only SMS has a second provider (MSG91 or Termii, then Twilio).
HasFallback(n) == Channel[n] = "sms"

\* deliver(): the circuit breaker may refuse the call, which is a failure.
ProviderAccepts(w) ==
    /\ wpc[w] \in {"primary", "fallback"}
    /\ accepted' = [accepted EXCEPT ![job[w]] = @ + 1]
    /\ GoTo(w, "success")
    /\ UNCHANGED <<row, dlqEntry, broker, retryQueue, poller, operatr, webhook, used>>

AfterRejection(w) ==
    IF wpc[w] = "primary" /\ HasFallback(job[w]) THEN GoTo(w, "fallback") ELSE StartFailure(w)

ProviderRejects(w) ==
    /\ wpc[w] \in {"primary", "fallback"}
    /\ AfterRejection(w)
    /\ UNCHANGED <<row, dlqEntry, broker, retryQueue, poller, operatr, webhook, accepted, used>>

\* The provider takes the message but its reply is lost or times out, so
\* send() reports a failure.
ProviderReplyLost(w) ==
    /\ wpc[w] \in {"primary", "fallback"}
    /\ Spend("lostReply")
    /\ accepted' = [accepted EXCEPT ![job[w]] = @ + 1]
    /\ AfterRejection(w)
    /\ UNCHANGED <<row, dlqEntry, broker, retryQueue, poller, operatr, webhook>>

\* A send that no callback will confirm carries its own receipt: the in-app
\* store.  (Providers without an API key simulate one; production has keys.)
HasReceipt(n) == Channel[n] = "in_app"

HandleSuccess(w) ==
    LET n == job[w] IN
    /\ wpc[w] = "success"
    /\ SetStatus(n, "SENT")
    /\ externalId' = [externalId EXCEPT ![n] = TRUE]
    /\ attempts' = [attempts EXCEPT ![n] = @ + 1]
    /\ GoTo(w, IF HasReceipt(n) THEN "confirm" ELSE "ack")
    /\ UNCHANGED <<content, dndResult, consentRecord, dlqEntry, broker, retryQueue, poller,
                   operatr, webhook, accepted, used>>

ConfirmDelivery(w) ==
    /\ wpc[w] = "confirm"
    /\ SetStatus(job[w], "DELIVERED")
    /\ GoTo(w, "ack")
    /\ UNCHANGED <<attempts, content, externalId, dndResult, consentRecord, dlqEntry, broker,
                   retryQueue, poller, operatr, webhook, accepted, used>>

\* Plausible slip: the failure is recorded but the attempt is not counted.
HandleFailure_Uncounted(w) ==
    /\ wpc[w] = "failed"
    /\ SetStatus(job[w], "FAILED")
    /\ GoTo(w, "schedule")
    /\ UNCHANGED <<attempts, content, externalId, dndResult, consentRecord, dlqEntry, broker,
                   retryQueue, poller, operatr, webhook, accepted, used>>

HandleFailure(w) ==
    /\ wpc[w] = "failed"
    /\ SetStatus(job[w], "FAILED")
    /\ attempts' = [attempts EXCEPT ![job[w]] = att[w]]
    /\ GoTo(w, "schedule")
    /\ UNCHANGED <<content, externalId, dndResult, consentRecord, dlqEntry, broker, retryQueue,
                   poller, operatr, webhook, accepted, used>>

\* Plausible slip: one retry too many.
RetriesExhausted_OffByOne(n, attempt) == attempt > MaxRetries[n] + 1

RetriesExhausted(n, attempt) == attempt > MaxRetries[n]

ScheduleRetry(w) ==
    /\ wpc[w] = "schedule"
    /\ \/ /\ RetriesExhausted(job[w], att[w])
          /\ GoTo(w, "dlq")
          /\ UNCHANGED retryQueue
       \/ /\ ~RetriesExhausted(job[w], att[w])
          /\ retryQueue' = retryQueue \cup {job[w]}
          /\ GoTo(w, "ack")
    /\ UNCHANGED <<row, dlqEntry, broker, poller, operatr, webhook, accepted, used>>

\* Plausible slip: the status is set but no dead_letter_queue row written.
DeadLetterStatus_NoEntry(w) ==
    /\ wpc[w] = "dlq"
    /\ SetStatus(job[w], "DLQ")
    /\ GoTo(w, "ack")
    /\ UNCHANGED <<attempts, content, externalId, dndResult, consentRecord, dlqEntry, broker,
                   retryQueue, poller, operatr, webhook, accepted, used>>

\* deadLetter(): first the status, then the dead_letter_queue row.
DeadLetterStatus(w) ==
    /\ wpc[w] = "dlq"
    /\ SetStatus(job[w], "DLQ")
    /\ GoTo(w, "dlqRow")
    /\ UNCHANGED <<attempts, content, externalId, dndResult, consentRecord, dlqEntry, broker,
                   retryQueue, poller, operatr, webhook, accepted, used>>

\* Plausible slip: the update branch of the upsert reopens the entry.
UpsertEntry_Reopens(n) == dlqEntry' = [dlqEntry EXCEPT ![n] = "open"]

\* The upsert creates an open entry, or leaves the resolution of an existing
\* one untouched.
UpsertEntry(n) == dlqEntry' = [dlqEntry EXCEPT ![n] = IF @ = "none" THEN "open" ELSE @]

DeadLetterEntry(w) ==
    /\ wpc[w] = "dlqRow"
    /\ UpsertEntry(job[w])
    /\ GoTo(w, "ack")
    /\ UNCHANGED <<row, broker, retryQueue, poller, operatr, webhook, accepted, used>>

\* Settling a message on a channel that is gone settles nothing, since the
\* broker has queued the message again.  The client library's error may end the
\* process (external): restarted, it registers its consumers again.
Settle(w) ==
    IF attached[w] THEN UNCHANGED attached
    ELSE \E up \in BOOLEAN : attached' = [attached EXCEPT ![w] = up]

Ack(w) ==
    /\ wpc[w] = "ack"
    /\ Release(w)
    /\ Settle(w)
    /\ UNCHANGED <<row, dlqEntry, broker, retryQueue, poller, operatr, webhook, accepted, used>>

\* Any call inside process() throws (contact lookup, database, Redis): the
\* message is nacked without requeue and the broker dead-letters it.
WorkerThrows(w) ==
    /\ wpc[w] # "idle"
    /\ Spend("throw")
    /\ deadLettered' = [deadLettered EXCEPT ![job[w]] = IF attached[w] THEN @ + 1 ELSE @]
    /\ Release(w)
    /\ Settle(w)
    /\ UNCHANGED <<row, dlqEntry, queue, retryQueue, poller, operatr, webhook, accepted>>

\* The process dies and is restarted: its unacked message is redelivered and
\* its consumers are registered again.
WorkerCrashes(w) ==
    /\ wpc[w] # "idle" \/ ~attached[w]
    /\ Spend("crash")
    /\ IF wpc[w] # "idle" /\ attached[w] THEN Publish(job[w]) ELSE UNCHANGED queue
    /\ Release(w)
    /\ attached' = [attached EXCEPT ![w] = TRUE]
    /\ UNCHANGED <<row, dlqEntry, deadLettered, retryQueue, poller, operatr, webhook, accepted>>

\* The broker connection closes: the unacked message is redelivered while the
\* handler runs on.  connect() is called again, but neither setupTopology nor
\* consume is, so this replica receives nothing until it is restarted.
Disconnect(w) ==
    /\ attached[w]
    /\ Spend("disconnect")
    /\ IF wpc[w] # "idle" THEN Publish(job[w]) ELSE UNCHANGED queue
    /\ attached' = [attached EXCEPT ![w] = FALSE]
    /\ UNCHANGED <<row, dlqEntry, deadLettered, retryQueue, wpc, job, att, poller, operatr,
                   webhook, accepted>>

-----------------------------------------------------------------------------
(***************************************************************************)
(* RetryWorkerService: one poller per replica.  A retry time has passed    *)
(* whenever the model says so.  Ids are requeued one after the other; an   *)
(* error is logged and the id stays in Redis.                              *)
(***************************************************************************)
PollerGoTo(p, pc) ==
    /\ ppc' = [ppc EXCEPT ![p] = pc]
    /\ UNCHANGED <<due, cur>>

PollerNext(p) ==
    /\ ppc' = [ppc EXCEPT ![p] = "next"]
    /\ cur' = [cur EXCEPT ![p] = None]

\* zrangebyscore: a snapshot of ids that are due, not a claim on them.
Poll(p) ==
    /\ ppc[p] = "next"
    /\ due[p] = {}
    /\ \E ids \in SUBSET retryQueue :
         /\ ids # {}
         /\ due' = [due EXCEPT ![p] = ids]
    /\ UNCHANGED <<row, dlqEntry, broker, retryQueue, worker, ppc, cur, operatr, webhook,
                   accepted, used>>

\* Plausible slip: the id is claimed (removed) before it has been requeued.
MarkRetrying_ClaimFirst(p) ==
    /\ ppc[p] = "next"
    /\ \E n \in due[p] :
         /\ SetStatus(n, "RETRYING")
         /\ due' = [due EXCEPT ![p] = @ \ {n}]
         /\ cur' = [cur EXCEPT ![p] = n]
         /\ retryQueue' = retryQueue \ {n}
    /\ ppc' = [ppc EXCEPT ![p] = "publish"]
    /\ UNCHANGED <<attempts, content, externalId, dndResult, consentRecord, dlqEntry, broker,
                   worker, operatr, webhook, accepted, used>>

\* requeueNotification: RETRYING is written whatever the status now is.
MarkRetrying(p) ==
    /\ ppc[p] = "next"
    /\ \E n \in due[p] :
         /\ SetStatus(n, "RETRYING")
         /\ due' = [due EXCEPT ![p] = @ \ {n}]
         /\ cur' = [cur EXCEPT ![p] = n]
    /\ ppc' = [ppc EXCEPT ![p] = "publish"]
    /\ UNCHANGED <<attempts, content, externalId, dndResult, consentRecord, dlqEntry, broker,
                   retryQueue, worker, operatr, webhook, accepted, used>>

Republish(p) ==
    /\ ppc[p] = "publish"
    /\ content[cur[p]]
    /\ Publish(cur[p])
    /\ PollerGoTo(p, "zrem")
    /\ UNCHANGED <<row, dlqEntry, deadLettered, retryQueue, worker, operatr, webhook, accepted,
                   used>>

\* publishStored found no content: dead-letter, with create, not upsert.
NothingToResend(p) ==
    /\ ppc[p] = "publish"
    /\ ~content[cur[p]]
    /\ SetStatus(cur[p], "DLQ")
    /\ PollerGoTo(p, "create")
    /\ UNCHANGED <<attempts, content, externalId, dndResult, consentRecord, dlqEntry, broker,
                   retryQueue, worker, operatr, webhook, accepted, used>>

CreateEntry(p) ==
    LET n == cur[p] IN
    /\ ppc[p] = "create"
    /\ \/ /\ dlqEntry[n] = "none"
          /\ dlqEntry' = [dlqEntry EXCEPT ![n] = "open"]
          /\ PollerGoTo(p, "zrem")
       \/ \* unique constraint on notificationId: throws before zrem
          /\ dlqEntry[n] # "none"
          /\ PollerNext(p)
          /\ UNCHANGED <<dlqEntry, due>>
    /\ UNCHANGED <<row, broker, retryQueue, worker, operatr, webhook, accepted, used>>

\* Plausible slip: the id is left in the sorted set after it was requeued.
Zrem_Forgotten(p) ==
    /\ ppc[p] = "zrem"
    /\ PollerNext(p)
    /\ UNCHANGED <<row, dlqEntry, broker, retryQueue, due, worker, operatr, webhook, accepted,
                   used>>

Zrem(p) ==
    /\ ppc[p] = "zrem"
    /\ retryQueue' = retryQueue \ {cur[p]}
    /\ PollerNext(p)
    /\ UNCHANGED <<row, dlqEntry, broker, due, worker, operatr, webhook, accepted, used>>

\* A call throws (the id is skipped), or the process dies (the rest of the
\* snapshot is forgotten as well).
PollerFails(p) ==
    /\ \/ ppc[p] # "next" /\ Spend("throw") /\ UNCHANGED due
       \/ (ppc[p] # "next" \/ due[p] # {}) /\ Spend("crash") /\ due' = [due EXCEPT ![p] = {}]
    /\ PollerNext(p)
    /\ UNCHANGED <<row, dlqEntry, broker, retryQueue, worker, operatr, webhook, accepted>>

-----------------------------------------------------------------------------
(***************************************************************************)
(* NotificationsService.resolveDlqEntry, called by an operator.            *)
(***************************************************************************)
OperatorGoTo(o, pc) ==
    /\ opc' = [opc EXCEPT ![o] = pc]
    /\ UNCHANGED entry

OperatorDone(o) ==
    /\ opc' = [opc EXCEPT ![o] = "idle"]
    /\ entry' = [entry EXCEPT ![o] = None]

\* A resolved entry is refused with a conflict.
ResolveDlqEntry(o, n, action) ==
    /\ opc[o] = "idle"
    /\ dlqEntry[n] = "open"
    /\ Spend("operator")
    /\ opc' = [opc EXCEPT ![o] = IF action = "retry" THEN "retry" ELSE "resolveDiscard"]
    /\ entry' = [entry EXCEPT ![o] = n]
    /\ UNCHANGED <<row, dlqEntry, broker, retryQueue, worker, poller, webhook, accepted>>

OperatorMarksRetrying(o) ==
    /\ opc[o] = "retry"
    /\ SetStatus(entry[o], "RETRYING")
    /\ OperatorGoTo(o, "republish")
    /\ UNCHANGED <<attempts, content, externalId, dndResult, consentRecord, dlqEntry, broker,
                   retryQueue, worker, poller, webhook, accepted, used>>

OperatorRepublishes(o) ==
    /\ opc[o] = "republish"
    /\ content[entry[o]]
    /\ Publish(entry[o])
    /\ OperatorGoTo(o, "resolveRetry")
    /\ UNCHANGED <<row, dlqEntry, deadLettered, retryQueue, worker, poller, webhook, accepted,
                   used>>

\* Nothing to resend: the terminal state is restored, the entry stays open.
OperatorRestores(o) ==
    /\ opc[o] = "republish"
    /\ ~content[entry[o]]
    /\ SetStatus(entry[o], "DLQ")
    /\ OperatorDone(o)
    /\ UNCHANGED <<attempts, content, externalId, dndResult, consentRecord, dlqEntry, broker,
                   retryQueue, worker, poller, webhook, accepted, used>>

\* Updating an entry that has been deleted throws and changes nothing.
MarkResolved(o) ==
    /\ opc[o] \in {"resolveRetry", "resolveDiscard"}
    /\ dlqEntry' = [dlqEntry EXCEPT ![entry[o]] =
                      IF @ = "none" THEN "none"
                      ELSE IF opc[o] = "resolveRetry" THEN "retried" ELSE "discarded"]
    /\ OperatorDone(o)
    /\ UNCHANGED <<row, broker, retryQueue, worker, poller, webhook, accepted, used>>

OperatorFails(o) ==
    /\ opc[o] # "idle"
    /\ Spend("throw")
    /\ OperatorDone(o)
    /\ UNCHANGED <<row, dlqEntry, broker, retryQueue, worker, poller, webhook, accepted>>

-----------------------------------------------------------------------------
(***************************************************************************)
(* StateService.transition, called for a provider receipt or a user read:  *)
(* the status is read and checked, and written in a later transaction.     *)
(***************************************************************************)

\* What each provider's callback maps to; a status its table does not know is
\* FAILED for an SMS, DELIVERED for a push and SENT for WhatsApp.
msg91Dlr == {"DELIVERED", "FAILED"}
twilioDlr == {"DELIVERED", "FAILED", "SENT"}
fcmDlr == {"DELIVERED", "FAILED", "READ"}
whatsappDlr == {"DELIVERED", "FAILED", "SENT", "READ"}

ReceiptStatuses(channel) ==
    CASE channel = "sms"      -> msg91Dlr \cup twilioDlr
      [] channel = "push"     -> fcmDlr
      [] channel = "whatsapp" -> whatsappDlr
      [] OTHER                -> {}

\* A receipt finds its notification by externalId; one that finds none, or that
\* asks for an invalid transition, is logged and dropped.
processDeliveryReceipt(n, to) == externalId[n] /\ to \in ReceiptStatuses(Channel[n])

\* A user reads any notification of theirs.
markAsRead(to) == to = "READ"

TransitionRequested(n, to) == processDeliveryReceipt(n, to) \/ markAsRead(to)

TransitionCheck(h, n, to) ==
    /\ hpc[h] = "idle"
    /\ TransitionRequested(n, to)
    /\ isValidTransition(status[n], to)
    /\ Spend("receipt")
    /\ hpc' = [hpc EXCEPT ![h] = "write"]
    /\ subject' = [subject EXCEPT ![h] = n]
    /\ target' = [target EXCEPT ![h] = to]
    /\ UNCHANGED <<row, dlqEntry, broker, retryQueue, worker, poller, operatr, accepted>>

TransitionWrite(h) ==
    /\ hpc[h] = "write"
    /\ SetStatus(subject[h], target[h])
    /\ hpc' = [hpc EXCEPT ![h] = "idle"]
    /\ subject' = [subject EXCEPT ![h] = None]
    /\ target' = [target EXCEPT ![h] = "READ"]
    /\ UNCHANGED <<attempts, content, externalId, dndResult, consentRecord, dlqEntry, broker,
                   retryQueue, worker, poller, operatr, accepted, used>>

-----------------------------------------------------------------------------
(***************************************************************************)
(* Erasure of a user's data, the 90-day retention scrub, and the clean-up  *)
(* of dead letters resolved long ago.                                      *)
(***************************************************************************)
ScrubContent ==
    /\ Spend("upkeep")
    /\ \E scrubbed \in SUBSET Notifications :
         content' = [n \in Notifications |-> content[n] /\ n \notin scrubbed]
    /\ UNCHANGED <<status, attempts, externalId, dndResult, consentRecord, dlqEntry, broker,
                   retryQueue, worker, poller, operatr, webhook, accepted>>

CleanupResolvedEntries ==
    /\ Spend("upkeep")
    /\ \E old \in SUBSET {n \in Notifications : dlqEntry[n] \in {"retried", "discarded"}} :
         dlqEntry' = [n \in Notifications |-> IF n \in old THEN "none" ELSE dlqEntry[n]]
    /\ UNCHANGED <<row, broker, retryQueue, worker, poller, operatr, webhook, accepted>>

-----------------------------------------------------------------------------
Process(w) ==
    \/ \E n \in Notifications : SkipHandled(w, n) \/ Receive(w, n)
    \/ Requeue(w) \/ PassesConsent(w) \/ BlockNoConsent(w) \/ CheckDnd(w) \/ BlockDnd(w)
    \/ ProviderAccepts(w) \/ ProviderRejects(w)
    \/ HandleSuccess(w) \/ ConfirmDelivery(w)
    \/ HandleFailure(w) \/ ScheduleRetry(w) \/ DeadLetterStatus(w) \/ DeadLetterEntry(w)
    \/ Ack(w)

WorkerFault(w) ==
    ProviderReplyLost(w) \/ WorkerThrows(w) \/ WorkerCrashes(w) \/ Disconnect(w)

ProcessDueRetries(p) ==
    Poll(p) \/ MarkRetrying(p) \/ Republish(p) \/ NothingToResend(p) \/ CreateEntry(p) \/ Zrem(p)

Resolve(o) ==
    \/ OperatorMarksRetrying(o) \/ OperatorRepublishes(o) \/ OperatorRestores(o)
    \/ MarkResolved(o)

Next ==
    \/ \E w \in Workers : Process(w) \/ WorkerFault(w)
    \/ \E p \in Pollers : ProcessDueRetries(p) \/ PollerFails(p)
    \/ \E o \in Operators :
         \/ \E n \in Notifications, action \in {"retry", "discard"} : ResolveDlqEntry(o, n, action)
         \/ Resolve(o) \/ OperatorFails(o)
    \/ \E h \in Webhooks :
         \/ \E n \in Notifications, to \in NotificationStatus : TransitionCheck(h, n, to)
         \/ TransitionWrite(h)
    \/ ScrubContent
    \/ CleanupResolvedEntries

Spec == Init /\ [][Next]_vars

\* Consumers, pollers and a request once begun keep running; nothing forces
\* a fault, a receipt, an operator or a user to act.
Fairness ==
    /\ \A w \in Workers : WF_vars(Process(w))
    /\ \A p \in Pollers : WF_vars(ProcessDueRetries(p))
    /\ \A o \in Operators : WF_vars(Resolve(o))

FairSpec == Spec /\ Fairness

-----------------------------------------------------------------------------
(***************************************************************************)
(* Properties.                                                             *)
(***************************************************************************)

\* process() promises "no double-send on failover or broker redelivery": a
\* notification is handed to a provider once, and once more for each reply the
\* system never saw.  It holds on one replica that does not fail, and not with
\* two, whose pollers requeue the same id.
NoDoubleSend == \A n \in Notifications : accepted[n] <= 1 + used["lostReply"]

\* The audit's zero: an SMS in a state that means "a provider was called"
\* carries a DND check, whatever crashes, retries, receipts and duplicates.
SmsSentChecked ==
    \A n \in Notifications :
        Channel[n] = "sms" /\ status[n] \in SentStates => dndResult[n] # "NOT_CHECKED"

\* The evidence stored on a sent row is the evidence that allowed the send: a
\* promotional SMS shows a number that was not registered, a message that
\* needs consent shows a granted record.
EvidenceMatchesSend ==
    \A n \in Notifications : status[n] \in SentStates =>
        /\ Channel[n] = "sms" /\ Classification[n] = "PROMOTIONAL"
              => dndResult[n] = "NOT_REGISTERED"
        /\ ConsentMode = "enforce" /\ requiresConsent(n) => consentRecord[n] = "granted"

Held(n) ==
    \/ \E w \in Workers : job[w] = n
    \/ \E p \in Pollers : cur[p] = n

\* A notification shown as QUEUED or RETRYING is really on its way: on a
\* queue (the broker's dead letters included), in the retry set, in a
\* worker's or poller's hands, or still an open dead letter.  With a single
\* poller and one operator request it survives crashes, errors and redelivery,
\* as long as no connection breaks under a worker (the redelivered copy can
\* then end in the dead letters while the first one writes QUEUED).
InFlightAccounted ==
    \A n \in Notifications : status[n] \in {"QUEUED", "RETRYING"} /\ used["disconnect"] = 0 =>
        \/ queue[n] + deadLettered[n] > 0
        \/ n \in retryQueue
        \/ Held(n)
        \/ dlqEntry[n] = "open"

\* The retry policy bounds what one notification costs: maxRetries retries
\* after the first attempt, plus one attempt per operator retry.
RetryBudget ==
    \A n \in Notifications : attempts[n] <= MaxRetries[n] + 1 + used["operator"]

\* A notification whose dead-lettering has finished is in the dead letter
\* table.
DeadLetterHasEntry ==
    \A n \in Notifications : status[n] = "DLQ" /\ ~Held(n) => dlqEntry[n] # "none"

\* "An operator's manual resolution must never be silently reopened by a
\* late-arriving duplicate failure."
ResolutionFinal ==
    [][\A n \in Notifications :
          dlqEntry[n] \in {"retried", "discarded"} => dlqEntry'[n] # "open"]_dlqEntry

\* Retries end: from some moment on nothing waits for a worker or a retry.
Drains ==
    <>[](retryQueue = {} /\ \A n \in Notifications : queue[n] = 0 /\ ~Held(n))
=============================================================================
