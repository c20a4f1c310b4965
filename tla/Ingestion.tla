----------------------------- MODULE Ingestion -----------------------------
(***************************************************************************)
(* The way in: EventsService.ingest claims an event's idempotency key and  *)
(* fingerprint in Redis and publishes it to Kafka; the ingestion consumer  *)
(* reads it back and hands it to NotificationEngineService.process, which  *)
(* deduplicates again, creates the row and dispatches it.                  *)
(*                                                                         *)
(* A request stands for one HTTP call; the id it hands out is the request  *)
(* itself (a fresh uuid).  A caller that retries is another request with   *)
(* the same key.  One partition is modelled: records are keyed by user,    *)
(* and users share no key, fingerprint or row.  Each Redis or PostgreSQL   *)
(* command is a step.  Idempotency keys live 24 hours, longer than any     *)
(* behaviour here; a fingerprint holds its 5-minute bucket, so it expires  *)
(* only after nobody looks it up.  The payload check is in Qualification,  *)
(* and the rest of process, from the routing decision on, in Engine.       *)
(***************************************************************************)
EXTENDS Integers, Sequences, FiniteSets, Functions

CONSTANTS
    Requests,    \* HTTP calls of POST /events
    Consumers,   \* replicas in the consumer group of the partition
    KeyOf,       \* the caller's idempotencyKey, or None
    EntityOf,    \* eventType and dedupSourceEntity of the event
    MaxBucket,   \* bound on the 5-minute buckets that go by
    Budget,      \* bound on each kind of fault
    MaxFaults,   \* bound on all of them together, not counting parkFail, which
                 \* only ever follows another fault
    None

Faults == {"refused", "lostAck", "die", "crash", "rebalance", "throw", "parkFail"}

Keys == {KeyOf[r] : r \in Requests} \ {None}
Entities == {EntityOf[r] : r \in Requests}
Ids == Requests \cup {None}

ASSUME IngestionAssumption ==
    /\ None \notin Requests /\ {"unavailable", "died"} \cap Ids = {}
    /\ Consumers # {}
    /\ MaxBucket \in Nat
    /\ Budget \in [Faults -> Nat] /\ MaxFaults \in Nat

\* The Redis keys an event is deduplicated on, in the order they are claimed:
\* idempotency:{key} if the caller sent one, then dedup:{fingerprint}, the hash
\* of type, entity and 5-minute bucket.
generateEventFingerprint(r, b) == <<"dedup", EntityOf[r], b>>
Wanted(r, b) ==
    IF KeyOf[r] = None THEN <<generateEventFingerprint(r, b)>>
    ELSE <<<<"idempotency", KeyOf[r]>>, generateEventFingerprint(r, b)>>
Slots == {<<"idempotency", k>> : k \in Keys} \cup {<<"dedup", e, b>> : e \in Entities, b \in 0..MaxBucket}

VARIABLES
    redis,       \* the id each slot holds
    bucket,      \* the current 5-minute bucket
    \* EventsService.ingest: program counter, place in the claim or release
    \* loop, bucket its fingerprint was computed in, holder read, answer given
    hpc, hidx, hbucket, existing, answer,
    \* Kafka: the partition, the group's committed offset, the owner of the
    \* partition and its position
    log, committed, owner, position,
    \* consumer: program counter, offset in hand, place in the check loop
    cpc, at, cidx,
    row, dispatched,   \* notification row, and how often it was dispatched
    parked,            \* messages on the DLQ topic
    handled,           \* offsets whose handler has returned (history)
    used

http   == <<hpc, hidx, hbucket, existing, answer>>
kafka  == <<log, committed, owner, position>>
thread == <<cpc, at, cidx>>
db     == <<row, dispatched>>
vars   == <<redis, bucket, http, kafka, thread, db, parked, handled, used>>

HttpPc == {"idle", "claim", "holder", "untake", "publish", "release", "delete", "done"}
EnginePc == {"check", "find", "create", "register", "enrich", "write", "settle"}
ConsumerPc == EnginePc \cup {"idle", "park", "commit"}
Answers == Ids \cup {"unavailable", "died"}

\* Everything has the type the code gives it.
TypeOK ==
    /\ redis \in [Slots -> Ids] /\ bucket \in 0..MaxBucket
    /\ hpc \in [Requests -> HttpPc] /\ hidx \in [Requests -> 1..2]
    /\ hbucket \in [Requests -> 0..MaxBucket] /\ existing \in [Requests -> Ids]
    /\ answer \in [Requests -> Answers]
    /\ log \in Seq(Requests) /\ committed \in 0..Len(log)
    /\ owner \in Consumers /\ position \in 0..Len(log)
    /\ cpc \in [Consumers -> ConsumerPc] /\ at \in [Consumers -> 0..Len(log)] /\ cidx \in [Consumers -> 1..2]
    /\ row \in [Requests -> {"none", "CREATED", "ENRICHED", "settled"}] /\ dispatched \in [Requests -> Nat]
    /\ parked \subseteq Requests /\ handled \subseteq 1..Len(log) /\ used \in [Faults -> Nat]

Init ==
    /\ redis = [s \in Slots |-> None] /\ bucket = 0
    /\ hpc = [r \in Requests |-> "idle"] /\ hidx = [r \in Requests |-> 1]
    /\ hbucket = [r \in Requests |-> 0] /\ existing = [r \in Requests |-> None]
    /\ answer = [r \in Requests |-> None]
    /\ log = <<>> /\ committed = 0
    /\ owner = (CHOOSE c \in Consumers : TRUE) /\ position = 0
    /\ cpc = [c \in Consumers |-> "idle"] /\ at = [c \in Consumers |-> 0] /\ cidx = [c \in Consumers |-> 1]
    /\ row = [r \in Requests |-> "none"] /\ dispatched = [r \in Requests |-> 0]
    /\ parked = {} /\ handled = {} /\ used = [f \in Faults |-> 0]

Spend(f) ==
    /\ used[f] < Budget[f]
    /\ f = "parkFail" \/ SumFunction(used) < MaxFaults
    /\ used' = [used EXCEPT ![f] = @ + 1]

-----------------------------------------------------------------------------
(***************************************************************************)
(* POST /events: EventsService.ingest and DeduplicationService.            *)
(***************************************************************************)

Http(r, pc) == hpc' = [hpc EXCEPT ![r] = pc]
Answer(r, a) == Http(r, "done") /\ answer' = [answer EXCEPT ![r] = a]

\* A malformed event or an unknown user is turned away before this, and
\* changes nothing.
Arrive(r) ==
    /\ hpc[r] = "idle"
    /\ Http(r, "claim")
    /\ hbucket' = [hbucket EXCEPT ![r] = bucket]
    /\ UNCHANGED <<redis, bucket, hidx, existing, answer, kafka, thread, db, parked, handled, used>>

Slot(r) == Wanted(r, hbucket[r])[hidx[r]]
LastSlot(r) == hidx[r] = Len(Wanted(r, hbucket[r]))

\* SET key id EX ttl NX.  The user's channels are resolved between the last
\* claim and the publish; that changes nothing here (see HandlerDies).
claim(r) ==
    /\ hpc[r] = "claim"
    /\ IF redis[Slot(r)] # None
       THEN Http(r, "holder") /\ UNCHANGED <<redis, hidx>>
       ELSE /\ redis' = [redis EXCEPT ![Slot(r)] = r]
            /\ IF LastSlot(r) THEN Http(r, "publish") /\ UNCHANGED hidx
               ELSE hidx' = [hidx EXCEPT ![r] = @ + 1] /\ UNCHANGED hpc
    /\ UNCHANGED <<bucket, hbucket, existing, answer, kafka, thread, db, parked, handled, used>>

\* A duplicate is answered with the holder's id; if the holder let go in the
\* meantime there is no id to answer with, and ingest goes on to publish.
Conclude(r, holder) ==
    IF holder = None THEN Http(r, "publish") /\ UNCHANGED answer ELSE Answer(r, holder)

ReadHolder(r) ==
    /\ hpc[r] = "holder"
    /\ existing' = [existing EXCEPT ![r] = redis[Slot(r)]]
    /\ IF hidx[r] > 1 THEN Http(r, "untake") /\ UNCHANGED answer
       ELSE Conclude(r, redis[Slot(r)])
    /\ UNCHANGED <<redis, bucket, hidx, hbucket, kafka, thread, db, parked, handled, used>>

\* Plausible slip: the key is noted as taken before the NX has answered.
Untake_Held(r) ==
    /\ hpc[r] = "untake"
    /\ LET taken == {Wanted(r, hbucket[r])[i] : i \in 1..hidx[r]}
       IN redis' = [s \in Slots |-> IF s \in taken THEN None ELSE redis[s]]
    /\ Conclude(r, existing[r])
    /\ UNCHANGED <<bucket, hidx, hbucket, existing, kafka, thread, db, parked, handled, used>>

\* DEL of what this call took, whoever holds it by now.
Untake(r) ==
    /\ hpc[r] = "untake"
    /\ LET taken == {Wanted(r, hbucket[r])[i] : i \in 1..(hidx[r] - 1)}
       IN redis' = [s \in Slots |-> IF s \in taken THEN None ELSE redis[s]]
    /\ Conclude(r, existing[r])
    /\ UNCHANGED <<bucket, hidx, hbucket, existing, kafka, thread, db, parked, handled, used>>

\* Kafka acknowledged the record (acks=all): 202 with the caller's own id.
Publish(r) ==
    /\ hpc[r] = "publish"
    /\ log' = Append(log, r)
    /\ Answer(r, r)
    /\ UNCHANGED <<redis, bucket, hidx, hbucket, existing, committed, owner, position, thread, db,
                   parked, handled, used>>

\* producer.send threw: the record was not written, or only its ack was lost.
\* release recomputes the fingerprint, in the bucket of that moment.
PublishFails(r) ==
    /\ hpc[r] = "publish"
    /\ \/ Spend("refused") /\ UNCHANGED log
       \/ Spend("lostAck") /\ log' = Append(log, r)
    /\ Http(r, "release")
    /\ hidx' = [hidx EXCEPT ![r] = 1]
    /\ hbucket' = [hbucket EXCEPT ![r] = bucket]
    /\ UNCHANGED <<redis, bucket, existing, answer, committed, owner, position, thread, db, parked, handled>>

NextRelease(r) ==
    IF LastSlot(r) THEN Answer(r, "unavailable") /\ UNCHANGED hidx
    ELSE Http(r, "release") /\ hidx' = [hidx EXCEPT ![r] = @ + 1] /\ UNCHANGED answer

\* Plausible slip: release gives the idempotency key back and stops there.
release_KeyOnly(r) ==
    /\ hpc[r] = "release"
    /\ IF redis[Slot(r)] = r /\ ~LastSlot(r) THEN Http(r, "delete") /\ UNCHANGED <<hidx, answer>>
       ELSE NextRelease(r)
    /\ UNCHANGED <<redis, bucket, hbucket, existing, kafka, thread, db, parked, handled, used>>

\* release: GET each key and, if it is still ours, DEL it; then the 503.
release(r) ==
    /\ hpc[r] = "release"
    /\ IF redis[Slot(r)] = r THEN Http(r, "delete") /\ UNCHANGED <<hidx, answer>>
       ELSE NextRelease(r)
    /\ UNCHANGED <<redis, bucket, hbucket, existing, kafka, thread, db, parked, handled, used>>

ReleaseDelete(r) ==
    /\ hpc[r] = "delete"
    /\ redis' = [redis EXCEPT ![Slot(r)] = None]
    /\ NextRelease(r)
    /\ UNCHANGED <<bucket, hbucket, existing, kafka, thread, db, parked, handled, used>>

\* The call ends in the middle: the process dies, or a Redis command or the
\* preference lookup throws.  Nothing undoes the claim.
HandlerDies(r) ==
    /\ hpc[r] \notin {"idle", "done"}
    /\ Spend("die")
    /\ Answer(r, "died")
    /\ UNCHANGED <<redis, bucket, hidx, hbucket, existing, kafka, thread, db, parked, handled>>

NextBucket ==
    /\ bucket < MaxBucket
    /\ bucket' = bucket + 1
    /\ UNCHANGED <<redis, http, kafka, thread, db, parked, handled, used>>

-----------------------------------------------------------------------------
(***************************************************************************)
(* The consumer: KafkaService.subscribe, IngestionConsumerService.handle   *)
(* and the entry of NotificationEngineService.process.                     *)
(***************************************************************************)

Pc(c, pc) == cpc' = [cpc EXCEPT ![c] = pc] /\ UNCHANGED <<at, cidx>>
Message(c) == log[at[c]]

\* The client library fetches the next message for the partition's owner.
Fetch(c) ==
    /\ cpc[c] = "idle" /\ owner = c /\ position < Len(log)
    /\ position' = position + 1
    /\ at' = [at EXCEPT ![c] = position + 1]
    /\ cidx' = [cidx EXCEPT ![c] = 1]
    /\ cpc' = [cpc EXCEPT ![c] = "check"]
    /\ UNCHANGED <<redis, bucket, http, log, committed, owner, db, parked, handled, used>>

\* GET each slot in turn: another event's id there means duplicate, its own
\* id a redelivery.
check(c) ==
    /\ cpc[c] = "check"
    /\ LET n == Message(c)
           w == Wanted(n, bucket)
           holder == redis[w[cidx[c]]]
       IN IF holder \notin {None, n} THEN Pc(c, "commit")
          ELSE IF holder = n \/ cidx[c] = Len(w) THEN Pc(c, "find")
          ELSE cidx' = [cidx EXCEPT ![c] = @ + 1] /\ UNCHANGED <<cpc, at>>
    /\ UNCHANGED <<redis, bucket, http, kafka, db, parked, handled, used>>

\* A row past CREATED is "already processed".  Users are never deleted, so the
\* user found at the door is still there.
FindRow(c) ==
    /\ cpc[c] = "find"
    /\ LET s == row[Message(c)]
       IN Pc(c, CASE s = "none" -> "create" [] s = "CREATED" -> "enrich" [] OTHER -> "commit")
    /\ UNCHANGED <<redis, bucket, http, kafka, db, parked, handled, used>>

\* The primary key refuses a second row with the same id.
CreateRow(c) ==
    /\ cpc[c] = "create"
    /\ IF row[Message(c)] = "none"
       THEN row' = [row EXCEPT ![Message(c)] = "CREATED"] /\ Pc(c, "register")
       ELSE UNCHANGED row /\ Pc(c, "park")
    /\ UNCHANGED <<redis, bucket, http, kafka, dispatched, parked, handled, used>>

\* The SETs are issued together on one connection.  The third one, of the
\* computed key, is never read.
register(c) ==
    /\ cpc[c] = "register"
    /\ LET w == Wanted(Message(c), bucket)
           mine == {w[i] : i \in 1..Len(w)}
       IN redis' = [s \in Slots |-> IF s \in mine THEN Message(c) ELSE redis[s]]
    /\ Pc(c, "enrich")
    /\ UNCHANGED <<bucket, http, kafka, db, parked, handled, used>>

\* StateService.transition to ENRICHED: the check and the write are two calls.
EnrichCheck(c) ==
    /\ cpc[c] = "enrich"
    /\ Pc(c, IF row[Message(c)] = "CREATED" THEN "write" ELSE "park")
    /\ UNCHANGED <<redis, bucket, http, kafka, db, parked, handled, used>>

EnrichWrite(c) ==
    /\ cpc[c] = "write"
    /\ row' = [row EXCEPT ![Message(c)] = "ENRICHED"]
    /\ Pc(c, "settle")
    /\ UNCHANGED <<redis, bucket, http, kafka, dispatched, parked, handled, used>>

\* The rest of process: the notification is dispatched, held or suppressed.
Settle(c) ==
    /\ cpc[c] = "settle"
    /\ row' = [row EXCEPT ![Message(c)] = "settled"]
    /\ dispatched' = [dispatched EXCEPT ![Message(c)] = @ + 1]
    /\ Pc(c, "commit")
    /\ UNCHANGED <<redis, bucket, http, kafka, parked, handled, used>>

EngineThrows(c) ==
    /\ cpc[c] \in EnginePc
    /\ Spend("throw")
    /\ Pc(c, "park")
    /\ UNCHANGED <<redis, bucket, http, kafka, db, parked, handled>>

\* Plausible slip: the error is rethrown after parking, so nothing is committed.
Park_Rethrown(c) ==
    /\ cpc[c] = "park"
    /\ parked' = parked \cup {Message(c)}
    /\ Pc(c, "idle")
    /\ UNCHANGED <<redis, bucket, http, kafka, db, handled, used>>

\* handle's catch: the message goes to the DLQ topic and counts as handled.
Park(c) ==
    /\ cpc[c] = "park"
    /\ parked' = parked \cup {Message(c)}
    /\ Pc(c, "commit")
    /\ UNCHANGED <<redis, bucket, http, kafka, db, handled, used>>

\* That publish fails too.  eachMessage swallows the error without a commit,
\* and the client library goes on with the next message.
ParkFails(c) ==
    /\ cpc[c] = "park"
    /\ Spend("parkFail")
    /\ Pc(c, "idle")
    /\ UNCHANGED <<redis, bucket, http, kafka, db, parked, handled>>

\* Plausible slip: the offset is advanced twice.
Commit_PastEnd(c) ==
    /\ cpc[c] = "commit"
    /\ committed' = IF owner = c THEN at[c] + 1 ELSE committed
    /\ Pc(c, "idle")
    /\ handled' = handled \cup {at[c], at[c] + 1}
    /\ UNCHANGED <<redis, bucket, http, log, owner, position, db, parked, used>>

\* Plausible slip: everything fetched so far is committed.
Commit_LogEnd(c) ==
    /\ cpc[c] = "commit"
    /\ committed' = IF owner = c THEN Len(log) ELSE committed
    /\ Pc(c, "idle")
    /\ handled' = handled \cup {at[c]}
    /\ UNCHANGED <<redis, bucket, http, log, owner, position, db, parked, used>>

\* Heartbeat, then commitOffsets(offset + 1).  A consumer that lost the
\* partition fails the heartbeat and commits nothing.
Commit(c) ==
    /\ cpc[c] = "commit"
    /\ committed' = IF owner = c THEN at[c] ELSE committed
    /\ Pc(c, "idle")
    /\ handled' = handled \cup {at[c]}
    /\ UNCHANGED <<redis, bucket, http, log, owner, position, db, parked, used>>

\* The process dies.  Whoever gets its partition starts at the committed offset;
\* a replica that had lost the partition loses no more than its handler.
ConsumerCrashes(c, d) ==
    /\ cpc[d] = "idle" \/ d = c
    /\ Spend("crash")
    /\ cpc' = [cpc EXCEPT ![c] = "idle"]
    /\ IF owner = c THEN owner' = d /\ position' = committed
       ELSE d = c /\ cpc[c] # "idle" /\ UNCHANGED <<owner, position>>
    /\ UNCHANGED <<redis, bucket, http, log, committed, at, cidx, db, parked, handled>>

\* A slow handler outlives its session: the partition moves on while it runs.
Rebalance(d) ==
    /\ owner # d /\ cpc[d] = "idle"
    /\ Spend("rebalance")
    /\ owner' = d /\ position' = committed
    /\ UNCHANGED <<redis, bucket, http, log, committed, thread, db, parked, handled>>

-----------------------------------------------------------------------------
HttpStep(r) ==
    Arrive(r) \/ claim(r) \/ ReadHolder(r) \/ Untake(r) \/ Publish(r) \/ PublishFails(r)
       \/ release(r) \/ ReleaseDelete(r) \/ HandlerDies(r)

ConsumerStep(c) ==
    Fetch(c) \/ check(c) \/ FindRow(c) \/ CreateRow(c) \/ register(c) \/ EnrichCheck(c)
       \/ EnrichWrite(c) \/ Settle(c) \/ Park(c) \/ Commit(c)

Next ==
    \/ \E r \in Requests : HttpStep(r)
    \/ NextBucket
    \/ \E c \in Consumers : ConsumerStep(c) \/ EngineThrows(c) \/ ParkFails(c)
    \/ \E c, d \in Consumers : ConsumerCrashes(c, d)
    \/ \E d \in Consumers : Rebalance(d)

Spec == Init /\ [][Next]_vars

\* Consumers are pushed messages for as long as the process lives.
FairSpec == Spec /\ \A c \in Consumers : WF_vars(ConsumerStep(c))

-----------------------------------------------------------------------------
Published == {log[i] : i \in 1..Len(log)}

\* getConsumerLag: the log end less the committed offset.
getConsumerLag == Len(log) - committed

Sent(S) == Cardinality({r \in S : dispatched[r] > 0})
WithKey(k) == {r \in Requests : KeyOf[r] = k}
OfEntity(e) == {r \in Requests : EntityOf[r] = e}

\* Published without a claim: whoever held its idempotency key backed out
\* between the NX and the GET, so ingest had no id to answer with and went on.
Unclaimed == {r \in Published : hidx[r] < Len(Wanted(r, 0))}

\* As long as every publish is acknowledged and no handler is overtaken by a
\* rebalance, requests for one event lead to one notification, however claims,
\* crashes, errors and redeliveries interleave: one per idempotency key, and one
\* per fingerprint in each 5-minute bucket, and beyond that no more than went
\* out unclaimed.  A publish that fails gives its claim back although the event
\* may be on the bus.
OneNotification ==
    used["lostAck"] + used["refused"] + used["rebalance"] = 0 =>
        /\ \A r \in Requests : dispatched[r] <= 1
        /\ \A k \in Keys : Sent(WithKey(k)) <= 1 + Cardinality(Unclaimed \cap WithKey(k))
        /\ \A e \in Entities : Sent(OfEntity(e)) <= 1 + bucket + Cardinality(Unclaimed \cap OfEntity(e))

\* "Un-claim, otherwise the caller's retry would be answered as a duplicate of
\* an event that never made it onto the bus": an event refused with 503 holds no
\* key a later request could be compared with, unless it is on the bus after all.
RefusedHoldsNothing ==
    \A r \in Requests : answer[r] = "unavailable" /\ r \notin Published =>
        LET w == Wanted(r, bucket) IN \A i \in 1..Len(w) : redis[w[i]] # r

\* A caller uses an idempotency key for one event, the way a retry does.
KeyNamesEvent ==
    \A r, x \in Requests : KeyOf[r] = KeyOf[x] /\ KeyOf[r] # None => EntityOf[r] = EntityOf[x]

Quiet ==
    /\ \A r \in Requests : hpc[r] \in {"idle", "done"}
    /\ \A c \in Consumers : cpc[c] = "idle"
    /\ getConsumerLag = 0

\* What a 202 promises: once the system has nothing more to do, the event was
\* dispatched or parked on the DLQ topic, under this id or that of a duplicate.
\* The exceptions are events one of whose callers was told of a failure, what
\* SkippedOnlyUnparked passes over, and rows a crash stranded: in ENRICHED, where
\* redelivery is taken for "already processed", or in CREATED, where it can be
\* dropped as the duplicate of a request that took the key in the meantime and
\* backs out again, in favour of this very event's fingerprint.
AcceptedIsHandled ==
    Quiet /\ KeyNamesEvent => \A r \in Requests : answer[r] \in Requests =>
        \E x \in OfEntity(EntityOf[r]) :
            \/ row[x] = "settled" \/ x \in parked
            \/ answer[x] \in {"unavailable", "died"}
            \/ used["crash"] > 0 /\ row[x] \in {"CREATED", "ENRICHED"}
            \/ used["parkFail"] > 0 /\ x \in Published

\* The answers to callers are true, the refusals and the acceptances, whatever
\* fails behind them: a 503 holds nothing, a 202 is handled.
AnswersHold == RefusedHoldsNothing /\ AcceptedIsHandled

\* "Do NOT commit - message will be re-delivered": the committed offset lies
\* beyond no message whose handler has not returned.
AtLeastOnce == (1..committed) \subseteq handled

\* The same, as far as it goes: only a message that could not even be parked is
\* passed over.
SkippedOnlyUnparked ==
    Cardinality((1..committed) \ handled) <= used["parkFail"]

\* Everything published is consumed: the consumer lag returns to zero for good,
\* unless a last message could neither be handled nor parked.
Consumed == <>[](getConsumerLag <= used["parkFail"])
=============================================================================
