------------------------------- MODULE Engine -------------------------------
(***************************************************************************)
(* The notifications of one user between CREATED and QUEUED:               *)
(* NotificationEngineService.process from the routing decision on, the     *)
(* notifications it holds (quiet hours, send-time optimisation, digests,   *)
(* caps), ScheduledReleaseService, which resumes them, and                 *)
(* DigestFlushService, which folds them into one digest.                   *)
(*                                                                         *)
(* What the routing decides is chosen freely here and computed in          *)
(* Qualification.  Time is the user's night, which ends once: members of   *)
(* the release set and digest buckets held for the morning are due then,   *)
(* the others at any moment.  Each PostgreSQL, Redis or RabbitMQ write is  *)
(* a step.                                                                 *)
(***************************************************************************)
EXTENDS Naturals, Sequences, FiniteSets, NotificationStates

CONSTANTS
    Notifications,      \* events the consumer has turned into CREATED rows
    Replicas,           \* each runs one release poller and one digest flusher
    Decisions,          \* what the routing may decide
    ChannelCount,       \* channels an event, and a digest, fans out to
    DigestThreshold,    \* DIGEST_THRESHOLD: more than this many make a digest
    CappedMinItems,     \* DIGEST_MIN_ITEMS.capped; 1 for the other sources
    MaxDigests,         \* bound on digests created
    Kinds,              \* the kinds of fault that may happen, each once
    MaxFaults,          \* bound on faults altogether
    None

Sources == {"hourly", "daily", "quiet", "capped"}
AllDecisions == {"hourly", "daily", "quiet", "capped", "noTemplate", "sto", "now"}
Faults == {"releaseThrow", "sendThrow", "flushThrow", "engineThrow", "queueFail", "crash"}

DIGEST_MIN_ITEMS(source) == IF source = "capped" THEN CappedMinItems ELSE 1

Digests == 1..MaxDigests
Rows == Notifications \cup Digests
Channels == 1..ChannelCount

Releaser(r) == <<"release", r>>
Flusher(r) == <<"flush", r>>
Actors == Notifications \cup {Releaser(r) : r \in Replicas} \cup {Flusher(r) : r \in Replicas}

ASSUME EngineAssumption ==
    /\ IsFiniteSet(Notifications) /\ Notifications \cap Digests = {}
    /\ \A r \in Replicas : Releaser(r) \notin Notifications /\ Flusher(r) \notin Notifications
    /\ None \notin Notifications \cup Digests /\ Replicas # {}
    /\ Decisions \subseteq AllDecisions
    /\ ChannelCount \in Nat \ {0} /\ DigestThreshold \in Nat /\ CappedMinItems \in Nat \ {0}
    /\ MaxDigests \in Nat
    /\ Kinds \subseteq Faults /\ MaxFaults \in Nat

VARIABLES
    \* rows: status, messages published per channel, channels dead-lettered;
    \* the digests' rows appear as they are created
    status, queued, dead,
    digestOf,      \* metadata.digestOf
    decision,      \* what the routing decided
    parked,        \* events whose process() threw: on the DLQ topic
    night,         \* the user is inside the quiet window
    \* Redis: members of scheduled_release, the user's quiet queue, the digest
    \* buckets, and the buckets that have a due time
    scheduled, quietQueue, buckets, digestDue,
    \* program counter of each process() run, poller and flusher, and the
    \* channel its fan-out is at
    pc, chan,
    batch, depth, cur,             \* poller: members due, queue depth, member
    claimed, source, ids, items, digest,   \* flusher: buckets won, the bucket,
                                   \* ids taken, items to mark, digest row
    pile, polled,  \* history: the overnight pile, who polled since the morning
    used

rows   == <<status, queued, dead, digestOf>>
event  == <<decision, parked>>
zsets  == <<scheduled, quietQueue, buckets, digestDue>>
poller == <<batch, depth, cur>>
flush  == <<claimed, source, ids, items, digest>>
hist   == <<pile, polled>>
vars   == <<rows, event, night, zsets, pc, chan, poller, flush, hist, used>>

FanPc == {"queue", "publish"}
ProcessPc == {"route", "hold", "quietQueue", "schedule", "bucket", "done"} \cup FanPc
ReleasePc == {"idle", "depth", "next", "defer", "deferStatus", "deferBucket", "resume",
              "resumeStatus", "failed"} \cup FanPc
FlushPc == {"idle", "next", "find", "uncap", "create", "settle", "mark", "restore"} \cup FanPc

\* Everything has the type the code gives it.
TypeOK ==
    /\ status \in [Rows -> NotificationStatus \cup {"absent"}]
    /\ queued \in [Rows -> [Channels -> Nat]] /\ dead \in [Rows -> SUBSET Channels]
    /\ digestOf \in [Digests -> SUBSET Notifications]
    /\ decision \in [Notifications -> AllDecisions \cup {None}] /\ parked \subseteq Notifications
    /\ night \in BOOLEAN
    /\ scheduled \subseteq Notifications /\ quietQueue \subseteq Notifications
    /\ buckets \in [Sources -> SUBSET Notifications] /\ digestDue \subseteq Sources
    /\ \A n \in Notifications : pc[n] \in ProcessPc
    /\ \A r \in Replicas : pc[Releaser(r)] \in ReleasePc /\ pc[Flusher(r)] \in FlushPc
    /\ chan \in [Actors -> Channels]
    /\ batch \in [Replicas -> SUBSET Notifications] /\ cur \in [Replicas -> Notifications \cup {None}]
    /\ depth \in [Replicas -> 0..Cardinality(Notifications)]
    /\ claimed \in [Replicas -> SUBSET Sources] /\ source \in [Replicas -> Sources \cup {None}]
    /\ ids \in [Replicas -> SUBSET Notifications] /\ items \in [Replicas -> SUBSET Notifications]
    /\ digest \in [Replicas -> Digests \cup {None}]
    /\ pile \subseteq Notifications /\ polled \subseteq Replicas /\ used \subseteq Faults

Init ==
    /\ status = [x \in Rows |-> IF x \in Notifications THEN "CREATED" ELSE "absent"]
    /\ queued = [x \in Rows |-> [c \in Channels |-> 0]] /\ dead = [x \in Rows |-> {}]
    /\ digestOf = [d \in Digests |-> {}]
    /\ decision = [n \in Notifications |-> None] /\ parked = {}
    /\ night \in BOOLEAN
    /\ scheduled = {} /\ quietQueue = {} /\ digestDue = {} /\ buckets = [s \in Sources |-> {}]
    /\ pc = [a \in Actors |-> IF a \in Notifications THEN "route" ELSE "idle"]
    /\ chan = [a \in Actors |-> 1]
    /\ batch = [r \in Replicas |-> {}] /\ depth = [r \in Replicas |-> 0]
    /\ cur = [r \in Replicas |-> None] /\ claimed = [r \in Replicas |-> {}]
    /\ source = [r \in Replicas |-> None] /\ ids = [r \in Replicas |-> {}]
    /\ items = [r \in Replicas |-> {}] /\ digest = [r \in Replicas |-> None]
    /\ pile = {} /\ polled = {} /\ used = {}

Spend(f) == f \in Kinds \ used /\ Cardinality(used) < MaxFaults /\ used' = used \cup {f}
SetStatus(x, s) == status' = [status EXCEPT ![x] = s] /\ UNCHANGED <<queued, dead, digestOf>>
Go(a, l) == pc' = [pc EXCEPT ![a] = l] /\ UNCHANGED chan

\* Plausible slip: the due time is only ever lowered, never created.
add_NoDue(s, n) ==
    /\ buckets' = [buckets EXCEPT ![s] = @ \cup {n}]
    /\ UNCHANGED digestDue

\* DigestBucketService.add: the item and the bucket's due time in one MULTI.
add(s, n) ==
    /\ buckets' = [buckets EXCEPT ![s] = @ \cup {n}]
    /\ digestDue' = digestDue \cup {s}

\* The quiet window ends, once.  What is scheduled by then is the pile that
\* "built up overnight".
Dawn ==
    /\ night /\ night' = FALSE
    /\ LET quiet == {n \in scheduled : decision[n] = "quiet"}
       IN pile' = IF Cardinality(quiet) > DigestThreshold THEN quiet ELSE {}
    /\ UNCHANGED <<rows, event, zsets, pc, chan, poller, flush, polled, used>>

-----------------------------------------------------------------------------
(***************************************************************************)
(* fanOut and renderAndQueue: one row per channel, the first on the        *)
(* notification itself.  Run by process(), by resume() for a released      *)
(* notification and by resume() for a digest.                              *)
(***************************************************************************)

RowOf(a) ==
    IF a \in Notifications THEN a ELSE IF a[1] = "release" THEN cur[a[2]] ELSE digest[a[2]]

\* Plausible slip: every resume() is taken for a digest's.
After_Digest(a) == IF a \in Notifications THEN "done" ELSE "settle"

\* Where the caller of fanOut goes on.
After(a) == IF a \in Notifications THEN "done" ELSE IF a[1] = "release" THEN "next" ELSE "settle"

fanOut(a) == pc' = [pc EXCEPT ![a] = "queue"] /\ chan' = [chan EXCEPT ![a] = 1]

\* recordExposure, then the next channel or the end of the loop.
NextChannel(a) ==
    IF chan[a] < ChannelCount
    THEN chan' = [chan EXCEPT ![a] = @ + 1] /\ pc' = [pc EXCEPT ![a] = "queue"]
    ELSE pc' = [pc EXCEPT ![a] = After(a)] /\ chan' = [chan EXCEPT ![a] = 1]

\* deadLetter(): the row of that channel ends in DLQ, the others go on.
deadLetter(a, x, c) ==
    /\ dead' = [dead EXCEPT ![x] = @ \cup {c}]
    /\ status' = IF c = 1 THEN [status EXCEPT ![x] = "DLQ"] ELSE status
    /\ UNCHANGED <<queued, digestOf>>
    /\ NextChannel(a)

\* ROUTED -> QUEUED.  A further channel has a fresh sibling row; for the first
\* one the state machine may refuse, which dead-letters the notification.
Queue(a) ==
    /\ pc[a] = "queue"
    /\ LET x == RowOf(a)
           c == chan[a]
       IN IF c = 1 /\ ~isValidTransition(status[x], "QUEUED") THEN deadLetter(a, x, c)
          ELSE /\ status' = IF c = 1 THEN [status EXCEPT ![x] = "QUEUED"] ELSE status
               /\ UNCHANGED <<queued, dead, digestOf>>
               /\ Go(a, "publish")
    /\ UNCHANGED <<event, night, zsets, poller, flush, hist, used>>

\* frequencyCap.record (see FrequencyCaps) and dispatch.publish.
PublishChannel(a) ==
    /\ pc[a] = "publish"
    /\ queued' = [queued EXCEPT ![RowOf(a)][chan[a]] = @ + 1]
    /\ NextChannel(a)
    /\ UNCHANGED <<status, dead, digestOf, event, night, zsets, poller, flush, hist, used>>

\* Rendering or queueing throws: "never swallow", dead-letter.
QueueFails(a) ==
    /\ pc[a] \in {"queue", "publish"}
    /\ Spend("queueFail")
    /\ deadLetter(a, RowOf(a), chan[a])
    /\ UNCHANGED <<event, night, zsets, poller, flush, hist>>

-----------------------------------------------------------------------------
(***************************************************************************)
(* process(), from the routing decision.                                   *)
(***************************************************************************)

\* Routing, the update of the row and CREATED -> ENRICHED.  The events of a user
\* share a partition (the key is the user id), so the consumer takes one at a
\* time.  Quiet hours only hold what arrives in the window.
Route(n) ==
    /\ pc[n] = "route"
    /\ \A m \in Notifications : pc[m] \in {"route", "done"}
    /\ \E d \in Decisions :
          /\ d = "quiet" => night
          /\ decision' = [decision EXCEPT ![n] = d]
    /\ SetStatus(n, "ENRICHED")
    /\ Go(n, "hold")
    /\ UNCHANGED <<parked, night, zsets, poller, flush, hist, used>>

\* The transition out of ENRICHED.
Hold(n) ==
    /\ pc[n] = "hold"
    /\ LET d == decision[n]
       IN /\ SetStatus(n, CASE d \in {"hourly", "daily"} -> "DIGEST_PENDING"
                            [] d = "quiet" -> "QUIET"
                            [] d \in {"capped", "noTemplate"} -> "CAPPED"
                            [] OTHER -> "ROUTED")
          /\ IF d = "now" THEN fanOut(n)
             ELSE Go(n, CASE d \in {"hourly", "daily", "capped"} -> "bucket"
                          [] d = "quiet" -> "quietQueue"
                          [] d = "sto" -> "schedule"
                          [] d = "noTemplate" -> "done")
    /\ UNCHANGED <<event, night, zsets, poller, flush, hist, used>>

Bucket(n) ==
    /\ pc[n] = "bucket"
    /\ add(decision[n], n)
    /\ Go(n, "done")
    /\ UNCHANGED <<rows, event, night, scheduled, quietQueue, poller, flush, hist, used>>

QuietQueue(n) ==
    /\ pc[n] = "quietQueue"
    /\ quietQueue' = quietQueue \cup {n}
    /\ Go(n, "schedule")
    /\ UNCHANGED <<rows, event, night, scheduled, buckets, digestDue, poller, flush, hist, used>>

\* Plausible slip: only send-time optimisation schedules the release; the
\* quiet queue is trusted to be drained by somebody.
scheduleRelease_StoOnly(n) ==
    /\ pc[n] = "schedule"
    /\ scheduled' = IF decision[n] = "sto" THEN scheduled \cup {n} ELSE scheduled
    /\ Go(n, "done")
    /\ UNCHANGED <<rows, event, night, quietQueue, buckets, digestDue, poller, flush, hist, used>>

scheduleRelease(n) ==
    /\ pc[n] = "schedule"
    /\ scheduled' = scheduled \cup {n}
    /\ Go(n, "done")
    /\ UNCHANGED <<rows, event, night, quietQueue, buckets, digestDue, poller, flush, hist, used>>

\* process() throws: the consumer parks the event; redelivery finds a row past
\* CREATED and does nothing.
EngineThrows(n) ==
    /\ pc[n] \notin {"route", "publish", "done"}
    /\ Spend("engineThrow")
    /\ parked' = parked \cup {n}
    /\ Go(n, "done")
    /\ UNCHANGED <<rows, decision, night, zsets, poller, flush, hist>>

-----------------------------------------------------------------------------
(***************************************************************************)
(* ScheduledReleaseService.releaseDue, one poll of replica r.              *)
(***************************************************************************)

\* What is due: notifications held for the night once it is over, delayed
\* ones and rescheduled ones at any moment.
Due == {n \in scheduled : decision[n] = "quiet" => ~night}

Poll(r) ==
    /\ pc[Releaser(r)] = "idle"
    /\ Due # {}
    /\ batch' = [batch EXCEPT ![r] = Due]
    /\ polled' = IF night THEN polled ELSE polled \cup {r}
    /\ Go(Releaser(r), "depth")
    /\ UNCHANGED <<rows, event, night, zsets, depth, cur, flush, pile, used>>

\* The snapshot of the user's quiet queue, before anything is released.
Depth(r) ==
    /\ pc[Releaser(r)] = "depth"
    /\ depth' = [depth EXCEPT ![r] = Cardinality(quietQueue)]
    /\ Go(Releaser(r), "next")
    /\ UNCHANGED <<rows, event, night, zsets, batch, cur, flush, hist, used>>

shouldBatchIntoDig(d) == d > DigestThreshold

\* Plausible slip: the member read is released even when ZREM removed nothing.
Claim_Unclaimed(r) ==
    /\ pc[Releaser(r)] = "next"
    /\ IF batch[r] = {}
       THEN /\ Go(Releaser(r), "idle")
            /\ cur' = [cur EXCEPT ![r] = None] /\ depth' = [depth EXCEPT ![r] = 0]
            /\ UNCHANGED <<scheduled, batch>>
       ELSE \E n \in batch[r] :
              /\ UNCHANGED depth
              /\ batch' = [batch EXCEPT ![r] = @ \ {n}]
              /\ scheduled' = scheduled \ {n}
              /\ cur' = [cur EXCEPT ![r] = n]
              /\ Go(Releaser(r), IF decision[n] = "quiet" /\ shouldBatchIntoDig(depth[r])
                                 THEN "defer" ELSE "resume")
    /\ UNCHANGED <<rows, event, night, quietQueue, buckets, digestDue, flush, hist, used>>

\* Plausible slip: the depth is read again for every member.
Claim_LiveDepth(r) ==
    /\ pc[Releaser(r)] = "next"
    /\ IF batch[r] = {}
       THEN /\ Go(Releaser(r), "idle")
            /\ cur' = [cur EXCEPT ![r] = None] /\ depth' = [depth EXCEPT ![r] = 0]
            /\ UNCHANGED <<scheduled, batch>>
       ELSE \E n \in batch[r] :
              /\ UNCHANGED depth
              /\ batch' = [batch EXCEPT ![r] = @ \ {n}]
              /\ scheduled' = scheduled \ {n}
              /\ IF n \notin scheduled THEN UNCHANGED <<pc, chan, cur>>
                 ELSE /\ cur' = [cur EXCEPT ![r] = n]
                      /\ Go(Releaser(r), IF decision[n] = "quiet" /\ shouldBatchIntoDig(Cardinality(quietQueue))
                                         THEN "defer" ELSE "resume")
    /\ UNCHANGED <<rows, event, night, quietQueue, buckets, digestDue, flush, hist, used>>

\* The next member of the batch: ZREM decides which replica releases it.
Claim(r) ==
    /\ pc[Releaser(r)] = "next"
    /\ IF batch[r] = {}
       THEN /\ Go(Releaser(r), "idle")
            /\ cur' = [cur EXCEPT ![r] = None] /\ depth' = [depth EXCEPT ![r] = 0]
            /\ UNCHANGED <<scheduled, batch>>
       ELSE \E n \in batch[r] :
              /\ UNCHANGED depth
              /\ batch' = [batch EXCEPT ![r] = @ \ {n}]
              /\ scheduled' = scheduled \ {n}
              /\ IF n \notin scheduled THEN UNCHANGED <<pc, chan, cur>>
                 ELSE /\ cur' = [cur EXCEPT ![r] = n]
                      /\ Go(Releaser(r), IF decision[n] = "quiet" /\ shouldBatchIntoDig(depth[r])
                                         THEN "defer" ELSE "resume")
    /\ UNCHANGED <<rows, event, night, quietQueue, buckets, digestDue, flush, hist, used>>

\* deferToDigest: only a QUIET notification, which leaves the quiet queue ...
Defer(r) ==
    /\ pc[Releaser(r)] = "defer"
    /\ IF status[cur[r]] = "QUIET"
       THEN quietQueue' = quietQueue \ {cur[r]} /\ Go(Releaser(r), "deferStatus")
       ELSE Go(Releaser(r), "next") /\ UNCHANGED quietQueue
    /\ UNCHANGED <<rows, event, night, scheduled, buckets, digestDue, poller, flush, hist, used>>

\* ... becomes DIGEST_PENDING ...
DeferStatus(r) ==
    /\ pc[Releaser(r)] = "deferStatus"
    /\ SetStatus(cur[r], "DIGEST_PENDING")
    /\ Go(Releaser(r), "deferBucket")
    /\ UNCHANGED <<event, night, zsets, poller, flush, hist, used>>

\* ... and joins the "quiet" bucket, due now.
DeferBucket(r) ==
    /\ pc[Releaser(r)] = "deferBucket"
    /\ add("quiet", cur[r])
    /\ Go(Releaser(r), "next")
    /\ UNCHANGED <<rows, event, night, scheduled, quietQueue, poller, flush, hist, used>>

\* resume(): QUIET leaves the queue and becomes ROUTED, ROUTED goes out, any
\* other status was dispatched by an earlier release.
Resume(r) ==
    /\ pc[Releaser(r)] = "resume"
    /\ CASE status[cur[r]] = "QUIET" -> quietQueue' = quietQueue \ {cur[r]} /\ Go(Releaser(r), "resumeStatus")
         [] status[cur[r]] = "ROUTED" -> fanOut(Releaser(r)) /\ UNCHANGED quietQueue
         [] OTHER -> Go(Releaser(r), "next") /\ UNCHANGED quietQueue
    /\ UNCHANGED <<rows, event, night, scheduled, buckets, digestDue, poller, flush, hist, used>>

ResumeStatus(r) ==
    /\ pc[Releaser(r)] = "resumeStatus"
    /\ SetStatus(cur[r], "ROUTED")
    /\ fanOut(Releaser(r))
    /\ UNCHANGED <<event, night, zsets, poller, flush, hist, used>>

\* The release throws: a query, the A/B lookup, a sibling row, the exposure.
ReleaseThrows(r) ==
    /\ pc[Releaser(r)] \in {"defer", "deferStatus", "deferBucket", "resume", "resumeStatus", "queue"}
    /\ Spend("releaseThrow")
    /\ Go(Releaser(r), "failed")
    /\ UNCHANGED <<rows, event, night, zsets, poller, flush, hist>>

\* "Put it back so the release is retried rather than lost."
Reschedule(r) ==
    /\ pc[Releaser(r)] = "failed"
    /\ scheduled' = scheduled \cup {cur[r]}
    /\ Go(Releaser(r), "next")
    /\ UNCHANGED <<rows, event, night, quietQueue, buckets, digestDue, poller, flush, hist, used>>

-----------------------------------------------------------------------------
(***************************************************************************)
(* DigestFlushService.flushDue, one poll of replica r.                     *)
(***************************************************************************)

\* Hourly and quiet buckets are due within the hour, daily and capped ones in
\* the morning.
DueBuckets == {s \in digestDue : s \in {"daily", "capped"} => ~night}

\* claimDue: ZREM returns each due bucket to one replica.
ClaimDue(r) ==
    /\ pc[Flusher(r)] = "idle"
    /\ \E won \in SUBSET DueBuckets :
          /\ won # {}
          /\ digestDue' = digestDue \ won
          /\ claimed' = [claimed EXCEPT ![r] = won]
    /\ Go(Flusher(r), "next")
    /\ UNCHANGED <<rows, event, night, scheduled, quietQueue, buckets, poller, source, ids, items, digest, hist, used>>

\* flush of the next bucket: take reads and empties it in one MULTI.
Take(r) ==
    /\ pc[Flusher(r)] = "next"
    /\ \E s \in claimed[r] :
          /\ claimed' = [claimed EXCEPT ![r] = @ \ {s}]
          /\ source' = [source EXCEPT ![r] = s]
          /\ ids' = [ids EXCEPT ![r] = buckets[s]]
          /\ buckets' = [buckets EXCEPT ![s] = {}]
          /\ Go(Flusher(r), IF buckets[s] = {} THEN "next" ELSE "find")
    /\ UNCHANGED <<rows, event, night, scheduled, quietQueue, digestDue, poller, items, digest, hist, used>>

\* The last claimed bucket is done.
FlushEnds(r) ==
    /\ pc[Flusher(r)] = "next" /\ claimed[r] = {}
    /\ Go(Flusher(r), "idle")
    /\ source' = [source EXCEPT ![r] = None] /\ digest' = [digest EXCEPT ![r] = None]
    /\ UNCHANGED <<rows, event, night, zsets, poller, claimed, ids, items, hist, used>>

\* A digest the user chose waits for the morning; otherwise the ids that are
\* still held, if there are enough of them, make a digest.
Find(r) ==
    /\ pc[Flusher(r)] = "find"
    /\ LET held == {n \in ids[r] : status[n] \in {"DIGEST_PENDING", "CAPPED"}}
       IN IF source[r] \in {"hourly", "daily"} /\ night
          THEN Go(Flusher(r), "restore") /\ UNCHANGED <<ids, items>>
          ELSE IF Cardinality(held) < DIGEST_MIN_ITEMS(source[r])
          THEN Go(Flusher(r), "next") /\ ids' = [ids EXCEPT ![r] = {}] /\ UNCHANGED items
          ELSE Go(Flusher(r), "uncap") /\ items' = [items EXCEPT ![r] = held] /\ UNCHANGED ids
    /\ UNCHANGED <<rows, event, night, zsets, poller, claimed, source, digest, hist, used>>

\* send(): CAPPED -> DIGEST_PENDING, written without the state machine.
Uncap(r) ==
    /\ pc[Flusher(r)] = "uncap"
    /\ status' = [x \in Rows |-> IF x \in items[r] /\ status[x] = "CAPPED" THEN "DIGEST_PENDING" ELSE status[x]]
    /\ Go(Flusher(r), "create")
    /\ UNCHANGED <<queued, dead, digestOf, event, night, zsets, poller, flush, hist, used>>

\* The digest's row, ROUTED, and resume(digest).
CreateDigest(r) ==
    /\ pc[Flusher(r)] = "create"
    /\ \E d \in Digests :
          /\ status[d] = "absent" /\ \A e \in 1..(d - 1) : status[e] # "absent"
          /\ status' = [status EXCEPT ![d] = "ROUTED"]
          /\ digestOf' = [digestOf EXCEPT ![d] = items[r]]
          /\ digest' = [digest EXCEPT ![r] = d]
    /\ fanOut(Flusher(r))
    /\ UNCHANGED <<queued, dead, event, night, zsets, poller, claimed, source, ids, items, hist, used>>

\* Plausible slip: the outcome of the digest is not looked at.
Settle_Unchecked(r) ==
    /\ pc[Flusher(r)] = "settle"
    /\ Go(Flusher(r), "mark")
    /\ UNCHANGED <<rows, event, night, zsets, poller, flush, hist, used>>

\* A digest that ended in DLQ throws; its items go back.
Settle(r) ==
    /\ pc[Flusher(r)] = "settle"
    /\ Go(Flusher(r), IF status[digest[r]] = "DLQ" THEN "restore" ELSE "mark")
    /\ UNCHANGED <<rows, event, night, zsets, poller, flush, hist, used>>

\* The items become DIGESTED one by one.
Mark(r) ==
    /\ pc[Flusher(r)] = "mark"
    /\ IF items[r] = {}
       THEN Go(Flusher(r), "next") /\ ids' = [ids EXCEPT ![r] = {}] /\ UNCHANGED <<rows, items>>
       ELSE /\ \E n \in items[r] :
                  SetStatus(n, "DIGESTED") /\ items' = [items EXCEPT ![r] = @ \ {n}]
            /\ UNCHANGED <<pc, chan, ids>>
    /\ UNCHANGED <<event, night, zsets, poller, claimed, source, digest, hist, used>>

\* restore: the ids taken go back one by one, due in five minutes or when the
\* window opens, so that nobody takes the bucket half restored.
Restore(r) ==
    /\ pc[Flusher(r)] = "restore"
    /\ buckets' = [buckets EXCEPT ![source[r]] = @ \cup ids[r]]
    /\ digestDue' = digestDue \cup {source[r]}
    /\ ids' = [ids EXCEPT ![r] = {}] /\ items' = [items EXCEPT ![r] = {}]
    /\ Go(Flusher(r), "next")
    /\ UNCHANGED <<rows, event, night, scheduled, quietQueue, poller, claimed, source, digest, hist, used>>

\* send() throws: the items go back and are retried in five minutes.
SendThrows(r) ==
    /\ pc[Flusher(r)] \in {"uncap", "create", "settle", "mark", "queue"}
    /\ Spend("sendThrow")
    /\ Go(Flusher(r), "restore")
    /\ UNCHANGED <<rows, event, night, zsets, poller, flush, hist>>

\* flush() throws outside send(), before or after the bucket was taken: logged,
\* and the next bucket is flushed.
FlushThrows(r) ==
    /\ Spend("flushThrow")
    /\ \/ /\ pc[Flusher(r)] \in {"find", "restore"}
          /\ ids' = [ids EXCEPT ![r] = {}]
          /\ UNCHANGED claimed
       \/ /\ pc[Flusher(r)] = "next"
          /\ \E s \in claimed[r] : claimed' = [claimed EXCEPT ![r] = @ \ {s}]
          /\ UNCHANGED ids
    /\ Go(Flusher(r), "next")
    /\ UNCHANGED <<rows, event, night, zsets, poller, source, items, digest, hist>>

-----------------------------------------------------------------------------
\* The process behind replica r dies, with its pollers and the process() runs
\* it was in.  Kafka redelivers an unfinished event, which is a no-op once the
\* row is past CREATED.
Crash(r) ==
    /\ Spend("crash")
    /\ \E dying \in SUBSET {n \in Notifications : pc[n] \notin {"route", "done"}} :
          pc' = [a \in Actors |-> IF a \in {Releaser(r), Flusher(r)} THEN "idle"
                                  ELSE IF a \in dying THEN "done" ELSE pc[a]]
    /\ batch' = [batch EXCEPT ![r] = {}] /\ ids' = [ids EXCEPT ![r] = {}]
    /\ claimed' = [claimed EXCEPT ![r] = {}] /\ items' = [items EXCEPT ![r] = {}]
    /\ UNCHANGED <<rows, event, night, zsets, chan, depth, cur, source, digest, hist>>

FanOutStep(a) == Queue(a) \/ PublishChannel(a)
process(n) ==
    \/ Route(n) \/ Hold(n) \/ Bucket(n) \/ QuietQueue(n) \/ scheduleRelease(n)
    \/ FanOutStep(n)
releaseDue(r) ==
    \/ Poll(r) \/ Depth(r) \/ Claim(r) \/ Defer(r) \/ DeferStatus(r) \/ DeferBucket(r)
    \/ Resume(r) \/ ResumeStatus(r) \/ Reschedule(r)
    \/ FanOutStep(Releaser(r))
flushDue(r) ==
    \/ ClaimDue(r) \/ Take(r) \/ FlushEnds(r) \/ Find(r) \/ Uncap(r) \/ CreateDigest(r)
    \/ Settle(r) \/ Mark(r) \/ Restore(r)
    \/ FanOutStep(Flusher(r))

Fault ==
    \/ \E a \in Actors : QueueFails(a)
    \/ \E n \in Notifications : EngineThrows(n)
    \/ \E r \in Replicas : ReleaseThrows(r) \/ SendThrows(r) \/ FlushThrows(r) \/ Crash(r)

Next ==
    \/ Dawn
    \/ \E n \in Notifications : process(n)
    \/ \E r \in Replicas : releaseDue(r) \/ flushDue(r)
    \/ Fault

Spec == Init /\ [][Next]_vars

\* Time passes, and the consumer and both pollers keep running.
Fairness ==
    /\ WF_vars(Dawn)
    /\ \A n \in Notifications : WF_vars(process(n))
    /\ \A r \in Replicas : WF_vars(releaseDue(r)) /\ WF_vars(flushDue(r))

FairSpec == Spec /\ Fairness

-----------------------------------------------------------------------------
\* A replica holds n in a release or a flush.
InRelease(n) == \E r \in Replicas : cur[r] = n /\ pc[Releaser(r)] \notin {"idle", "depth", "next"}
InFlush(n) == \E r \in Replicas : n \in ids[r]
Running(n) == pc[n] # "done"

Individually(n) == \E c \in Channels : queued[n][c] > 0
DigestsOf(n) == {d \in Digests : n \in digestOf[d] /\ \E c \in Channels : queued[d][c] > 0}

\* Two replicas, retried releases and retried flushes never send a row twice
\* to a channel, never send a notification both by itself and inside a digest,
\* and repeat it in a second digest only when a flush failed half-way.
SentOnce ==
    /\ \A x \in Rows, c \in Channels : queued[x][c] <= 1
    /\ \A n \in Notifications :
          /\ Individually(n) => DigestsOf(n) = {}
          /\ Cardinality(DigestsOf(n)) <= 1 + Cardinality(used \cap {"sendThrow", "queueFail"})

\* resume() and releaseDue: a notification on its way to the release set, or
\* held in it, is always in the set or in somebody's hands, failed releases
\* included.  Excused are a process that died, an event that was parked, and a
\* quiet notification whose release failed after it had become ROUTED: a poll
\* that finds a pile hands it to deferToDigest, which takes it for released.
HeldForMorning ==
    \A n \in Notifications :
       /\ status[n] \in {"ENRICHED", "QUIET", "ROUTED"}
       /\ n \notin parked /\ "crash" \notin used
       /\ status[n] = "ROUTED" /\ decision[n] = "quiet" => "releaseThrow" \notin used
       => n \in scheduled \/ Running(n) \/ InRelease(n)

\* A notification held for a digest is in a bucket that will be flushed, or in
\* the hands of whoever puts it there or takes it out, failed sends included,
\* unless a digest that went out has it already.
HeldForDigest ==
    \A n \in Notifications :
       /\ status[n] = "DIGEST_PENDING"
       /\ n \notin parked /\ used \cap {"crash", "flushThrow", "releaseThrow"} = {}
       => \/ \E s \in digestDue : n \in buckets[s]
          \/ DigestsOf(n) # {}
          \/ \E r \in Replicas : \E s \in claimed[r] : n \in buckets[s]
          \/ Running(n) \/ InRelease(n) \/ InFlush(n)

\* Nothing that is held gets lost between PostgreSQL and Redis: whatever a
\* release, a deferral, a flush or their retries do, a notification waits where
\* a poller will find it, or somebody is working on it.
HeldIsKept == HeldForMorning /\ HeldForDigest

\* DIGESTED is only ever written for a notification a digest that was put on
\* its queue lists, whatever failed or was retried on the way.
DigestedIsInDigest ==
    \A n \in Notifications :
       status[n] = "DIGESTED" =>
          \E d \in DigestsOf(n) : status[d] = "QUEUED" /\ queued[d][1] = 1

\* A pile of more than DIGEST_THRESHOLD that built up overnight goes out as a
\* digest, nothing of it alone, when one replica does the releasing and no
\* release is retried.
PileIsDigested ==
    Cardinality(polled) <= 1 /\ used \cap {"releaseThrow", "crash"} = {}
       => \A n \in pile : ~Individually(n)

Excused(n) == n \in parked \/ used \cap {"crash", "flushThrow", "releaseThrow"} # {}

\* Nothing is held for ever: every notification is queued, capped,
\* dead-lettered or in a digest that went out in the end.
HeldIsReleased ==
    \A n \in Notifications :
       []<>(status[n] \in {"QUEUED", "DIGESTED", "CAPPED", "DLQ"}
            \/ DigestsOf(n) # {} \/ Excused(n))
=============================================================================
