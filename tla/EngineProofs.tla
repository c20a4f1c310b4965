---------------------------- MODULE EngineProofs ----------------------------
(***************************************************************************)
(* What holding, releasing and digesting guarantee for any number of       *)
(* notifications, replicas and channels, and any mix of faults.            *)
(***************************************************************************)
EXTENDS Engine, FiniteSetTheorems, TLAPS

-----------------------------------------------------------------------------
(***************************************************************************)
(* Who does what: every step is the night's, or one of a process() run, a  *)
(* poller or a flusher, or a crash, and touches what is its own.           *)
(***************************************************************************)

NStep(n) == process(n) \/ EngineThrows(n) \/ QueueFails(n)
RStep(r) == releaseDue(r) \/ ReleaseThrows(r) \/ QueueFails(Releaser(r))
FStep(r) == flushDue(r) \/ SendThrows(r) \/ FlushThrows(r) \/ QueueFails(Flusher(r))

LEMMA Steps ==
    ASSUME Next
    PROVE  \/ Dawn
           \/ \E n \in Notifications : NStep(n)
           \/ \E r \in Replicas : RStep(r)
           \/ \E r \in Replicas : FStep(r)
           \/ \E r \in Replicas : Crash(r)
<1>1. CASE Fault
  <2>1. CASE \E a \in Actors : QueueFails(a) BY <2>1 DEF Actors, NStep, RStep, FStep
  <2> QED BY <1>1, <2>1 DEF Fault, NStep, RStep, FStep
<1> QED BY <1>1 DEF Next, NStep, RStep, FStep

\* The actors are told apart, and each has its row and its way on.
LEMMA ActorFacts ==
    ASSUME NEW r \in Replicas
    PROVE  /\ Releaser(r) \in Actors /\ Flusher(r) \in Actors
           /\ Releaser(r) \notin Notifications /\ Flusher(r) \notin Notifications
           /\ \A q \in Replicas : Releaser(r) # Flusher(q)
           /\ \A q \in Replicas : (Releaser(r) = Releaser(q) => r = q) /\ (Flusher(r) = Flusher(q) => r = q)
           /\ RowOf(Releaser(r)) = cur[r] /\ RowOf(Flusher(r)) = digest[r]
           /\ After(Releaser(r)) = "next" /\ After(Flusher(r)) = "settle"
<1>1. Releaser(r)[1] = "release" /\ Releaser(r)[2] = r /\ Flusher(r)[1] = "flush" /\ Flusher(r)[2] = r
  BY DEF Releaser, Flusher
<1>2. \A q \in Replicas : Releaser(q)[2] = q /\ Flusher(q)[2] = q /\ Flusher(q)[1] = "flush" /\ Releaser(q)[1] = "release"
  BY DEF Releaser, Flusher
<1>3. Releaser(r) \notin Notifications /\ Flusher(r) \notin Notifications BY EngineAssumption
<1>4. Releaser(r) \in Actors /\ Flusher(r) \in Actors BY DEF Actors
<1>5. \A q \in Replicas : Releaser(r) # Flusher(q) BY <1>1, <1>2
<1>6. \A q \in Replicas : (Releaser(r) = Releaser(q) => r = q) /\ (Flusher(r) = Flusher(q) => r = q) BY <1>1, <1>2
<1>7. RowOf(Releaser(r)) = cur[r] /\ RowOf(Flusher(r)) = digest[r] BY <1>1, <1>3 DEF RowOf
<1>8. After(Releaser(r)) = "next" /\ After(Flusher(r)) = "settle" BY <1>1, <1>3 DEF After
<1> QED BY <1>3, <1>4, <1>5, <1>6, <1>7, <1>8

LEMMA NotificationFacts ==
    ASSUME NEW n \in Notifications
    PROVE  n \in Actors /\ RowOf(n) = n /\ After(n) = "done" /\ n \in Rows /\ n \notin Digests /\ n # None
  BY EngineAssumption DEF Actors, RowOf, After, Rows

\* What a step of fanOut touches, whoever runs it.
LEMMA FanFrame ==
    ASSUME NEW a, FanOutStep(a) \/ QueueFails(a)
    PROVE  /\ UNCHANGED <<digestOf, decision, parked, night, scheduled, quietQueue, buckets, digestDue>>
           /\ UNCHANGED <<batch, depth, cur, claimed, source, ids, items, digest, pile, polled>>
           /\ pc[a] \in FanPc
<1> USE DEF event, zsets, poller, flush, hist, deadLetter, FanPc
<1>1. CASE Queue(a) BY <1>1 DEF Queue
<1>2. CASE PublishChannel(a) BY <1>2 DEF PublishChannel
<1>3. CASE QueueFails(a) BY <1>3 DEF QueueFails
<1> QED BY <1>1, <1>2, <1>3 DEF FanOutStep

LEMMA NFrame ==
    ASSUME NEW n \in Notifications, NStep(n)
    PROVE  /\ UNCHANGED <<digestOf, night, batch, depth, cur, claimed, source, ids, items, digest, pile, polled>>
           /\ UNCHANGED decision \/ Route(n)
           /\ UNCHANGED parked \/ EngineThrows(n)
           /\ UNCHANGED scheduled \/ scheduleRelease(n)
           /\ UNCHANGED quietQueue \/ QuietQueue(n)
           /\ UNCHANGED <<buckets, digestDue>> \/ Bucket(n)
<1> USE DEF rows, event, zsets, poller, flush, hist, SetStatus
<1>1. CASE Route(n) BY <1>1 DEF Route
<1>2. CASE Hold(n) BY <1>2 DEF Hold
<1>3. CASE Bucket(n) BY <1>3 DEF Bucket
<1>4. CASE QuietQueue(n) BY <1>4 DEF QuietQueue
<1>5. CASE scheduleRelease(n) BY <1>5 DEF scheduleRelease
<1>6. CASE FanOutStep(n) \/ QueueFails(n) BY <1>6, FanFrame
<1>7. CASE EngineThrows(n) BY <1>7 DEF EngineThrows
<1> QED BY <1>1, <1>2, <1>3, <1>4, <1>5, <1>6, <1>7 DEF NStep, process

LEMMA RFrame ==
    ASSUME NEW r \in Replicas, RStep(r)
    PROVE  /\ UNCHANGED <<digestOf, decision, parked, night, claimed, source, ids, items, digest, pile>>
           /\ UNCHANGED <<batch, polled>> \/ Poll(r) \/ Claim(r)
           /\ UNCHANGED polled \/ Poll(r)
           /\ UNCHANGED <<depth>> \/ Depth(r) \/ Claim(r)
           /\ UNCHANGED <<cur>> \/ Claim(r)
           /\ UNCHANGED scheduled \/ Claim(r) \/ Reschedule(r)
           /\ UNCHANGED quietQueue \/ Defer(r) \/ Resume(r)
           /\ UNCHANGED <<buckets, digestDue>> \/ DeferBucket(r)
<1> USE DEF rows, event, zsets, poller, flush, hist, SetStatus
<1>1. CASE Poll(r) BY <1>1 DEF Poll
<1>2. CASE Depth(r) BY <1>2 DEF Depth
<1>3. CASE Claim(r) BY <1>3 DEF Claim
<1>4. CASE Defer(r) BY <1>4 DEF Defer
<1>5. CASE DeferStatus(r) BY <1>5 DEF DeferStatus
<1>6. CASE DeferBucket(r) BY <1>6 DEF DeferBucket
<1>7. CASE Resume(r) BY <1>7 DEF Resume
<1>8. CASE ResumeStatus(r) BY <1>8 DEF ResumeStatus
<1>9. CASE Reschedule(r) BY <1>9 DEF Reschedule
<1>10. CASE FanOutStep(Releaser(r)) \/ QueueFails(Releaser(r)) BY <1>10, FanFrame
<1>11. CASE ReleaseThrows(r) BY <1>11 DEF ReleaseThrows
<1> QED BY <1>1, <1>2, <1>3, <1>4, <1>5, <1>6, <1>7, <1>8, <1>9, <1>10, <1>11 DEF RStep, releaseDue

LEMMA FFrame ==
    ASSUME NEW r \in Replicas, FStep(r)
    PROVE  /\ UNCHANGED <<decision, parked, night, scheduled, quietQueue, batch, depth, cur, pile, polled>>
           /\ UNCHANGED digestOf \/ CreateDigest(r)
           /\ UNCHANGED buckets \/ Take(r) \/ Restore(r)
           /\ UNCHANGED digestDue \/ ClaimDue(r) \/ Restore(r)
           /\ UNCHANGED claimed \/ ClaimDue(r) \/ Take(r) \/ FlushThrows(r)
           /\ UNCHANGED source \/ Take(r) \/ FlushEnds(r)
           /\ UNCHANGED ids \/ Take(r) \/ Find(r) \/ Mark(r) \/ Restore(r) \/ FlushThrows(r)
           /\ UNCHANGED items \/ Find(r) \/ Mark(r) \/ Restore(r)
           /\ UNCHANGED digest \/ FlushEnds(r) \/ CreateDigest(r)
<1> USE DEF rows, event, zsets, poller, flush, hist, SetStatus
<1>1. CASE ClaimDue(r) BY <1>1 DEF ClaimDue
<1>2. CASE Take(r) BY <1>2 DEF Take
<1>3. CASE FlushEnds(r) BY <1>3 DEF FlushEnds
<1>4. CASE Find(r) BY <1>4 DEF Find
<1>5. CASE Uncap(r) BY <1>5 DEF Uncap
<1>6. CASE CreateDigest(r) BY <1>6 DEF CreateDigest
<1>7. CASE Settle(r) BY <1>7 DEF Settle
<1>8. CASE Mark(r) BY <1>8 DEF Mark
<1>9. CASE Restore(r) BY <1>9 DEF Restore
<1>10. CASE FanOutStep(Flusher(r)) \/ QueueFails(Flusher(r)) BY <1>10, FanFrame
<1>11. CASE SendThrows(r) BY <1>11 DEF SendThrows
<1>12. CASE FlushThrows(r) BY <1>12 DEF FlushThrows
<1> QED BY <1>1, <1>2, <1>3, <1>4, <1>5, <1>6, <1>7, <1>8, <1>9, <1>10, <1>11, <1>12 DEF FStep, flushDue

LEMMA CrashFrame ==
    ASSUME NEW r \in Replicas, Crash(r)
    PROVE  /\ UNCHANGED <<status, queued, dead, digestOf, decision, parked, night, scheduled, quietQueue, buckets, digestDue>>
           /\ UNCHANGED <<chan, depth, cur, source, digest, pile, polled>> /\ Spend("crash")
           /\ batch' = [batch EXCEPT ![r] = {}] /\ ids' = [ids EXCEPT ![r] = {}]
           /\ claimed' = [claimed EXCEPT ![r] = {}] /\ items' = [items EXCEPT ![r] = {}]
  BY DEF Crash, rows, event, zsets, hist

LEMMA DawnFrame ==
    ASSUME Dawn
    PROVE  /\ UNCHANGED <<status, queued, dead, digestOf, decision, parked, scheduled, quietQueue, buckets, digestDue>>
           /\ UNCHANGED <<pc, chan, batch, depth, cur, claimed, source, ids, items, digest, polled, used>>
  BY DEF Dawn, rows, event, zsets, poller, flush

LEMMA Frozen ==
    ASSUME UNCHANGED vars
    PROVE  /\ UNCHANGED <<status, queued, dead, digestOf, decision, parked, night, scheduled, quietQueue, buckets, digestDue>>
           /\ UNCHANGED <<pc, chan, batch, depth, cur, claimed, source, ids, items, digest, pile, polled, used>>
  BY DEF vars, rows, event, zsets, poller, flush, hist

-----------------------------------------------------------------------------
(***************************************************************************)
(* Type correctness, strengthened by what each program counter says of the *)
(* decision, the member and the digest in hand.                            *)
(***************************************************************************)

AnyPc == ProcessPc \cup ReleasePc \cup FlushPc
Releasing == {"defer", "deferStatus", "deferBucket", "resume", "resumeStatus", "failed", "queue", "publish"}
Flushing == {"find", "uncap", "create", "settle", "mark", "restore", "queue", "publish"}
Sending == {"settle", "mark", "queue", "publish"}

PcTypes ==
    /\ pc \in [Actors -> AnyPc] /\ chan \in [Actors -> Channels]
    /\ \A n \in Notifications : pc[n] \in ProcessPc
    /\ \A r \in Replicas : pc[Releaser(r)] \in ReleasePc /\ pc[Flusher(r)] \in FlushPc

RowTypes ==
    /\ status \in [Rows -> NotificationStatus \cup {"absent"}]
    /\ queued \in [Rows -> [Channels -> Nat]] /\ dead \in [Rows -> SUBSET Channels]
    /\ digestOf \in [Digests -> SUBSET Notifications]

EventTypes ==
    /\ decision \in [Notifications -> AllDecisions \cup {None}] /\ parked \subseteq Notifications
    /\ night \in BOOLEAN
    /\ \A n \in Notifications :
          /\ pc[n] = "hold" => decision[n] \in AllDecisions
          /\ pc[n] = "bucket" => decision[n] \in {"hourly", "daily", "capped"}
          /\ pc[n] = "quietQueue" => decision[n] = "quiet"
          /\ pc[n] = "schedule" => decision[n] \in {"quiet", "sto"}
          /\ pc[n] \in FanPc => decision[n] = "now"

SetTypes ==
    /\ scheduled \subseteq Notifications /\ quietQueue \subseteq Notifications
    /\ buckets \in [Sources -> SUBSET Notifications] /\ digestDue \subseteq Sources

PollTypes ==
    /\ batch \in [Replicas -> SUBSET Notifications] /\ cur \in [Replicas -> Notifications \cup {None}]
    /\ depth \in [Replicas -> 0..Cardinality(Notifications)]
    /\ \A r \in Replicas : pc[Releaser(r)] \in Releasing => cur[r] \in Notifications

FlushTypes ==
    /\ claimed \in [Replicas -> SUBSET Sources] /\ source \in [Replicas -> Sources \cup {None}]
    /\ ids \in [Replicas -> SUBSET Notifications] /\ items \in [Replicas -> SUBSET Notifications]
    /\ digest \in [Replicas -> Digests \cup {None}]
    /\ \A r \in Replicas : /\ pc[Flusher(r)] \in Flushing => source[r] \in Sources
                           /\ pc[Flusher(r)] \in Sending => digest[r] \in Digests

HistTypes == pile \subseteq Notifications /\ polled \subseteq Replicas /\ used \subseteq Faults

Types == PcTypes /\ RowTypes /\ EventTypes /\ SetTypes /\ PollTypes /\ FlushTypes /\ HistTypes

\* Actor a moves to l, the others stay.
Moves(a, l) ==
    /\ pc' \in [Actors -> AnyPc] /\ chan' \in [Actors -> Channels] /\ pc'[a] = l
    /\ \A b \in Actors : b # a => pc'[b] = pc[b] /\ chan'[b] = chan[b]

LEMMA PcSets ==
    /\ {"route", "hold", "quietQueue", "schedule", "bucket", "done", "queue", "publish"} = ProcessPc
    /\ {"idle", "depth", "next", "defer", "deferStatus", "deferBucket", "resume", "resumeStatus", "failed",
        "queue", "publish"} = ReleasePc
    /\ {"idle", "next", "find", "uncap", "create", "settle", "mark", "restore", "queue", "publish"} = FlushPc
    /\ ProcessPc \subseteq AnyPc /\ ReleasePc \subseteq AnyPc /\ FlushPc \subseteq AnyPc
    /\ FanPc = {"queue", "publish"}
  BY DEF ProcessPc, ReleasePc, FlushPc, FanPc, AnyPc

LEMMA GoMoves ==
    ASSUME PcTypes, NEW a \in Actors, NEW l \in AnyPc
    PROVE  /\ Go(a, l) => Moves(a, l) /\ chan' = chan
           /\ fanOut(a) /\ l = "queue" => Moves(a, l) /\ chan'[a] = 1
           /\ UNCHANGED <<pc, chan>> /\ l = pc[a] => Moves(a, l) /\ chan' = chan
<1>1. 1 \in Channels BY EngineAssumption DEF Channels
<1> QED BY <1>1 DEF Go, fanOut, Moves, PcTypes

LEMMA ChannelMoves ==
    ASSUME PcTypes, NEW a \in Actors, NextChannel(a), After(a) \in AnyPc
    PROVE  \/ Moves(a, "queue") /\ chan'[a] = chan[a] + 1 /\ chan[a] < ChannelCount
           \/ Moves(a, After(a)) /\ chan'[a] = 1 /\ ~(chan[a] < ChannelCount)
<1>1. 1 \in Channels /\ chan[a] \in Channels BY EngineAssumption DEF Channels, PcTypes
<1>2. "queue" \in AnyPc BY PcSets
<1>3. CASE chan[a] < ChannelCount
  <2>1. chan[a] + 1 \in Channels BY <1>1, <1>3, EngineAssumption DEF Channels
  <2> QED BY <1>2, <1>3, <2>1 DEF NextChannel, Moves, PcTypes
<1>4. CASE ~(chan[a] < ChannelCount) BY <1>1, <1>4 DEF NextChannel, Moves, PcTypes
<1> QED BY <1>3, <1>4

\* Where a step of fanOut leads: one channel on, or back to the caller.
LEMMA FanMoves ==
    ASSUME PcTypes, NEW a \in Actors, FanOutStep(a) \/ QueueFails(a), After(a) \in AnyPc
    PROVE  \/ Moves(a, "publish") /\ chan' = chan
           \/ Moves(a, "queue") /\ chan'[a] = chan[a] + 1 /\ chan[a] < ChannelCount
           \/ Moves(a, After(a)) /\ chan'[a] = 1 /\ ~(chan[a] < ChannelCount)
<1>1. "publish" \in AnyPc BY PcSets
<1>2. CASE Queue(a) BY <1>1, <1>2, GoMoves, ChannelMoves DEF Queue, deadLetter
<1>3. CASE PublishChannel(a) BY <1>3, ChannelMoves DEF PublishChannel
<1>4. CASE QueueFails(a) BY <1>4, ChannelMoves DEF QueueFails, deadLetter
<1> QED BY <1>2, <1>3, <1>4 DEF FanOutStep

\* Where each step of an actor leads.
LEMMA NMoves ==
    ASSUME PcTypes, EventTypes, NEW n \in Notifications, NStep(n)
    PROVE  \E l \in ProcessPc : Moves(n, l)
<1>0. n \in Actors /\ After(n) = "done" BY NotificationFacts
<1>1. CASE Route(n) BY <1>0, <1>1, GoMoves, PcSets DEF Route
<1>2. CASE Hold(n)
  <2>1. decision[n] \in AllDecisions BY <1>2 DEF Hold, EventTypes
  <2>2. fanOut(n) \/ Go(n, "bucket") \/ Go(n, "quietQueue") \/ Go(n, "schedule") \/ Go(n, "done")
    BY <1>2, <2>1 DEF Hold, AllDecisions
  <2> QED BY <1>0, <2>2, GoMoves, PcSets
<1>3. CASE Bucket(n) BY <1>0, <1>3, GoMoves, PcSets DEF Bucket
<1>4. CASE QuietQueue(n) BY <1>0, <1>4, GoMoves, PcSets DEF QuietQueue
<1>5. CASE scheduleRelease(n) BY <1>0, <1>5, GoMoves, PcSets DEF scheduleRelease
<1>6. CASE FanOutStep(n) \/ QueueFails(n) BY <1>0, <1>6, FanMoves, PcSets
<1>7. CASE EngineThrows(n) BY <1>0, <1>7, GoMoves, PcSets DEF EngineThrows
<1> QED BY <1>1, <1>2, <1>3, <1>4, <1>5, <1>6, <1>7 DEF NStep, process

LEMMA RMoves ==
    ASSUME PcTypes, NEW r \in Replicas, RStep(r)
    PROVE  \E l \in ReleasePc : Moves(Releaser(r), l)
<1>0. Releaser(r) \in Actors /\ After(Releaser(r)) = "next" BY ActorFacts
<1>a. pc[Releaser(r)] \in ReleasePc BY DEF PcTypes
<1>1. CASE Poll(r) BY <1>0, <1>1, GoMoves, PcSets DEF Poll
<1>2. CASE Depth(r) BY <1>0, <1>2, GoMoves, PcSets DEF Depth
<1>3. CASE Claim(r)
  <2>1. Go(Releaser(r), "idle") \/ UNCHANGED <<pc, chan>> \/ Go(Releaser(r), "defer") \/ Go(Releaser(r), "resume")
    BY <1>3 DEF Claim
  <2> QED BY <1>0, <1>a, <2>1, GoMoves, PcSets
<1>4. CASE Defer(r) BY <1>0, <1>4, GoMoves, PcSets DEF Defer
<1>5. CASE DeferStatus(r) BY <1>0, <1>5, GoMoves, PcSets DEF DeferStatus
<1>6. CASE DeferBucket(r) BY <1>0, <1>6, GoMoves, PcSets DEF DeferBucket
<1>7. CASE Resume(r)
  <2>1. Go(Releaser(r), "resumeStatus") \/ fanOut(Releaser(r)) \/ Go(Releaser(r), "next") BY <1>7 DEF Resume
  <2> QED BY <1>0, <2>1, GoMoves, PcSets
<1>8. CASE ResumeStatus(r) BY <1>0, <1>8, GoMoves, PcSets DEF ResumeStatus
<1>9. CASE Reschedule(r) BY <1>0, <1>9, GoMoves, PcSets DEF Reschedule
<1>10. CASE FanOutStep(Releaser(r)) \/ QueueFails(Releaser(r)) BY <1>0, <1>10, FanMoves, PcSets
<1>11. CASE ReleaseThrows(r) BY <1>0, <1>11, GoMoves, PcSets DEF ReleaseThrows
<1> QED BY <1>1, <1>2, <1>3, <1>4, <1>5, <1>6, <1>7, <1>8, <1>9, <1>10, <1>11 DEF RStep, releaseDue

LEMMA FMoves ==
    ASSUME PcTypes, NEW r \in Replicas, FStep(r)
    PROVE  \E l \in FlushPc : Moves(Flusher(r), l)
<1>0. Flusher(r) \in Actors /\ After(Flusher(r)) = "settle" BY ActorFacts
<1>a. pc[Flusher(r)] \in FlushPc BY DEF PcTypes
<1>1. CASE ClaimDue(r) BY <1>0, <1>1, GoMoves, PcSets DEF ClaimDue
<1>2. CASE Take(r)
  <2>1. Go(Flusher(r), "next") \/ Go(Flusher(r), "find") BY <1>2 DEF Take
  <2> QED BY <1>0, <2>1, GoMoves, PcSets
<1>3. CASE FlushEnds(r) BY <1>0, <1>3, GoMoves, PcSets DEF FlushEnds
<1>4. CASE Find(r)
  <2>1. Go(Flusher(r), "restore") \/ Go(Flusher(r), "next") \/ Go(Flusher(r), "uncap") BY <1>4 DEF Find
  <2> QED BY <1>0, <2>1, GoMoves, PcSets
<1>5. CASE Uncap(r) BY <1>0, <1>5, GoMoves, PcSets DEF Uncap
<1>6. CASE CreateDigest(r) BY <1>0, <1>6, GoMoves, PcSets DEF CreateDigest
<1>7. CASE Settle(r)
  <2>1. Go(Flusher(r), "restore") \/ Go(Flusher(r), "mark") BY <1>7 DEF Settle
  <2> QED BY <1>0, <2>1, GoMoves, PcSets
<1>8. CASE Mark(r)
  <2>1. Go(Flusher(r), "next") \/ UNCHANGED <<pc, chan>> BY <1>8 DEF Mark
  <2> QED BY <1>0, <1>a, <2>1, GoMoves, PcSets
<1>9. CASE Restore(r) BY <1>0, <1>9, GoMoves, PcSets DEF Restore
<1>10. CASE FanOutStep(Flusher(r)) \/ QueueFails(Flusher(r)) BY <1>0, <1>10, FanMoves, PcSets
<1>11. CASE SendThrows(r) BY <1>0, <1>11, GoMoves, PcSets DEF SendThrows
<1>12. CASE FlushThrows(r) BY <1>0, <1>12, GoMoves, PcSets DEF FlushThrows
<1> QED BY <1>1, <1>2, <1>3, <1>4, <1>5, <1>6, <1>7, <1>8, <1>9, <1>10, <1>11, <1>12 DEF FStep, flushDue

\* A crash stops a replica's pollers and some of the process() runs.
LEMMA CrashMoves ==
    ASSUME PcTypes, NEW r \in Replicas, Crash(r)
    PROVE  /\ pc' \in [Actors -> AnyPc] /\ UNCHANGED chan
           /\ \A n \in Notifications : pc'[n] = pc[n] \/ pc'[n] = "done"
           /\ pc'[Releaser(r)] = "idle" /\ pc'[Flusher(r)] = "idle"
           /\ \A q \in Replicas : q # r => pc'[Releaser(q)] = pc[Releaser(q)] /\ pc'[Flusher(q)] = pc[Flusher(q)]
<1>1. PICK dying \in SUBSET {n \in Notifications : pc[n] \notin {"route", "done"}} :
          pc' = [a \in Actors |-> IF a \in {Releaser(r), Flusher(r)} THEN "idle"
                                  ELSE IF a \in dying THEN "done" ELSE pc[a]]
  BY DEF Crash
<1>2. pc' \in [Actors -> AnyPc]
  <2>1. "idle" \in AnyPc /\ "done" \in AnyPc BY PcSets
  <2> QED BY <1>1, <2>1 DEF PcTypes
<1>3. \A n \in Notifications : pc'[n] = pc[n] \/ pc'[n] = "done"
  BY <1>1, ActorFacts, NotificationFacts
<1>4. pc'[Releaser(r)] = "idle" /\ pc'[Flusher(r)] = "idle" BY <1>1, ActorFacts
<1>5. ASSUME NEW q \in Replicas, q # r PROVE pc'[Releaser(q)] = pc[Releaser(q)] /\ pc'[Flusher(q)] = pc[Flusher(q)]
  <2>1. /\ Releaser(q) \in Actors /\ Flusher(q) \in Actors /\ Releaser(q) \notin dying /\ Flusher(q) \notin dying
        /\ Releaser(q) \notin {Releaser(r), Flusher(r)} /\ Flusher(q) \notin {Releaser(r), Flusher(r)}
    BY <1>5, ActorFacts
  <2> QED BY <1>1, <2>1
<1> QED BY <1>2, <1>3, <1>4, <1>5 DEF Crash

LEMMA PcTypesNext ==
    ASSUME PcTypes, EventTypes, [Next]_vars
    PROVE  PcTypes'
<1>1. ASSUME NEW n \in Notifications, NStep(n) PROVE PcTypes'
  <2>1. PICK l \in ProcessPc : Moves(n, l) BY <1>1, NMoves
  <2> QED BY <2>1, ActorFacts, NotificationFacts DEF Moves, PcTypes
<1>2. ASSUME NEW r \in Replicas, RStep(r) PROVE PcTypes'
  <2>1. PICK l \in ReleasePc : Moves(Releaser(r), l) BY <1>2, RMoves
  <2> QED BY <2>1, ActorFacts, NotificationFacts DEF Moves, PcTypes
<1>3. ASSUME NEW r \in Replicas, FStep(r) PROVE PcTypes'
  <2>1. PICK l \in FlushPc : Moves(Flusher(r), l) BY <1>3, FMoves
  <2> QED BY <2>1, ActorFacts, NotificationFacts DEF Moves, PcTypes
<1>4. CASE Dawn BY <1>4, DawnFrame DEF PcTypes
<1>5. ASSUME NEW r \in Replicas, Crash(r) PROVE PcTypes'
  <2>1. "done" \in ProcessPc /\ "idle" \in ReleasePc /\ "idle" \in FlushPc BY PcSets
  <2> QED BY <1>5, <2>1, CrashMoves DEF PcTypes
<1>6. CASE UNCHANGED vars BY <1>6, Frozen DEF PcTypes
<1> QED BY <1>1, <1>2, <1>3, <1>4, <1>5, <1>6, Steps

\* On to the next channel, or back to the caller.
On(a) ==
    \/ Moves(a, "queue") /\ chan'[a] = chan[a] + 1 /\ chan[a] < ChannelCount
    \/ Moves(a, After(a)) /\ chan'[a] = 1 /\ ~(chan[a] < ChannelCount)

\* The three things a step of fanOut does to row x.
Queues(a, x) ==
    /\ pc[a] = "queue" /\ Moves(a, "publish") /\ chan' = chan /\ queued' = queued /\ used' = used
    /\ chan[a] = 1 => isValidTransition(status[x], "QUEUED")
    /\ status' = IF chan[a] = 1 THEN [status EXCEPT ![x] = "QUEUED"] ELSE status
DeadLetters(a, x) ==
    /\ On(a) /\ queued' = queued
    /\ status' = IF chan[a] = 1 THEN [status EXCEPT ![x] = "DLQ"] ELSE status
    /\ \/ chan[a] = 1 /\ pc[a] = "queue" /\ ~isValidTransition(status[x], "QUEUED") /\ used' = used
       \/ Spend("queueFail")
Publishes(a, x) ==
    /\ pc[a] = "publish" /\ On(a) /\ status' = status /\ used' = used
    /\ queued' = [queued EXCEPT ![x][chan[a]] = @ + 1]

LEMMA FanRows ==
    ASSUME PcTypes, RowTypes, NEW a \in Actors, FanOutStep(a) \/ QueueFails(a), After(a) \in AnyPc, RowOf(a) \in Rows
    PROVE  /\ Queues(a, RowOf(a)) \/ DeadLetters(a, RowOf(a)) \/ Publishes(a, RowOf(a))
           /\ dead' \in [Rows -> SUBSET Channels]
<1>0. chan[a] \in Channels BY DEF PcTypes
<1>1. "publish" \in AnyPc BY PcSets
<1>2. ASSUME NextChannel(a) PROVE On(a) BY <1>2, ChannelMoves DEF On
<1>3. CASE Queue(a)
  <2>1. CASE chan[a] = 1 /\ ~isValidTransition(status[RowOf(a)], "QUEUED")
    <3>1. DeadLetters(a, RowOf(a)) BY <1>2, <1>3, <2>1 DEF Queue, deadLetter, DeadLetters
    <3>2. dead' \in [Rows -> SUBSET Channels] BY <1>0, <1>3, <2>1 DEF Queue, deadLetter, RowTypes
    <3> QED BY <3>1, <3>2
  <2>2. CASE ~(chan[a] = 1 /\ ~isValidTransition(status[RowOf(a)], "QUEUED"))
    <3>1. Go(a, "publish") BY <1>3, <2>2 DEF Queue
    <3>2. Moves(a, "publish") /\ chan' = chan BY <1>1, <3>1, GoMoves
    <3>3. Queues(a, RowOf(a)) BY <1>3, <2>2, <3>2 DEF Queue, Queues
    <3>4. dead' \in [Rows -> SUBSET Channels] BY <1>3, <2>2 DEF Queue, RowTypes
    <3> QED BY <3>3, <3>4
  <2> QED BY <2>1, <2>2
<1>4. CASE PublishChannel(a)
  <2>1. Publishes(a, RowOf(a)) BY <1>2, <1>4 DEF PublishChannel, Publishes
  <2>2. dead' \in [Rows -> SUBSET Channels] BY <1>4 DEF PublishChannel, RowTypes
  <2> QED BY <2>1, <2>2
<1>5. CASE QueueFails(a)
  <2>1. DeadLetters(a, RowOf(a)) BY <1>2, <1>5 DEF QueueFails, deadLetter, DeadLetters
  <2>2. dead' \in [Rows -> SUBSET Channels] BY <1>0, <1>5 DEF QueueFails, deadLetter, RowTypes
  <2> QED BY <2>1, <2>2
<1> QED BY <1>3, <1>4, <1>5 DEF FanOutStep

LEMMA FanRowTypes ==
    ASSUME PcTypes, RowTypes, NEW a \in Actors, FanOutStep(a) \/ QueueFails(a), After(a) \in AnyPc, RowOf(a) \in Rows
    PROVE  RowTypes'
<1>1. digestOf' = digestOf BY FanFrame
<1>2. {"QUEUED", "DLQ"} \subseteq NotificationStatus BY DEF NotificationStatus
<1>3. status' \in [Rows -> NotificationStatus \cup {"absent"}]
  BY <1>2, FanRows DEF RowTypes, Queues, DeadLetters, Publishes
<1>4. queued' \in [Rows -> [Channels -> Nat]]
  <2>1. chan[a] \in Channels BY DEF PcTypes
  <2>2. queued \in [Rows -> [Channels -> Nat]] BY DEF RowTypes
  <2>3. queued' = queued \/ queued' = [queued EXCEPT ![RowOf(a)][chan[a]] = @ + 1]
    BY FanRows DEF Queues, DeadLetters, Publishes
  <2>4. queued[RowOf(a)][chan[a]] + 1 \in Nat BY <2>1, <2>2
  <2> QED BY <2>1, <2>2, <2>3, <2>4
<1> QED BY <1>1, <1>3, <1>4, FanRows DEF RowTypes

\* Rows that one status is written to keep their types.
LEMMA SetTypesRows ==
    ASSUME RowTypes, NEW x \in Rows, NEW s \in NotificationStatus, SetStatus(x, s)
    PROVE  RowTypes'
  BY DEF RowTypes, SetStatus

LEMMA SameRows ==
    ASSUME RowTypes, UNCHANGED rows
    PROVE  RowTypes'
  BY DEF RowTypes, rows

LEMMA RowTypesNext ==
    ASSUME PcTypes, RowTypes, EventTypes, PollTypes, FlushTypes, [Next]_vars
    PROVE  RowTypes'
<1>a. /\ "ENRICHED" \in NotificationStatus /\ "DIGEST_PENDING" \in NotificationStatus /\ "QUIET" \in NotificationStatus
      /\ "CAPPED" \in NotificationStatus /\ "ROUTED" \in NotificationStatus /\ "DIGESTED" \in NotificationStatus
  BY DEF NotificationStatus
<1>b. "done" \in AnyPc /\ "next" \in AnyPc /\ "settle" \in AnyPc BY PcSets
<1>1. ASSUME NEW n \in Notifications, NStep(n) PROVE RowTypes'
  <2>0. n \in Rows /\ n \in Actors /\ RowOf(n) = n /\ After(n) = "done" BY NotificationFacts
  <2>1. CASE Route(n) BY <1>a, <2>0, <2>1, SetTypesRows DEF Route
  <2>2. CASE Hold(n)
    <3>1. \E s \in NotificationStatus : SetStatus(n, s) BY <1>a, <2>2 DEF Hold
    <3> QED BY <2>0, <3>1, SetTypesRows
  <2>3. CASE Bucket(n) BY <2>3, SameRows DEF Bucket
  <2>4. CASE QuietQueue(n) BY <2>4, SameRows DEF QuietQueue
  <2>5. CASE scheduleRelease(n) BY <2>5, SameRows DEF scheduleRelease
  <2>6. CASE FanOutStep(n) \/ QueueFails(n) BY <1>b, <2>0, <2>6, FanRowTypes
  <2>7. CASE EngineThrows(n) BY <2>7, SameRows DEF EngineThrows
  <2> QED BY <1>1, <2>1, <2>2, <2>3, <2>4, <2>5, <2>6, <2>7 DEF NStep, process
<1>2. ASSUME NEW r \in Replicas, RStep(r) PROVE RowTypes'
  <2>0. Releaser(r) \in Actors /\ RowOf(Releaser(r)) = cur[r] /\ After(Releaser(r)) = "next" BY ActorFacts
  <2>a. pc[Releaser(r)] \in Releasing => cur[r] \in Rows BY NotificationFacts DEF PollTypes
  <2>1. CASE Poll(r) BY <2>1, SameRows DEF Poll
  <2>2. CASE Depth(r) BY <2>2, SameRows DEF Depth
  <2>3. CASE Claim(r) BY <2>3, SameRows DEF Claim
  <2>4. CASE Defer(r) BY <2>4, SameRows DEF Defer
  <2>5. CASE DeferStatus(r) BY <1>a, <2>a, <2>5, SetTypesRows DEF DeferStatus, Releasing
  <2>6. CASE DeferBucket(r) BY <2>6, SameRows DEF DeferBucket
  <2>7. CASE Resume(r) BY <2>7, SameRows DEF Resume
  <2>8. CASE ResumeStatus(r) BY <1>a, <2>a, <2>8, SetTypesRows DEF ResumeStatus, Releasing
  <2>9. CASE Reschedule(r) BY <2>9, SameRows DEF Reschedule
  <2>10. CASE FanOutStep(Releaser(r)) \/ QueueFails(Releaser(r))
    <3>1. pc[Releaser(r)] \in FanPc BY <2>10, FanFrame
    <3>2. RowOf(Releaser(r)) \in Rows BY <2>0, <2>a, <3>1 DEF FanPc, Releasing
    <3> QED BY <1>b, <2>0, <2>10, <3>2, FanRowTypes
  <2>11. CASE ReleaseThrows(r) BY <2>11, SameRows DEF ReleaseThrows
  <2> QED BY <1>2, <2>1, <2>2, <2>3, <2>4, <2>5, <2>6, <2>7, <2>8, <2>9, <2>10, <2>11 DEF RStep, releaseDue
<1>3. ASSUME NEW r \in Replicas, FStep(r) PROVE RowTypes'
  <2>0. Flusher(r) \in Actors /\ RowOf(Flusher(r)) = digest[r] /\ After(Flusher(r)) = "settle" BY ActorFacts
  <2>a. pc[Flusher(r)] \in Sending => digest[r] \in Rows BY DEF FlushTypes, Rows
  <2>b. items[r] \subseteq Notifications BY DEF FlushTypes
  <2>1. CASE ClaimDue(r) BY <2>1, SameRows DEF ClaimDue
  <2>2. CASE Take(r) BY <2>2, SameRows DEF Take
  <2>3. CASE FlushEnds(r) BY <2>3, SameRows DEF FlushEnds
  <2>4. CASE Find(r) BY <2>4, SameRows DEF Find
  <2>5. CASE Uncap(r) BY <1>a, <2>5 DEF Uncap, RowTypes
  <2>6. CASE CreateDigest(r)
    <3>1. PICK d \in Digests : status' = [status EXCEPT ![d] = "ROUTED"] /\ digestOf' = [digestOf EXCEPT ![d] = items[r]]
      BY <2>6 DEF CreateDigest
    <3>2. queued' = queued /\ dead' = dead BY <2>6 DEF CreateDigest
    <3>3. d \in Rows BY DEF Rows
    <3> QED BY <1>a, <2>b, <3>1, <3>2, <3>3 DEF RowTypes
  <2>7. CASE Settle(r) BY <2>7, SameRows DEF Settle
  <2>8. CASE Mark(r)
    <3>1. CASE items[r] = {} BY <2>8, <3>1, SameRows DEF Mark
    <3>2. CASE items[r] # {}
      <4>1. PICK n \in items[r] : SetStatus(n, "DIGESTED") BY <2>8, <3>2 DEF Mark
      <4>2. n \in Rows BY <2>b, NotificationFacts
      <4> QED BY <1>a, <4>1, <4>2, SetTypesRows
    <3> QED BY <3>1, <3>2
  <2>9. CASE Restore(r) BY <2>9, SameRows DEF Restore
  <2>10. CASE FanOutStep(Flusher(r)) \/ QueueFails(Flusher(r))
    <3>1. pc[Flusher(r)] \in FanPc BY <2>10, FanFrame
    <3>2. RowOf(Flusher(r)) \in Rows BY <2>0, <2>a, <3>1 DEF FanPc, Sending
    <3> QED BY <1>b, <2>0, <2>10, <3>2, FanRowTypes
  <2>11. CASE SendThrows(r) BY <2>11, SameRows DEF SendThrows
  <2>12. CASE FlushThrows(r) BY <2>12, SameRows DEF FlushThrows
  <2> QED BY <1>3, <2>1, <2>2, <2>3, <2>4, <2>5, <2>6, <2>7, <2>8, <2>9, <2>10, <2>11, <2>12 DEF FStep, flushDue
<1>4. CASE Dawn BY <1>4, SameRows DEF Dawn
<1>5. ASSUME NEW r \in Replicas, Crash(r) PROVE RowTypes' BY <1>5, SameRows DEF Crash
<1>6. CASE UNCHANGED vars BY <1>6, SameRows DEF vars
<1> QED BY <1>1, <1>2, <1>3, <1>4, <1>5, <1>6, Steps

\* A notification's program counter is moved by its own process() and by a crash only.
LEMMA ProcessPcs ==
    ASSUME PcTypes, EventTypes, [Next]_vars, NEW m \in Notifications
    PROVE  pc'[m] = pc[m] \/ NStep(m) \/ pc'[m] = "done"
<1>1. ASSUME NEW n \in Notifications, NStep(n) PROVE pc'[m] = pc[m] \/ NStep(m)
  <2>1. PICK l \in ProcessPc : Moves(n, l) BY <1>1, NMoves
  <2> QED BY <1>1, <2>1, NotificationFacts DEF Moves
<1>2. ASSUME NEW r \in Replicas, RStep(r) PROVE pc'[m] = pc[m]
  <2>1. PICK l \in ReleasePc : Moves(Releaser(r), l) BY <1>2, RMoves
  <2> QED BY <2>1, ActorFacts, NotificationFacts DEF Moves
<1>3. ASSUME NEW r \in Replicas, FStep(r) PROVE pc'[m] = pc[m]
  <2>1. PICK l \in FlushPc : Moves(Flusher(r), l) BY <1>3, FMoves
  <2> QED BY <2>1, ActorFacts, NotificationFacts DEF Moves
<1>4. CASE Dawn BY <1>4, DawnFrame
<1>5. ASSUME NEW r \in Replicas, Crash(r) PROVE pc'[m] = pc[m] \/ pc'[m] = "done" BY <1>5, CrashMoves
<1>6. CASE UNCHANGED vars BY <1>6, Frozen
<1> QED BY <1>1, <1>2, <1>3, <1>4, <1>5, <1>6, Steps

\* Nobody but Route writes a decision.
LEMMA DecisionKept ==
    ASSUME [Next]_vars
    PROVE  UNCHANGED decision \/ \E n \in Notifications : Route(n)
<1>1. ASSUME NEW n \in Notifications, NStep(n) PROVE UNCHANGED decision \/ Route(n) BY <1>1, NFrame
<1>2. ASSUME NEW r \in Replicas, RStep(r) PROVE UNCHANGED decision BY <1>2, RFrame
<1>3. ASSUME NEW r \in Replicas, FStep(r) PROVE UNCHANGED decision BY <1>3, FFrame
<1>4. CASE Dawn BY <1>4, DawnFrame
<1>5. ASSUME NEW r \in Replicas, Crash(r) PROVE UNCHANGED decision BY <1>5, CrashFrame
<1>6. CASE UNCHANGED vars BY <1>6, Frozen
<1> QED BY <1>1, <1>2, <1>3, <1>4, <1>5, <1>6, Steps

\* What a step of process(n) that moves it says of its decision.
DecisionFits(n) ==
    /\ pc[n] = "hold" => decision[n] \in AllDecisions
    /\ pc[n] = "bucket" => decision[n] \in {"hourly", "daily", "capped"}
    /\ pc[n] = "quietQueue" => decision[n] = "quiet"
    /\ pc[n] = "schedule" => decision[n] \in {"quiet", "sto"}
    /\ pc[n] \in FanPc => decision[n] = "now"

LEMMA DecisionFitsNext ==
    ASSUME PcTypes, EventTypes, NEW n \in Notifications, NStep(n)
    PROVE  DecisionFits(n)'
<1>0. n \in Actors /\ After(n) = "done" BY NotificationFacts
<1>a. /\ "hold" \in AnyPc /\ "done" \in AnyPc /\ "bucket" \in AnyPc /\ "quietQueue" \in AnyPc
      /\ "schedule" \in AnyPc /\ "queue" \in AnyPc /\ FanPc = {"queue", "publish"}
  BY PcSets
<1> USE DEF DecisionFits
<1>1. CASE Route(n)
  <2>1. Moves(n, "hold") BY <1>0, <1>a, <1>1, GoMoves DEF Route
  <2>2. decision'[n] \in Decisions BY <1>1 DEF Route, EventTypes
  <2> QED BY <1>a, <2>1, <2>2, EngineAssumption DEF Moves
<1>2. CASE Hold(n)
  <2>0. UNCHANGED decision BY <1>2 DEF Hold, event
  <2>1. decision[n] \in AllDecisions BY <1>2 DEF Hold, EventTypes
  <2>2. CASE decision[n] = "now"
    <3>1. fanOut(n) BY <1>2, <2>2 DEF Hold
    <3>2. Moves(n, "queue") BY <1>0, <1>a, <3>1, GoMoves
    <3> QED BY <1>a, <2>0, <2>2, <3>2 DEF Moves
  <2>3. CASE decision[n] \in {"hourly", "daily", "capped"}
    <3>1. Go(n, "bucket") BY <1>2, <2>3 DEF Hold
    <3>2. Moves(n, "bucket") BY <1>0, <1>a, <3>1, GoMoves
    <3> QED BY <1>a, <2>0, <2>3, <3>2 DEF Moves
  <2>4. CASE decision[n] = "quiet"
    <3>1. Go(n, "quietQueue") BY <1>2, <2>4 DEF Hold
    <3>2. Moves(n, "quietQueue") BY <1>0, <1>a, <3>1, GoMoves
    <3> QED BY <1>a, <2>0, <2>4, <3>2 DEF Moves
  <2>5. CASE decision[n] = "sto"
    <3>1. Go(n, "schedule") BY <1>2, <2>5 DEF Hold
    <3>2. Moves(n, "schedule") BY <1>0, <1>a, <3>1, GoMoves
    <3> QED BY <1>a, <2>0, <2>5, <3>2 DEF Moves
  <2>6. CASE decision[n] = "noTemplate"
    <3>1. Go(n, "done") BY <1>2, <2>6 DEF Hold
    <3>2. Moves(n, "done") BY <1>0, <1>a, <3>1, GoMoves
    <3> QED BY <1>a, <3>2 DEF Moves
  <2> QED BY <2>1, <2>2, <2>3, <2>4, <2>5, <2>6 DEF AllDecisions
<1>3. CASE Bucket(n)
  <2>1. Moves(n, "done") BY <1>0, <1>a, <1>3, GoMoves DEF Bucket
  <2> QED BY <1>a, <2>1 DEF Moves
<1>4. CASE QuietQueue(n)
  <2>1. Moves(n, "schedule") BY <1>0, <1>a, <1>4, GoMoves DEF QuietQueue
  <2>2. decision'[n] = "quiet" BY <1>4 DEF QuietQueue, event, EventTypes
  <2> QED BY <1>a, <2>1, <2>2 DEF Moves
<1>5. CASE scheduleRelease(n)
  <2>1. Moves(n, "done") BY <1>0, <1>a, <1>5, GoMoves DEF scheduleRelease
  <2> QED BY <1>a, <2>1 DEF Moves
<1>6. CASE FanOutStep(n) \/ QueueFails(n)
  <2>1. UNCHANGED decision /\ pc[n] \in FanPc BY <1>6, FanFrame
  <2>2. decision'[n] = "now" BY <2>1 DEF EventTypes
  <2>3. pc'[n] \in {"queue", "publish", "done"} BY <1>0, <1>a, <1>6, FanMoves DEF Moves
  <2> QED BY <1>a, <2>2, <2>3
<1>7. CASE EngineThrows(n)
  <2>1. Moves(n, "done") BY <1>0, <1>a, <1>7, GoMoves DEF EngineThrows
  <2> QED BY <1>a, <2>1 DEF Moves
<1> QED BY <1>1, <1>2, <1>3, <1>4, <1>5, <1>6, <1>7 DEF NStep, process

LEMMA EventTypesNext ==
    ASSUME PcTypes, EventTypes, [Next]_vars
    PROVE  EventTypes'
<1>1. decision' \in [Notifications -> AllDecisions \cup {None}]
  <2>1. ASSUME NEW n \in Notifications, Route(n) PROVE decision' \in [Notifications -> AllDecisions \cup {None}]
    BY <2>1, EngineAssumption DEF Route, EventTypes
  <2> QED BY <2>1, DecisionKept DEF EventTypes
<1>2. parked' \subseteq Notifications
  <2>1. ASSUME NEW n \in Notifications, NStep(n) PROVE parked' \subseteq Notifications
    <3>1. CASE EngineThrows(n) BY <3>1 DEF EngineThrows, EventTypes
    <3> QED BY <2>1, <3>1, NFrame DEF EventTypes
  <2>2. ASSUME NEW r \in Replicas, RStep(r) PROVE parked' \subseteq Notifications BY <2>2, RFrame DEF EventTypes
  <2>3. ASSUME NEW r \in Replicas, FStep(r) PROVE parked' \subseteq Notifications BY <2>3, FFrame DEF EventTypes
  <2>4. CASE Dawn BY <2>4, DawnFrame DEF EventTypes
  <2>5. ASSUME NEW r \in Replicas, Crash(r) PROVE parked' \subseteq Notifications BY <2>5, CrashFrame DEF EventTypes
  <2>6. CASE UNCHANGED vars BY <2>6, Frozen DEF EventTypes
  <2> QED BY <2>1, <2>2, <2>3, <2>4, <2>5, <2>6, Steps
<1>3. night' \in BOOLEAN
  <2>1. ASSUME NEW n \in Notifications, NStep(n) PROVE night' = night BY <2>1, NFrame
  <2>2. ASSUME NEW r \in Replicas, RStep(r) PROVE night' = night BY <2>2, RFrame
  <2>3. ASSUME NEW r \in Replicas, FStep(r) PROVE night' = night BY <2>3, FFrame
  <2>4. CASE Dawn BY <2>4 DEF Dawn
  <2>5. ASSUME NEW r \in Replicas, Crash(r) PROVE night' = night BY <2>5, CrashFrame
  <2>6. CASE UNCHANGED vars BY <2>6, Frozen DEF EventTypes
  <2> QED BY <2>1, <2>2, <2>3, <2>4, <2>5, <2>6, Steps DEF EventTypes
<1>4. ASSUME NEW n \in Notifications PROVE DecisionFits(n)'
  <2>1. CASE NStep(n) BY <2>1, DecisionFitsNext
  <2>2. CASE pc'[n] = "done" BY <2>2, PcSets DEF DecisionFits
  <2>3. CASE pc'[n] = pc[n] /\ ~NStep(n)
    <3>1. decision'[n] = decision[n]
      <4>1. ASSUME NEW m \in Notifications, Route(m) PROVE decision'[n] = decision[n]
        BY <2>3, <4>1 DEF Route, EventTypes, NStep, process
      <4> QED BY <4>1, DecisionKept
    <3> QED BY <2>3, <3>1 DEF DecisionFits, EventTypes
  <2> QED BY <2>1, <2>2, <2>3, ProcessPcs
<1> QED BY <1>1, <1>2, <1>3, <1>4 DEF EventTypes, DecisionFits

LEMMA SetTypesNext ==
    ASSUME PcTypes, EventTypes, SetTypes, PollTypes, FlushTypes, [Next]_vars
    PROVE  SetTypes'
<1> USE DEF SetTypes
<1>1. ASSUME NEW n \in Notifications, NStep(n) PROVE SetTypes'
  <2>1. CASE Bucket(n)
    <3>1. decision[n] \in Sources BY <2>1 DEF Bucket, EventTypes, Sources
    <3> QED BY <2>1, <3>1 DEF Bucket, add
  <2>2. CASE QuietQueue(n) BY <2>2 DEF QuietQueue
  <2>3. CASE scheduleRelease(n) BY <2>3 DEF scheduleRelease
  <2> QED BY <1>1, <2>1, <2>2, <2>3, NFrame
<1>2. ASSUME NEW r \in Replicas, RStep(r) PROVE SetTypes'
  <2>1. CASE Claim(r)
    <3>1. scheduled' \subseteq Notifications BY <2>1 DEF Claim
    <3> QED BY <2>1, <3>1 DEF Claim
  <2>2. CASE Reschedule(r) BY <2>2 DEF Reschedule, PollTypes, Releasing
  <2>3. CASE Defer(r)
    <3>1. quietQueue' \subseteq Notifications BY <2>3 DEF Defer
    <3> QED BY <2>3, <3>1 DEF Defer
  <2>4. CASE Resume(r)
    <3>1. quietQueue' \subseteq Notifications BY <2>4 DEF Resume
    <3> QED BY <2>4, <3>1 DEF Resume
  <2>5. CASE DeferBucket(r)
    <3>1. "quiet" \in Sources /\ cur[r] \in Notifications BY <2>5 DEF DeferBucket, PollTypes, Releasing, Sources
    <3> QED BY <2>5, <3>1 DEF DeferBucket, add
  <2> QED BY <1>2, <2>1, <2>2, <2>3, <2>4, <2>5, RFrame
<1>3. ASSUME NEW r \in Replicas, FStep(r) PROVE SetTypes'
  <2>1. CASE Take(r)
    <3>1. PICK s \in claimed[r] : buckets' = [buckets EXCEPT ![s] = {}] BY <2>1 DEF Take
    <3> QED BY <2>1, <3>1 DEF Take
  <2>2. CASE Restore(r)
    <3>1. source[r] \in Sources /\ ids[r] \subseteq Notifications BY <2>2 DEF Restore, FlushTypes, Flushing
    <3> QED BY <2>2, <3>1 DEF Restore
  <2>3. CASE ClaimDue(r)
    <3>1. digestDue' \subseteq Sources BY <2>3 DEF ClaimDue
    <3> QED BY <2>3, <3>1 DEF ClaimDue
  <2> QED BY <1>3, <2>1, <2>2, <2>3, FFrame
<1>4. CASE Dawn BY <1>4, DawnFrame
<1>5. ASSUME NEW r \in Replicas, Crash(r) PROVE SetTypes' BY <1>5, CrashFrame
<1>6. CASE UNCHANGED vars BY <1>6, Frozen
<1> QED BY <1>1, <1>2, <1>3, <1>4, <1>5, <1>6, Steps

\* The pollers and flushers: who moves whom.
LEMMA ReleaserPcs ==
    ASSUME PcTypes, EventTypes, [Next]_vars, NEW q \in Replicas
    PROVE  pc'[Releaser(q)] = pc[Releaser(q)] \/ RStep(q) \/ (Crash(q) /\ pc'[Releaser(q)] = "idle")
<1>1. ASSUME NEW n \in Notifications, NStep(n) PROVE pc'[Releaser(q)] = pc[Releaser(q)]
  <2>1. PICK l \in ProcessPc : Moves(n, l) BY <1>1, NMoves
  <2> QED BY <2>1, ActorFacts DEF Moves
<1>2. ASSUME NEW r \in Replicas, RStep(r), r # q PROVE pc'[Releaser(q)] = pc[Releaser(q)]
  <2>1. PICK l \in ReleasePc : Moves(Releaser(r), l) BY <1>2, RMoves
  <2> QED BY <1>2, <2>1, ActorFacts DEF Moves
<1>3. ASSUME NEW r \in Replicas, FStep(r) PROVE pc'[Releaser(q)] = pc[Releaser(q)]
  <2>1. PICK l \in FlushPc : Moves(Flusher(r), l) BY <1>3, FMoves
  <2> QED BY <2>1, ActorFacts DEF Moves
<1>4. CASE Dawn BY <1>4, DawnFrame
<1>5. ASSUME NEW r \in Replicas, Crash(r) PROVE pc'[Releaser(q)] = pc[Releaser(q)] \/ (Crash(q) /\ pc'[Releaser(q)] = "idle")
  BY <1>5, CrashMoves
<1>6. CASE UNCHANGED vars BY <1>6, Frozen
<1> QED BY <1>1, <1>2, <1>3, <1>4, <1>5, <1>6, Steps

LEMMA FlusherPcs ==
    ASSUME PcTypes, EventTypes, [Next]_vars, NEW q \in Replicas
    PROVE  pc'[Flusher(q)] = pc[Flusher(q)] \/ FStep(q) \/ (Crash(q) /\ pc'[Flusher(q)] = "idle")
<1>1. ASSUME NEW n \in Notifications, NStep(n) PROVE pc'[Flusher(q)] = pc[Flusher(q)]
  <2>1. PICK l \in ProcessPc : Moves(n, l) BY <1>1, NMoves
  <2> QED BY <2>1, ActorFacts DEF Moves
<1>2. ASSUME NEW r \in Replicas, RStep(r) PROVE pc'[Flusher(q)] = pc[Flusher(q)]
  <2>1. PICK l \in ReleasePc : Moves(Releaser(r), l) BY <1>2, RMoves
  <2> QED BY <2>1, ActorFacts DEF Moves
<1>3. ASSUME NEW r \in Replicas, FStep(r), r # q PROVE pc'[Flusher(q)] = pc[Flusher(q)]
  <2>1. PICK l \in FlushPc : Moves(Flusher(r), l) BY <1>3, FMoves
  <2> QED BY <1>3, <2>1, ActorFacts DEF Moves
<1>4. CASE Dawn BY <1>4, DawnFrame
<1>5. ASSUME NEW r \in Replicas, Crash(r) PROVE pc'[Flusher(q)] = pc[Flusher(q)] \/ (Crash(q) /\ pc'[Flusher(q)] = "idle")
  BY <1>5, CrashMoves
<1>6. CASE UNCHANGED vars BY <1>6, Frozen
<1> QED BY <1>1, <1>2, <1>3, <1>4, <1>5, <1>6, Steps

\* Where each step of a poller starts and leads.
LEMMA RSteps ==
    ASSUME PcTypes, NEW r \in Replicas, RStep(r)
    PROVE  LET a == Releaser(r)
           IN \/ Poll(r) /\ Moves(a, "depth")
              \/ Depth(r) /\ Moves(a, "next")
              \/ Claim(r) /\ (Moves(a, "idle") \/ Moves(a, "next") \/ Moves(a, "defer") \/ Moves(a, "resume"))
              \/ Defer(r) /\ (Moves(a, "deferStatus") \/ Moves(a, "next"))
              \/ DeferStatus(r) /\ Moves(a, "deferBucket")
              \/ DeferBucket(r) /\ Moves(a, "next")
              \/ Resume(r) /\ (Moves(a, "resumeStatus") \/ (Moves(a, "queue") /\ chan'[a] = 1) \/ Moves(a, "next"))
              \/ ResumeStatus(r) /\ Moves(a, "queue") /\ chan'[a] = 1
              \/ Reschedule(r) /\ Moves(a, "next")
              \/ (FanOutStep(a) \/ QueueFails(a)) /\ (Moves(a, "publish") \/ Moves(a, "queue") \/ Moves(a, "next"))
              \/ ReleaseThrows(r) /\ Moves(a, "failed")
<1> DEFINE a == Releaser(r)
<1>0. a \in Actors /\ After(a) = "next" BY ActorFacts
<1>a. \A l \in {"idle", "depth", "next", "defer", "deferStatus", "deferBucket", "resume", "resumeStatus", "failed", "queue", "publish"} : l \in AnyPc
  BY PcSets
<1> HIDE DEF a
<1>1. CASE Poll(r) BY <1>0, <1>a, <1>1, GoMoves DEF Poll, a
<1>2. CASE Depth(r) BY <1>0, <1>a, <1>2, GoMoves DEF Depth, a
<1>3. CASE Claim(r)
  <2>1. Go(a, "idle") \/ UNCHANGED <<pc, chan>> \/ Go(a, "defer") \/ Go(a, "resume") BY <1>3 DEF Claim, a
  <2>2. pc[a] = "next" BY <1>3 DEF Claim, a
  <2> QED BY <1>0, <1>a, <1>3, <2>1, <2>2, GoMoves DEF a
<1>4. CASE Defer(r) BY <1>0, <1>a, <1>4, GoMoves DEF Defer, a
<1>5. CASE DeferStatus(r) BY <1>0, <1>a, <1>5, GoMoves DEF DeferStatus, a
<1>6. CASE DeferBucket(r) BY <1>0, <1>a, <1>6, GoMoves DEF DeferBucket, a
<1>7. CASE Resume(r)
  <2>1. Go(a, "resumeStatus") \/ fanOut(a) \/ Go(a, "next") BY <1>7 DEF Resume, a
  <2> QED BY <1>0, <1>a, <1>7, <2>1, GoMoves DEF a
<1>8. CASE ResumeStatus(r) BY <1>0, <1>a, <1>8, GoMoves DEF ResumeStatus, a
<1>9. CASE Reschedule(r) BY <1>0, <1>a, <1>9, GoMoves DEF Reschedule, a
<1>10. CASE FanOutStep(a) \/ QueueFails(a) BY <1>0, <1>a, <1>10, FanMoves DEF a
<1>11. CASE ReleaseThrows(r) BY <1>0, <1>a, <1>11, GoMoves DEF ReleaseThrows, a
<1> QED BY <1>1, <1>2, <1>3, <1>4, <1>5, <1>6, <1>7, <1>8, <1>9, <1>10, <1>11 DEF RStep, releaseDue, a

\* The same for a flusher.
LEMMA FSteps ==
    ASSUME PcTypes, NEW r \in Replicas, FStep(r)
    PROVE  LET a == Flusher(r)
           IN \/ ClaimDue(r) /\ Moves(a, "next")
              \/ Take(r) /\ (Moves(a, "next") \/ Moves(a, "find"))
              \/ FlushEnds(r) /\ Moves(a, "idle")
              \/ Find(r) /\ (Moves(a, "restore") \/ Moves(a, "next") \/ Moves(a, "uncap"))
              \/ Uncap(r) /\ Moves(a, "create")
              \/ CreateDigest(r) /\ Moves(a, "queue") /\ chan'[a] = 1
              \/ Settle(r) /\ (Moves(a, "restore") \/ Moves(a, "mark"))
              \/ Mark(r) /\ (Moves(a, "next") \/ Moves(a, "mark"))
              \/ Restore(r) /\ Moves(a, "next")
              \/ (FanOutStep(a) \/ QueueFails(a)) /\ (Moves(a, "publish") \/ Moves(a, "queue") \/ Moves(a, "settle"))
              \/ SendThrows(r) /\ Moves(a, "restore")
              \/ FlushThrows(r) /\ Moves(a, "next")
<1> DEFINE a == Flusher(r)
<1>0. a \in Actors /\ After(a) = "settle" BY ActorFacts
<1>a. \A l \in {"idle", "next", "find", "uncap", "create", "settle", "mark", "restore", "queue", "publish"} : l \in AnyPc
  BY PcSets
<1> HIDE DEF a
<1>1. CASE ClaimDue(r) BY <1>0, <1>a, <1>1, GoMoves DEF ClaimDue, a
<1>2. CASE Take(r)
  <2>1. Go(a, "next") \/ Go(a, "find") BY <1>2 DEF Take, a
  <2> QED BY <1>0, <1>a, <1>2, <2>1, GoMoves DEF a
<1>3. CASE FlushEnds(r) BY <1>0, <1>a, <1>3, GoMoves DEF FlushEnds, a
<1>4. CASE Find(r)
  <2>1. Go(a, "restore") \/ Go(a, "next") \/ Go(a, "uncap") BY <1>4 DEF Find, a
  <2> QED BY <1>0, <1>a, <1>4, <2>1, GoMoves DEF a
<1>5. CASE Uncap(r) BY <1>0, <1>a, <1>5, GoMoves DEF Uncap, a
<1>6. CASE CreateDigest(r) BY <1>0, <1>a, <1>6, GoMoves DEF CreateDigest, a
<1>7. CASE Settle(r)
  <2>1. Go(a, "restore") \/ Go(a, "mark") BY <1>7 DEF Settle, a
  <2> QED BY <1>0, <1>a, <1>7, <2>1, GoMoves DEF a
<1>8. CASE Mark(r)
  <2>1. pc[a] = "mark" /\ (Go(a, "next") \/ UNCHANGED <<pc, chan>>) BY <1>8 DEF Mark, a
  <2> QED BY <1>0, <1>a, <1>8, <2>1, GoMoves DEF a
<1>9. CASE Restore(r) BY <1>0, <1>a, <1>9, GoMoves DEF Restore, a
<1>10. CASE FanOutStep(a) \/ QueueFails(a) BY <1>0, <1>a, <1>10, FanMoves DEF a
<1>11. CASE SendThrows(r) BY <1>0, <1>a, <1>11, GoMoves DEF SendThrows, a
<1>12. CASE FlushThrows(r) BY <1>0, <1>a, <1>12, GoMoves DEF FlushThrows, a
<1> QED BY <1>1, <1>2, <1>3, <1>4, <1>5, <1>6, <1>7, <1>8, <1>9, <1>10, <1>11, <1>12 DEF FStep, flushDue, a

\* The poller's own variables are written by its own steps.
LEMMA PollOwn ==
    ASSUME [Next]_vars, PollTypes, NEW q \in Replicas
    PROVE  (cur'[q] = cur[q] /\ batch'[q] = batch[q] /\ depth'[q] = depth[q]) \/ RStep(q) \/ Crash(q)
<1>1. ASSUME NEW n \in Notifications, NStep(n) PROVE cur' = cur /\ batch' = batch /\ depth' = depth BY <1>1, NFrame
<1>2. ASSUME NEW r \in Replicas, RStep(r), r # q PROVE cur'[q] = cur[q] /\ batch'[q] = batch[q] /\ depth'[q] = depth[q]
  <2>1. CASE Claim(r) BY <1>2, <2>1 DEF Claim, PollTypes
  <2>2. CASE Poll(r) BY <1>2, <2>2 DEF Poll, PollTypes
  <2>3. CASE Depth(r) BY <1>2, <2>3 DEF Depth, PollTypes
  <2> QED BY <1>2, <2>1, <2>2, <2>3, RFrame
<1>3. ASSUME NEW r \in Replicas, FStep(r) PROVE cur' = cur /\ batch' = batch /\ depth' = depth BY <1>3, FFrame
<1>4. CASE Dawn BY <1>4, DawnFrame
<1>5. ASSUME NEW r \in Replicas, Crash(r), r # q PROVE cur'[q] = cur[q] /\ batch'[q] = batch[q] /\ depth'[q] = depth[q]
  BY <1>5, CrashFrame DEF PollTypes
<1>6. CASE UNCHANGED vars BY <1>6, Frozen
<1> QED BY <1>1, <1>2, <1>3, <1>4, <1>5, <1>6, Steps

LEMMA PollTypesNext ==
    ASSUME PcTypes, EventTypes, SetTypes, PollTypes, [Next]_vars
    PROVE  PollTypes'
<1>1. ASSUME NEW r \in Replicas, RStep(r)
      PROVE  /\ batch' \in [Replicas -> SUBSET Notifications] /\ cur' \in [Replicas -> Notifications \cup {None}]
             /\ depth' \in [Replicas -> 0..Cardinality(Notifications)]
             /\ pc'[Releaser(r)] \in Releasing => cur'[r] \in Notifications
  <2>0. pc[Releaser(r)] \in Releasing => cur[r] \in Notifications BY DEF PollTypes
  <2>1. CASE Poll(r)
    <3>1. cur' = cur /\ depth' = depth BY <2>1 DEF Poll
    <3>2. batch' \in [Replicas -> SUBSET Notifications] BY <2>1 DEF Poll, Due, PollTypes, SetTypes
    <3>3. pc'[Releaser(r)] = "depth" BY <2>1, ActorFacts DEF Poll, Go, PcTypes
    <3> QED BY <3>1, <3>2, <3>3 DEF PollTypes, Releasing
  <2>2. CASE Depth(r)
    <3>1. Cardinality(quietQueue) \in 0..Cardinality(Notifications)
      <4>1. quietQueue \subseteq Notifications /\ IsFiniteSet(Notifications) BY EngineAssumption DEF SetTypes
      <4>2. IsFiniteSet(quietQueue) /\ Cardinality(quietQueue) <= Cardinality(Notifications) BY <4>1, FS_Subset
      <4>3. Cardinality(quietQueue) \in Nat /\ Cardinality(Notifications) \in Nat BY <4>1, <4>2, FS_CardinalityType
      <4> QED BY <4>2, <4>3
    <3>2. pc'[Releaser(r)] = "next" BY <2>2, ActorFacts DEF Depth, Go, PcTypes
    <3> QED BY <2>2, <3>1, <3>2 DEF Depth, PollTypes, Releasing
  <2>3. CASE Claim(r)
    <3>1. CASE batch[r] = {}
      <4>1. pc'[Releaser(r)] = "idle" BY <2>3, <3>1, ActorFacts DEF Claim, Go, PcTypes
      <4>2. 0 \in 0..Cardinality(Notifications) BY EngineAssumption, FS_CardinalityType
      <4> QED BY <2>3, <3>1, <4>1, <4>2 DEF Claim, PollTypes, Releasing
    <3>2. CASE batch[r] # {}
      <4>1. PICK n \in batch[r] :
              /\ depth' = depth /\ batch' = [batch EXCEPT ![r] = @ \ {n}]
              /\ \/ UNCHANGED <<pc, chan, cur>>
                 \/ cur' = [cur EXCEPT ![r] = n]
        BY <2>3, <3>2 DEF Claim
      <4>2. n \in Notifications BY DEF PollTypes
      <4>3. batch' \in [Replicas -> SUBSET Notifications] BY <4>1 DEF PollTypes
      <4> QED BY <2>0, <4>1, <4>2, <4>3 DEF PollTypes
    <3> QED BY <3>1, <3>2
  <2>4. CASE UNCHANGED <<batch, depth, cur>>
    <3>1. pc'[Releaser(r)] \in Releasing => pc[Releaser(r)] \in Releasing \/ Claim(r)
      <4>1. Poll(r) => pc'[Releaser(r)] = "depth" BY ActorFacts DEF Poll, Go, PcTypes
      <4>2. Depth(r) => pc'[Releaser(r)] = "next" BY ActorFacts DEF Depth, Go, PcTypes
      <4>3. Defer(r) \/ DeferStatus(r) \/ DeferBucket(r) \/ Resume(r) \/ ResumeStatus(r) \/ Reschedule(r) \/ ReleaseThrows(r)
            => pc[Releaser(r)] \in Releasing
        BY DEF Defer, DeferStatus, DeferBucket, Resume, ResumeStatus, Reschedule, ReleaseThrows, Releasing
      <4>4. FanOutStep(Releaser(r)) \/ QueueFails(Releaser(r)) => pc[Releaser(r)] \in Releasing BY FanFrame DEF FanPc, Releasing
      <4> QED BY <1>1, <4>1, <4>2, <4>3, <4>4 DEF RStep, releaseDue, Releasing
    <3> QED BY <2>0, <2>3, <2>4, <3>1 DEF PollTypes
  <2> QED BY <1>1, <2>1, <2>2, <2>3, <2>4, RFrame
<1>2. ASSUME NEW r \in Replicas, Crash(r)
      PROVE  /\ batch' \in [Replicas -> SUBSET Notifications] /\ cur' \in [Replicas -> Notifications \cup {None}]
             /\ depth' \in [Replicas -> 0..Cardinality(Notifications)]
  BY <1>2, CrashFrame DEF PollTypes
<1>3. /\ batch' \in [Replicas -> SUBSET Notifications] /\ cur' \in [Replicas -> Notifications \cup {None}]
      /\ depth' \in [Replicas -> 0..Cardinality(Notifications)]
  <2>1. ASSUME NEW n \in Notifications, NStep(n) PROVE cur' = cur /\ batch' = batch /\ depth' = depth BY <2>1, NFrame
  <2>2. ASSUME NEW r \in Replicas, FStep(r) PROVE cur' = cur /\ batch' = batch /\ depth' = depth BY <2>2, FFrame
  <2>3. Dawn \/ UNCHANGED vars => cur' = cur /\ batch' = batch /\ depth' = depth BY DawnFrame, Frozen
  <2> QED BY <1>1, <1>2, <2>1, <2>2, <2>3, Steps DEF PollTypes
<1>4. ASSUME NEW q \in Replicas PROVE pc'[Releaser(q)] \in Releasing => cur'[q] \in Notifications
  <2>1. CASE RStep(q) BY <1>1, <2>1
  <2>2. CASE Crash(q) BY <2>2, CrashMoves DEF Releasing
  <2>3. CASE ~RStep(q) /\ ~Crash(q)
    <3>1. cur'[q] = cur[q] /\ pc'[Releaser(q)] = pc[Releaser(q)] BY <2>3, PollOwn, ReleaserPcs
    <3> QED BY <3>1 DEF PollTypes
  <2> QED BY <2>1, <2>2, <2>3
<1> QED BY <1>3, <1>4 DEF PollTypes

\* The flusher's own variables are written by its own steps.
LEMMA FlushOwn ==
    ASSUME [Next]_vars, FlushTypes, NEW q \in Replicas
    PROVE  \/ /\ claimed'[q] = claimed[q] /\ source'[q] = source[q] /\ ids'[q] = ids[q]
              /\ items'[q] = items[q] /\ digest'[q] = digest[q]
           \/ FStep(q) \/ Crash(q)
<1> DEFINE Kept == /\ claimed'[q] = claimed[q] /\ source'[q] = source[q] /\ ids'[q] = ids[q]
                   /\ items'[q] = items[q] /\ digest'[q] = digest[q]
<1>1. ASSUME NEW n \in Notifications, NStep(n) PROVE Kept BY <1>1, NFrame
<1>2. ASSUME NEW r \in Replicas, RStep(r) PROVE Kept BY <1>2, RFrame
<1>3. ASSUME NEW r \in Replicas, FStep(r), r # q PROVE Kept
  <2>1. claimed'[q] = claimed[q]
    <3>1. CASE ClaimDue(r) BY <1>3, <3>1 DEF ClaimDue, FlushTypes
    <3>2. CASE Take(r) BY <1>3, <3>2 DEF Take, FlushTypes
    <3>3. CASE FlushThrows(r) BY <1>3, <3>3 DEF FlushThrows, FlushTypes
    <3> QED BY <1>3, <3>1, <3>2, <3>3, FFrame
  <2>2. source'[q] = source[q]
    <3>1. CASE Take(r) BY <1>3, <3>1 DEF Take, FlushTypes
    <3>2. CASE FlushEnds(r) BY <1>3, <3>2 DEF FlushEnds, FlushTypes
    <3> QED BY <1>3, <3>1, <3>2, FFrame
  <2>3. ids'[q] = ids[q]
    <3>1. CASE Take(r) BY <1>3, <3>1 DEF Take, FlushTypes
    <3>2. CASE Find(r) BY <1>3, <3>2 DEF Find, FlushTypes
    <3>3. CASE Mark(r) BY <1>3, <3>3 DEF Mark, FlushTypes
    <3>4. CASE Restore(r) BY <1>3, <3>4 DEF Restore, FlushTypes
    <3>5. CASE FlushThrows(r) BY <1>3, <3>5 DEF FlushThrows, FlushTypes
    <3> QED BY <1>3, <3>1, <3>2, <3>3, <3>4, <3>5, FFrame
  <2>4. items'[q] = items[q]
    <3>1. CASE Find(r) BY <1>3, <3>1 DEF Find, FlushTypes
    <3>2. CASE Mark(r) BY <1>3, <3>2 DEF Mark, FlushTypes
    <3>3. CASE Restore(r) BY <1>3, <3>3 DEF Restore, FlushTypes
    <3> QED BY <1>3, <3>1, <3>2, <3>3, FFrame
  <2>5. digest'[q] = digest[q]
    <3>1. CASE FlushEnds(r) BY <1>3, <3>1 DEF FlushEnds, FlushTypes
    <3>2. CASE CreateDigest(r) BY <1>3, <3>2 DEF CreateDigest, FlushTypes
    <3> QED BY <1>3, <3>1, <3>2, FFrame
  <2> QED BY <2>1, <2>2, <2>3, <2>4, <2>5
<1>4. CASE Dawn BY <1>4, DawnFrame
<1>5. ASSUME NEW r \in Replicas, Crash(r), r # q PROVE Kept BY <1>5, CrashFrame DEF FlushTypes
<1>6. CASE UNCHANGED vars BY <1>6, Frozen
<1> QED BY <1>1, <1>2, <1>3, <1>4, <1>5, <1>6, Steps

LEMMA FlushTypesNext ==
    ASSUME PcTypes, EventTypes, SetTypes, FlushTypes, [Next]_vars
    PROVE  FlushTypes'
<1> DEFINE Typed == /\ claimed \in [Replicas -> SUBSET Sources] /\ source \in [Replicas -> Sources \cup {None}]
                    /\ ids \in [Replicas -> SUBSET Notifications] /\ items \in [Replicas -> SUBSET Notifications]
                    /\ digest \in [Replicas -> Digests \cup {None}]
<1>1. ASSUME NEW r \in Replicas, FStep(r) PROVE Typed'
  <2>1. claimed' \in [Replicas -> SUBSET Sources]
    <3>1. CASE ClaimDue(r) BY <3>1 DEF ClaimDue, DueBuckets, FlushTypes, SetTypes
    <3>2. CASE Take(r) BY <3>2 DEF Take, FlushTypes
    <3>3. CASE FlushThrows(r)
      <4>1. claimed' = claimed \/ \E s \in claimed[r] : claimed' = [claimed EXCEPT ![r] = @ \ {s}] BY <3>3 DEF FlushThrows
      <4> QED BY <4>1 DEF FlushTypes
    <3> QED BY <1>1, <3>1, <3>2, <3>3, FFrame DEF FlushTypes
  <2>2. source' \in [Replicas -> Sources \cup {None}]
    <3>1. CASE Take(r) BY <3>1 DEF Take, FlushTypes
    <3>2. CASE FlushEnds(r) BY <3>2 DEF FlushEnds, FlushTypes
    <3> QED BY <1>1, <3>1, <3>2, FFrame DEF FlushTypes
  <2>3. ids' \in [Replicas -> SUBSET Notifications]
    <3>1. CASE Take(r) BY <3>1 DEF Take, FlushTypes, SetTypes
    <3>2. CASE Find(r) BY <3>2 DEF Find, FlushTypes
    <3>3. CASE Mark(r) BY <3>3 DEF Mark, FlushTypes
    <3>4. CASE Restore(r) BY <3>4 DEF Restore, FlushTypes
    <3>5. CASE FlushThrows(r) BY <3>5 DEF FlushThrows, FlushTypes
    <3> QED BY <1>1, <3>1, <3>2, <3>3, <3>4, <3>5, FFrame DEF FlushTypes
  <2>4. items' \in [Replicas -> SUBSET Notifications]
    <3>1. CASE Find(r)
      <4>1. PICK held : /\ held = {n \in ids[r] : status[n] \in {"DIGEST_PENDING", "CAPPED"}}
                        /\ UNCHANGED items \/ items' = [items EXCEPT ![r] = held]
        BY <3>1 DEF Find
      <4>2. held \subseteq Notifications BY <4>1 DEF FlushTypes
      <4> QED BY <4>1, <4>2 DEF FlushTypes
    <3>2. CASE Mark(r) BY <3>2 DEF Mark, FlushTypes
    <3>3. CASE Restore(r) BY <3>3 DEF Restore, FlushTypes
    <3> QED BY <1>1, <3>1, <3>2, <3>3, FFrame DEF FlushTypes
  <2>5. digest' \in [Replicas -> Digests \cup {None}]
    <3>1. CASE FlushEnds(r) BY <3>1 DEF FlushEnds, FlushTypes
    <3>2. CASE CreateDigest(r)
      <4>1. \E d \in Digests : digest' = [digest EXCEPT ![r] = d] BY <3>2 DEF CreateDigest
      <4> QED BY <4>1 DEF FlushTypes
    <3> QED BY <1>1, <3>1, <3>2, FFrame DEF FlushTypes
  <2> QED BY <2>1, <2>2, <2>3, <2>4, <2>5
<1>2. Typed'
  <2>1. ASSUME NEW n \in Notifications, NStep(n) PROVE Typed' BY <2>1, NFrame DEF FlushTypes
  <2>2. ASSUME NEW r \in Replicas, RStep(r) PROVE Typed' BY <2>2, RFrame DEF FlushTypes
  <2>3. CASE Dawn BY <2>3, DawnFrame DEF FlushTypes
  <2>4. ASSUME NEW r \in Replicas, Crash(r) PROVE Typed' BY <2>4, CrashFrame DEF FlushTypes
  <2>5. CASE UNCHANGED vars BY <2>5, Frozen DEF FlushTypes
  <2> QED BY <1>1, <2>1, <2>2, <2>3, <2>4, <2>5, Steps
<1>3. ASSUME NEW q \in Replicas
      PROVE  /\ pc'[Flusher(q)] \in Flushing => source'[q] \in Sources
             /\ pc'[Flusher(q)] \in Sending => digest'[q] \in Digests
  <2>0. /\ pc[Flusher(q)] \in Flushing => source[q] \in Sources
        /\ pc[Flusher(q)] \in Sending => digest[q] \in Digests
    BY DEF FlushTypes
  <2>1. CASE FStep(q)
    <3>a. pc'[Flusher(q)] \in Sending => pc'[Flusher(q)] \in Flushing BY DEF Sending, Flushing
    <3>1. CASE pc'[Flusher(q)] \notin Flushing BY <3>1, <3>a
    <3>2. CASE Take(q)
      <4>1. source'[q] \in Sources BY <3>2 DEF Take, FlushTypes
      <4>2. pc'[Flusher(q)] \notin Sending BY <3>2, ActorFacts DEF Take, Go, PcTypes, Sending
      <4> QED BY <4>1, <4>2
    <3>3. CASE CreateDigest(q)
      <4>1. digest'[q] \in Digests BY <3>3 DEF CreateDigest, FlushTypes
      <4>2. source'[q] \in Sources BY <2>0, <3>3 DEF CreateDigest, Flushing
      <4> QED BY <4>1, <4>2
    <3>4. CASE ~Take(q) /\ ~CreateDigest(q) /\ pc'[Flusher(q)] \in Flushing
      <4>1. /\ pc[Flusher(q)] \in Flushing
            /\ pc'[Flusher(q)] \in Sending => pc[Flusher(q)] \in Sending
            /\ ~FlushEnds(q)
        <5>1. CASE ClaimDue(q) BY <3>4, <5>1, ActorFacts DEF ClaimDue, Go, PcTypes, Flushing
        <5>2. CASE FlushEnds(q) BY <3>4, <5>2, ActorFacts DEF FlushEnds, Go, PcTypes, Flushing
        <5>3. CASE Find(q) \/ Uncap(q) \/ Settle(q)
          BY <3>4, <5>3, ActorFacts DEF Find, Uncap, Settle, FlushEnds, Go, PcTypes, Flushing, Sending
        <5>4. CASE Mark(q) BY <3>4, <5>4, ActorFacts DEF Mark, FlushEnds, Go, PcTypes, Flushing, Sending
        <5>5. CASE Restore(q) BY <3>4, <5>5, ActorFacts DEF Restore, Go, PcTypes, Flushing
        <5>6. CASE FanOutStep(Flusher(q)) \/ QueueFails(Flusher(q))
          <6>1. pc[Flusher(q)] \in FanPc BY <5>6, FanFrame
          <6> QED BY <6>1 DEF FanPc, Flushing, Sending, FlushEnds
        <5>7. CASE SendThrows(q)
          <6>1. pc'[Flusher(q)] = "restore" BY <5>7, ActorFacts DEF SendThrows, Go, PcTypes
          <6> QED BY <5>7, <6>1 DEF SendThrows, FlushEnds, Flushing, Sending
        <5>8. CASE FlushThrows(q) BY <3>4, <5>8, ActorFacts DEF FlushThrows, Go, PcTypes, Flushing
        <5> QED BY <2>1, <3>4, <5>1, <5>2, <5>3, <5>4, <5>5, <5>6, <5>7, <5>8 DEF FStep, flushDue
      <4>2. source' = source /\ digest' = digest BY <2>1, <3>4, <4>1, FFrame
      <4> QED BY <2>0, <4>1, <4>2
    <3> QED BY <3>1, <3>2, <3>3, <3>4
  <2>2. CASE Crash(q) BY <2>2, CrashMoves DEF Flushing, Sending
  <2>3. CASE ~FStep(q) /\ ~Crash(q)
    <3>1. source'[q] = source[q] /\ digest'[q] = digest[q] /\ pc'[Flusher(q)] = pc[Flusher(q)] BY <2>3, FlushOwn, FlusherPcs
    <3> QED BY <2>0, <3>1
  <2> QED BY <2>1, <2>2, <2>3
<1> QED BY <1>2, <1>3 DEF FlushTypes

\* Only faults are spent, and nothing else writes used.
LEMMA UsedGrows ==
    ASSUME HistTypes, [Next]_vars
    PROVE  used \subseteq used' /\ used' \subseteq Faults /\ (UNCHANGED used \/ \E f \in Faults : Spend(f))
<1>1. ASSUME NEW f, Spend(f) PROVE f \in Faults /\ used \subseteq used' /\ used' \subseteq Faults
  BY <1>1, EngineAssumption DEF Spend, HistTypes
<1>2. ASSUME NEW a, FanOutStep(a) \/ QueueFails(a) PROVE UNCHANGED used \/ Spend("queueFail")
  BY <1>2 DEF FanOutStep, Queue, PublishChannel, QueueFails
<1>3. ASSUME NEW n \in Notifications, NStep(n) PROVE UNCHANGED used \/ \E f : Spend(f)
  BY <1>2, <1>3 DEF NStep, process, Route, Hold, Bucket, QuietQueue, scheduleRelease, EngineThrows
<1>4. ASSUME NEW r \in Replicas, RStep(r) PROVE UNCHANGED used \/ \E f : Spend(f)
  BY <1>2, <1>4 DEF RStep, releaseDue, Poll, Depth, Claim, Defer, DeferStatus, DeferBucket, Resume, ResumeStatus, Reschedule, ReleaseThrows
<1>5. ASSUME NEW r \in Replicas, FStep(r) PROVE UNCHANGED used \/ \E f : Spend(f)
  BY <1>2, <1>5 DEF FStep, flushDue, ClaimDue, Take, FlushEnds, Find, Uncap, CreateDigest, Settle, Mark, Restore, SendThrows, FlushThrows
<1>6. ASSUME NEW r \in Replicas, Crash(r) PROVE \E f : Spend(f) BY <1>6, CrashFrame
<1>7. Dawn \/ UNCHANGED vars => UNCHANGED used BY DawnFrame, Frozen
<1>8. UNCHANGED used \/ \E f : Spend(f) BY <1>3, <1>4, <1>5, <1>6, <1>7, Steps
<1> QED BY <1>1, <1>8 DEF HistTypes

LEMMA HistTypesNext ==
    ASSUME SetTypes, HistTypes, [Next]_vars
    PROVE  HistTypes'
<1>1. pile' \subseteq Notifications /\ polled' \subseteq Replicas
  <2>1. ASSUME NEW n \in Notifications, NStep(n) PROVE pile' = pile /\ polled' = polled BY <2>1, NFrame
  <2>2. ASSUME NEW r \in Replicas, RStep(r) PROVE pile' = pile /\ polled' \subseteq Replicas
    <3>1. CASE Poll(r) BY <3>1 DEF Poll, HistTypes
    <3> QED BY <2>2, <3>1, RFrame DEF HistTypes
  <2>3. ASSUME NEW r \in Replicas, FStep(r) PROVE pile' = pile /\ polled' = polled BY <2>3, FFrame
  <2>4. CASE Dawn
    <3>1. pile' \subseteq scheduled /\ polled' = polled BY <2>4 DEF Dawn
    <3> QED BY <3>1 DEF SetTypes, HistTypes
  <2>5. ASSUME NEW r \in Replicas, Crash(r) PROVE pile' = pile /\ polled' = polled BY <2>5, CrashFrame
  <2>6. CASE UNCHANGED vars BY <2>6, Frozen DEF HistTypes
  <2> QED BY <2>1, <2>2, <2>3, <2>4, <2>5, <2>6, Steps DEF HistTypes
<1> QED BY <1>1, UsedGrows DEF HistTypes

LEMMA TypesInit ==
    ASSUME Init
    PROVE  Types
<1> USE DEF Init
<1>1. PcTypes
  <2>1. "route" \in ProcessPc /\ "idle" \in ReleasePc /\ "idle" \in FlushPc /\ "route" \in AnyPc /\ "idle" \in AnyPc BY PcSets
  <2>2. 1 \in Channels BY EngineAssumption DEF Channels
  <2> QED BY <2>1, <2>2, ActorFacts, NotificationFacts DEF PcTypes
<1>2. RowTypes
  <2>1. "CREATED" \in NotificationStatus BY DEF NotificationStatus
  <2> QED BY <2>1 DEF RowTypes
<1>3. EventTypes
  <2>1. \A n \in Notifications : pc[n] = "route" BY NotificationFacts
  <2> QED BY <2>1 DEF EventTypes, FanPc
<1>4. SetTypes BY DEF SetTypes
<1>5. PollTypes
  <2>1. \A r \in Replicas : pc[Releaser(r)] = "idle" BY ActorFacts
  <2>2. 0 \in 0..Cardinality(Notifications) BY EngineAssumption, FS_CardinalityType
  <2> QED BY <2>1, <2>2 DEF PollTypes, Releasing
<1>6. FlushTypes
  <2>1. \A r \in Replicas : pc[Flusher(r)] = "idle" BY ActorFacts
  <2> QED BY <2>1 DEF FlushTypes, Flushing, Sending
<1>7. HistTypes BY DEF HistTypes
<1> QED BY <1>1, <1>2, <1>3, <1>4, <1>5, <1>6, <1>7 DEF Types

LEMMA TypesNext ==
    ASSUME Types, [Next]_vars
    PROVE  Types'
  BY PcTypesNext, RowTypesNext, EventTypesNext, SetTypesNext, PollTypesNext, FlushTypesNext, HistTypesNext DEF Types

\* The types, in the form the other invariants need them: a poller only works
\* on a notification, a flusher that sends has a digest row.
THEOREM TypesAlways == Spec => []Types
  BY TypesInit, TypesNext, PTL DEF Spec

\* Everything keeps the type the code gives it: a poller only ever works on a
\* notification, a flusher that sends has a digest row, a bucket has a source.
THEOREM TypeCorrect == Spec => []TypeOK
<1>1. Types => TypeOK
  BY DEF Types, PcTypes, RowTypes, EventTypes, SetTypes, PollTypes, FlushTypes, HistTypes, TypeOK
<1> QED BY <1>1, TypesAlways, PTL

-----------------------------------------------------------------------------
(***************************************************************************)
(* What each step does to the rows.                                        *)
(***************************************************************************)

\* The rows stay as they are; one row gets a status.
SameRow == status' = status /\ queued' = queued
Writes(x, s) == status' = [status EXCEPT ![x] = s] /\ queued' = queued
\* A step of fanOut on row x.
Fans(a, x) == (FanOutStep(a) \/ QueueFails(a)) /\ (Queues(a, x) \/ DeadLetters(a, x) \/ Publishes(a, x))

LEMMA NSteps ==
    ASSUME PcTypes, RowTypes, EventTypes, NEW n \in Notifications, NStep(n)
    PROVE  \/ Route(n) /\ Moves(n, "hold") /\ Writes(n, "ENRICHED")
           \/ /\ Hold(n)
              /\ \/ decision[n] \in {"hourly", "daily"} /\ Moves(n, "bucket") /\ Writes(n, "DIGEST_PENDING")
                 \/ decision[n] = "capped" /\ Moves(n, "bucket") /\ Writes(n, "CAPPED")
                 \/ decision[n] = "quiet" /\ Moves(n, "quietQueue") /\ Writes(n, "QUIET")
                 \/ decision[n] = "noTemplate" /\ Moves(n, "done") /\ Writes(n, "CAPPED")
                 \/ decision[n] = "sto" /\ Moves(n, "schedule") /\ Writes(n, "ROUTED")
                 \/ decision[n] = "now" /\ Moves(n, "queue") /\ chan'[n] = 1 /\ Writes(n, "ROUTED")
           \/ Bucket(n) /\ Moves(n, "done") /\ SameRow
           \/ QuietQueue(n) /\ Moves(n, "schedule") /\ SameRow
           \/ scheduleRelease(n) /\ Moves(n, "done") /\ SameRow
           \/ EngineThrows(n) /\ Moves(n, "done") /\ SameRow
           \/ Fans(n, n)
<1>0. n \in Actors /\ n \in Rows /\ RowOf(n) = n /\ After(n) = "done" BY NotificationFacts
<1>a. \A l \in {"hold", "quietQueue", "schedule", "bucket", "done", "queue"} : l \in AnyPc BY PcSets
<1>1. CASE Route(n) BY <1>0, <1>a, <1>1, GoMoves DEF Route, SetStatus, Writes
<1>2. CASE Hold(n)
  <2>1. decision[n] \in AllDecisions BY <1>2 DEF Hold, EventTypes
  <2>2. CASE decision[n] = "now"
    <3>1. fanOut(n) /\ Writes(n, "ROUTED") BY <1>2, <2>2 DEF Hold, SetStatus, Writes
    <3> QED BY <1>0, <1>a, <1>2, <2>2, <3>1, GoMoves
  <2>3. CASE decision[n] \in {"hourly", "daily"}
    <3>1. Go(n, "bucket") /\ Writes(n, "DIGEST_PENDING") BY <1>2, <2>3 DEF Hold, SetStatus, Writes
    <3> QED BY <1>0, <1>a, <1>2, <2>3, <3>1, GoMoves
  <2>4. CASE decision[n] = "capped"
    <3>1. Go(n, "bucket") /\ Writes(n, "CAPPED") BY <1>2, <2>4 DEF Hold, SetStatus, Writes
    <3> QED BY <1>0, <1>a, <1>2, <2>4, <3>1, GoMoves
  <2>5. CASE decision[n] = "quiet"
    <3>1. Go(n, "quietQueue") /\ Writes(n, "QUIET") BY <1>2, <2>5 DEF Hold, SetStatus, Writes
    <3> QED BY <1>0, <1>a, <1>2, <2>5, <3>1, GoMoves
  <2>6. CASE decision[n] = "noTemplate"
    <3>1. Go(n, "done") /\ Writes(n, "CAPPED") BY <1>2, <2>6 DEF Hold, SetStatus, Writes
    <3> QED BY <1>0, <1>a, <1>2, <2>6, <3>1, GoMoves
  <2>7. CASE decision[n] = "sto"
    <3>1. Go(n, "schedule") /\ Writes(n, "ROUTED") BY <1>2, <2>7 DEF Hold, SetStatus, Writes
    <3> QED BY <1>0, <1>a, <1>2, <2>7, <3>1, GoMoves
  <2> QED BY <2>1, <2>2, <2>3, <2>4, <2>5, <2>6, <2>7 DEF AllDecisions
<1> USE DEF rows, SameRow
<1>3. CASE Bucket(n) BY <1>0, <1>a, <1>3, GoMoves DEF Bucket
<1>4. CASE QuietQueue(n) BY <1>0, <1>a, <1>4, GoMoves DEF QuietQueue
<1>5. CASE scheduleRelease(n) BY <1>0, <1>a, <1>5, GoMoves DEF scheduleRelease
<1>6. CASE FanOutStep(n) \/ QueueFails(n) BY <1>0, <1>a, <1>6, FanRows DEF Fans
<1>7. CASE EngineThrows(n) BY <1>0, <1>a, <1>7, GoMoves DEF EngineThrows
<1> QED BY <1>1, <1>2, <1>3, <1>4, <1>5, <1>6, <1>7 DEF NStep, process

LEMMA RRows ==
    ASSUME PcTypes, RowTypes, PollTypes, NEW r \in Replicas, RStep(r)
    PROVE  \/ SameRow /\ ~DeferStatus(r) /\ ~ResumeStatus(r) /\ pc[Releaser(r)] \notin FanPc
           \/ DeferStatus(r) /\ Writes(cur[r], "DIGEST_PENDING")
           \/ ResumeStatus(r) /\ Writes(cur[r], "ROUTED")
           \/ Fans(Releaser(r), cur[r])
           \/ ReleaseThrows(r) /\ SameRow
<1> USE DEF rows, SameRow, FanPc
<1>1. CASE Poll(r) BY <1>1 DEF Poll, DeferStatus, ResumeStatus
<1>2. CASE Depth(r) BY <1>2 DEF Depth, DeferStatus, ResumeStatus
<1>3. CASE Claim(r) BY <1>3 DEF Claim, DeferStatus, ResumeStatus
<1>4. CASE Defer(r) BY <1>4 DEF Defer, DeferStatus, ResumeStatus
<1>5. CASE DeferStatus(r) BY <1>5 DEF DeferStatus, SetStatus, Writes
<1>6. CASE DeferBucket(r) BY <1>6 DEF DeferBucket, DeferStatus, ResumeStatus
<1>7. CASE Resume(r) BY <1>7 DEF Resume, DeferStatus, ResumeStatus
<1>8. CASE ResumeStatus(r) BY <1>8 DEF ResumeStatus, SetStatus, Writes
<1>9. CASE Reschedule(r) BY <1>9 DEF Reschedule, DeferStatus, ResumeStatus
<1>10. CASE FanOutStep(Releaser(r)) \/ QueueFails(Releaser(r))
  <2>1. pc[Releaser(r)] \in FanPc BY <1>10, FanFrame
  <2>2. cur[r] \in Rows BY <2>1, NotificationFacts DEF Releasing, PollTypes
  <2>3. "next" \in AnyPc BY PcSets
  <2> QED BY <1>10, <2>2, <2>3, ActorFacts, FanRows DEF Fans
<1>11. CASE ReleaseThrows(r) BY <1>11 DEF ReleaseThrows
<1> QED BY <1>1, <1>2, <1>3, <1>4, <1>5, <1>6, <1>7, <1>8, <1>9, <1>10, <1>11 DEF RStep, releaseDue

\* The digest of a flush appears, and its items are uncapped and marked.
Appears(r, d) ==
    /\ d \in Digests /\ status[d] = "absent" /\ Writes(d, "ROUTED")
    /\ digestOf' = [digestOf EXCEPT ![d] = items[r]] /\ digest' = [digest EXCEPT ![r] = d]
Uncaps(r) ==
    /\ queued' = queued
    /\ status' = [x \in Rows |-> IF x \in items[r] /\ status[x] = "CAPPED" THEN "DIGEST_PENDING" ELSE status[x]]

LEMMA FRows ==
    ASSUME PcTypes, RowTypes, FlushTypes, NEW r \in Replicas, FStep(r)
    PROVE  \/ SameRow /\ ~Uncap(r) /\ ~CreateDigest(r) /\ pc[Flusher(r)] \notin FanPc
           \/ Uncap(r) /\ Uncaps(r)
           \/ CreateDigest(r) /\ \E d \in Digests : Appears(r, d)
           \/ Mark(r) /\ \E n \in items[r] : Writes(n, "DIGESTED")
           \/ Fans(Flusher(r), digest[r])
           \/ SendThrows(r) /\ SameRow
<1> USE DEF rows, SameRow, FanPc
<1>1. CASE ClaimDue(r) BY <1>1 DEF ClaimDue, Uncap, CreateDigest
<1>2. CASE Take(r) BY <1>2 DEF Take, Uncap, CreateDigest
<1>3. CASE FlushEnds(r) BY <1>3 DEF FlushEnds, Uncap, CreateDigest
<1>4. CASE Find(r) BY <1>4 DEF Find, Uncap, CreateDigest
<1>5. CASE Uncap(r) BY <1>5 DEF Uncap, Uncaps
<1>6. CASE CreateDigest(r) BY <1>6 DEF CreateDigest, Appears, Writes
<1>7. CASE Settle(r) BY <1>7 DEF Settle, Uncap, CreateDigest
<1>8. CASE Mark(r)
  <2>1. CASE items[r] = {} BY <1>8, <2>1 DEF Mark, Uncap, CreateDigest
  <2>2. CASE items[r] # {} BY <1>8, <2>2 DEF Mark, SetStatus, Writes
  <2> QED BY <2>1, <2>2
<1>9. CASE Restore(r) BY <1>9 DEF Restore, Uncap, CreateDigest
<1>10. CASE FanOutStep(Flusher(r)) \/ QueueFails(Flusher(r))
  <2>1. pc[Flusher(r)] \in FanPc BY <1>10, FanFrame
  <2>2. digest[r] \in Rows BY <2>1 DEF Sending, FlushTypes, Rows
  <2>3. "settle" \in AnyPc BY PcSets
  <2> QED BY <1>10, <2>2, <2>3, ActorFacts, FanRows DEF Fans
<1>11. CASE SendThrows(r) BY <1>11 DEF SendThrows
<1>12. CASE FlushThrows(r) BY <1>12 DEF FlushThrows, Uncap, CreateDigest
<1> QED BY <1>1, <1>2, <1>3, <1>4, <1>5, <1>6, <1>7, <1>8, <1>9, <1>10, <1>11, <1>12 DEF FStep, flushDue

\* Only the actor that fans out a row changes its channels and its status there.
LEMMA FansRow ==
    ASSUME PcTypes, RowTypes, NEW a \in Actors, NEW x \in Rows, Fans(a, x)
    PROVE  /\ \A y \in Rows : y # x => status'[y] = status[y] /\ queued'[y] = queued[y]
           /\ pc[a] \in FanPc
           /\ \A c \in Channels : c # chan[a] => queued'[x][c] = queued[x][c]
           /\ queued'[x][chan[a]] = queued[x][chan[a]] \/ (pc[a] = "publish" /\ queued'[x][chan[a]] = queued[x][chan[a]] + 1)
<1>1. \A y \in Rows : y # x => status'[y] = status[y]
  BY DEF Fans, Queues, DeadLetters, Publishes, RowTypes
<1>2. pc[a] \in FanPc BY FanFrame DEF Fans
<1>3. chan[a] \in Channels BY DEF PcTypes
<1>4. queued' = queued \/ (pc[a] = "publish" /\ queued' = [queued EXCEPT ![x][chan[a]] = @ + 1])
  BY DEF Fans, Queues, DeadLetters, Publishes
<1>5. queued \in [Rows -> [Channels -> Nat]] BY DEF RowTypes
<1> QED BY <1>1, <1>2, <1>3, <1>4, <1>5

\* What a step leaves alone: the other actors, and the rows not in hand.
LEMMA NOthers ==
    ASSUME PcTypes, RowTypes, EventTypes, NEW n \in Notifications, NStep(n)
    PROVE  /\ pc[n] # "done"
           /\ \A r \in Replicas : /\ pc'[Releaser(r)] = pc[Releaser(r)] /\ chan'[Releaser(r)] = chan[Releaser(r)]
                                  /\ pc'[Flusher(r)] = pc[Flusher(r)] /\ chan'[Flusher(r)] = chan[Flusher(r)]
           /\ \A m \in Notifications : m # n =>
                /\ pc'[m] = pc[m] /\ chan'[m] = chan[m] /\ decision'[m] = decision[m]
                /\ m \in scheduled' <=> m \in scheduled
           /\ \A x \in Rows : x # n => status'[x] = status[x] /\ queued'[x] = queued[x]
<1>1. PICK l \in ProcessPc : Moves(n, l) BY NMoves
<1>2. \A r \in Replicas : /\ pc'[Releaser(r)] = pc[Releaser(r)] /\ chan'[Releaser(r)] = chan[Releaser(r)]
                          /\ pc'[Flusher(r)] = pc[Flusher(r)] /\ chan'[Flusher(r)] = chan[Flusher(r)]
  BY <1>1, ActorFacts DEF Moves
<1>3. ASSUME NEW m \in Notifications, m # n
      PROVE  pc'[m] = pc[m] /\ chan'[m] = chan[m] /\ decision'[m] = decision[m]
  <2>1. decision'[m] = decision[m] BY <1>3, NFrame DEF Route, EventTypes
  <2> QED BY <1>1, <1>3, <2>1, NotificationFacts DEF Moves
<1>4. ASSUME NEW m \in Notifications, m # n PROVE m \in scheduled' <=> m \in scheduled
  BY <1>4, NFrame DEF scheduleRelease
<1>5. pc[n] # "done"
  <2>1. CASE Fans(n, n) BY <2>1, FanFrame DEF Fans, FanPc
  <2>2. Route(n) \/ Hold(n) \/ Bucket(n) \/ QuietQueue(n) \/ scheduleRelease(n) \/ EngineThrows(n) => pc[n] # "done"
    BY DEF Route, Hold, Bucket, QuietQueue, scheduleRelease, EngineThrows
  <2> QED BY <2>1, <2>2, NSteps
<1>6. ASSUME NEW x \in Rows, x # n PROVE status'[x] = status[x] /\ queued'[x] = queued[x]
  <2>1. CASE Fans(n, n) BY <1>6, <2>1, FansRow, NotificationFacts
  <2>2. status \in [Rows -> NotificationStatus \cup {"absent"}] BY DEF RowTypes
  <2>3. ASSUME NEW s, Writes(n, s) PROVE status'[x] = status[x] /\ queued'[x] = queued[x]
    BY <1>6, <2>2, <2>3 DEF Writes
  <2>4. SameRow => status'[x] = status[x] /\ queued'[x] = queued[x] BY DEF SameRow
  <2> QED BY <2>1, <2>3, <2>4, NSteps
<1> QED BY <1>2, <1>3, <1>4, <1>5, <1>6

LEMMA ROthers ==
    ASSUME PcTypes, RowTypes, PollTypes, NEW r \in Replicas, RStep(r)
    PROVE  /\ \A m \in Notifications : pc'[m] = pc[m] /\ chan'[m] = chan[m]
           /\ \A q \in Replicas : pc'[Flusher(q)] = pc[Flusher(q)] /\ chan'[Flusher(q)] = chan[Flusher(q)]
           /\ \A q \in Replicas : q # r =>
                /\ pc'[Releaser(q)] = pc[Releaser(q)] /\ chan'[Releaser(q)] = chan[Releaser(q)]
                /\ cur'[q] = cur[q] /\ batch'[q] = batch[q] /\ depth'[q] = depth[q]
           /\ \A x \in Rows : \/ status'[x] = status[x] /\ queued'[x] = queued[x]
                              \/ pc[Releaser(r)] \in Releasing /\ cur[r] = x
<1>1. PICK l \in ReleasePc : Moves(Releaser(r), l) BY RMoves
<1>2. \A m \in Notifications : pc'[m] = pc[m] /\ chan'[m] = chan[m] BY <1>1, ActorFacts, NotificationFacts DEF Moves
<1>3. \A q \in Replicas : pc'[Flusher(q)] = pc[Flusher(q)] /\ chan'[Flusher(q)] = chan[Flusher(q)]
  BY <1>1, ActorFacts DEF Moves
<1>4. ASSUME NEW q \in Replicas, q # r
      PROVE  /\ pc'[Releaser(q)] = pc[Releaser(q)] /\ chan'[Releaser(q)] = chan[Releaser(q)]
             /\ cur'[q] = cur[q] /\ batch'[q] = batch[q] /\ depth'[q] = depth[q]
  <2>1. cur'[q] = cur[q] /\ batch'[q] = batch[q] /\ depth'[q] = depth[q]
    <3>1. CASE Claim(r) BY <1>4, <3>1 DEF Claim, PollTypes
    <3>2. CASE Poll(r) BY <1>4, <3>2 DEF Poll, PollTypes
    <3>3. CASE Depth(r) BY <1>4, <3>3 DEF Depth, PollTypes
    <3> QED BY <3>1, <3>2, <3>3, RFrame
  <2> QED BY <1>1, <1>4, <2>1, ActorFacts DEF Moves
<1>5. ASSUME NEW x \in Rows
      PROVE  \/ status'[x] = status[x] /\ queued'[x] = queued[x]
             \/ pc[Releaser(r)] \in Releasing /\ cur[r] = x
  <2>0. status \in [Rows -> NotificationStatus \cup {"absent"}] BY DEF RowTypes
  <2>a. ASSUME NEW y, NEW s, Writes(y, s), y # x PROVE status'[x] = status[x] /\ queued'[x] = queued[x]
    BY <2>0, <2>a DEF Writes
  <2>1. CASE Fans(Releaser(r), cur[r])
    <3>1. pc[Releaser(r)] \in Releasing BY <2>1, FanFrame DEF Fans, FanPc, Releasing
    <3>2. cur[r] \in Rows BY <3>1, NotificationFacts DEF PollTypes
    <3> QED BY <2>1, <3>1, <3>2, FansRow, ActorFacts
  <2>2. CASE DeferStatus(r) BY <2>a, <2>2, RRows DEF DeferStatus, SetStatus, Releasing, Writes
  <2>3. CASE ResumeStatus(r) BY <2>a, <2>3, RRows DEF ResumeStatus, SetStatus, Releasing, Writes
  <2>4. CASE SameRow BY <2>4 DEF SameRow
  <2> QED BY <2>1, <2>2, <2>3, <2>4, RRows
<1> QED BY <1>2, <1>3, <1>4, <1>5

LEMMA FOthers ==
    ASSUME PcTypes, RowTypes, FlushTypes, NEW r \in Replicas, FStep(r)
    PROVE  /\ \A m \in Notifications : pc'[m] = pc[m] /\ chan'[m] = chan[m]
           /\ \A q \in Replicas : pc'[Releaser(q)] = pc[Releaser(q)] /\ chan'[Releaser(q)] = chan[Releaser(q)]
           /\ \A q \in Replicas : q # r => pc'[Flusher(q)] = pc[Flusher(q)] /\ chan'[Flusher(q)] = chan[Flusher(q)]
           /\ \A n \in Notifications :
                /\ queued'[n] = queued[n]
                /\ \/ status'[n] = status[n]
                   \/ n \in items[r] /\ Uncap(r) /\ status[n] = "CAPPED" /\ status'[n] = "DIGEST_PENDING"
                   \/ n \in items[r] /\ Mark(r) /\ status'[n] = "DIGESTED"
           /\ \A d \in Digests : \/ status'[d] = status[d] /\ queued'[d] = queued[d]
                                 \/ d = digest[r] /\ Fans(Flusher(r), d)
                                 \/ CreateDigest(r) /\ Appears(r, d)
<1>1. PICK l \in FlushPc : Moves(Flusher(r), l) BY FMoves
<1>2. \A m \in Notifications : pc'[m] = pc[m] /\ chan'[m] = chan[m] BY <1>1, ActorFacts, NotificationFacts DEF Moves
<1>3. \A q \in Replicas : /\ pc'[Releaser(q)] = pc[Releaser(q)] /\ chan'[Releaser(q)] = chan[Releaser(q)]
                          /\ q # r => pc'[Flusher(q)] = pc[Flusher(q)] /\ chan'[Flusher(q)] = chan[Flusher(q)]
  BY <1>1, ActorFacts DEF Moves
<1>4. ASSUME NEW x \in Rows
      PROVE  \/ status'[x] = status[x] /\ queued'[x] = queued[x]
             \/ x = digest[r] /\ x \in Digests /\ Fans(Flusher(r), x)
             \/ CreateDigest(r) /\ Appears(r, x)
             \/ x \in items[r] /\ Uncap(r) /\ queued'[x] = queued[x] /\ status[x] = "CAPPED" /\ status'[x] = "DIGEST_PENDING"
             \/ x \in items[r] /\ Mark(r) /\ queued'[x] = queued[x] /\ status'[x] = "DIGESTED"
  <2>0. status \in [Rows -> NotificationStatus \cup {"absent"}] BY DEF RowTypes
  <2>a. ASSUME NEW y, NEW s, Writes(y, s), y # x PROVE status'[x] = status[x] /\ queued'[x] = queued[x]
    BY <2>0, <2>a DEF Writes
  <2>1. CASE Fans(Flusher(r), digest[r])
    <3>1. digest[r] \in Digests BY <2>1, FanFrame DEF Fans, FanPc, Sending, FlushTypes
    <3> QED BY <2>1, <3>1, FansRow, ActorFacts DEF Rows
  <2>2. CASE CreateDigest(r) /\ \E d \in Digests : Appears(r, d) BY <2>a, <2>2 DEF Appears
  <2>3. CASE Uncap(r) /\ Uncaps(r) BY <2>0, <2>3 DEF Uncaps
  <2>4. CASE Mark(r) /\ \E n \in items[r] : Writes(n, "DIGESTED")
    <3>1. PICK n \in items[r] : Writes(n, "DIGESTED") BY <2>4
    <3>2. CASE n = x BY <2>0, <2>4, <3>1, <3>2 DEF Writes
    <3> QED BY <2>a, <3>1, <3>2
  <2>5. CASE SameRow BY <2>5 DEF SameRow
  <2> QED BY <2>1, <2>2, <2>3, <2>4, <2>5, FRows
<1>5. ASSUME NEW n \in Notifications
      PROVE  /\ queued'[n] = queued[n]
             /\ \/ status'[n] = status[n]
                \/ n \in items[r] /\ Uncap(r) /\ status[n] = "CAPPED" /\ status'[n] = "DIGEST_PENDING"
                \/ n \in items[r] /\ Mark(r) /\ status'[n] = "DIGESTED"
  <2>1. n \in Rows /\ n \notin Digests BY NotificationFacts
  <2> QED BY <1>4, <2>1 DEF Appears
<1>6. ASSUME NEW d \in Digests
      PROVE  \/ status'[d] = status[d] /\ queued'[d] = queued[d]
             \/ d = digest[r] /\ Fans(Flusher(r), d)
             \/ CreateDigest(r) /\ Appears(r, d)
  <2>1. d \in Rows /\ d \notin items[r] BY EngineAssumption DEF Rows, FlushTypes
  <2> QED BY <1>4, <2>1
<1> QED BY <1>2, <1>3, <1>5, <1>6

-----------------------------------------------------------------------------
(***************************************************************************)
(* The first invariant: one actor at most has a row in hand, and a row's   *)
(* status says how far it has gone.                                        *)
(***************************************************************************)

DigestSide == {"DIGEST_PENDING", "CAPPED", "DIGESTED"}
Out == {"QUEUED", "DLQ"}
Holds(r, n) == pc[Releaser(r)] \in Releasing /\ cur[r] = n

\* A run of process() and the status it has written.
RunFits(n) ==
    /\ pc[n] = "route" => status[n] = "CREATED"
    /\ pc[n] = "hold" => status[n] = "ENRICHED"
    /\ pc[n] = "bucket" => status[n] \in DigestSide
    /\ pc[n] = "quietQueue" => status[n] = "QUIET"
    /\ pc[n] = "schedule" => status[n] = IF decision[n] = "quiet" THEN "QUIET" ELSE "ROUTED"

\* What is scheduled or in a poller's hands was held, and is in one place.
Held(n) == pc[n] = "done" /\ decision[n] \in {"quiet", "sto"} /\ status[n] \notin {"CREATED", "ENRICHED"}
HoldFits(n) ==
    /\ n \in scheduled => Held(n) /\ \A r \in Replicas : ~Holds(r, n)
    /\ \A r \in Replicas : Holds(r, n) =>
          /\ Held(n)
          /\ pc[Releaser(r)] \in {"deferStatus", "resumeStatus"} => status[n] = "QUIET"
          /\ pc[Releaser(r)] = "deferBucket" => status[n] \in DigestSide
          /\ \A q \in Replicas : Holds(q, n) => q = r

\* A row that is not out has nothing on its channels; none has a message twice.
RowFits(x) ==
    /\ status[x] \notin Out => \A c \in Channels : queued[x][c] = 0
    /\ \A c \in Channels : queued[x][c] <= 1

\* A fan-out: the channels to come are untouched.
FanFits(a, x) ==
    pc[a] \in FanPc =>
       /\ pc[a] = "queue" /\ chan[a] = 1 => status[x] = "ROUTED"
       /\ pc[a] = "publish" \/ chan[a] # 1 => status[x] \in Out
       /\ \A c \in Channels : c >= chan[a] => queued[x][c] = 0

\* Digests: each flusher its own row, with its items from its creation on.
DigestFits(r) ==
    /\ digest[r] \in Digests => status[digest[r]] # "absent"
    /\ \A q \in Replicas : digest[r] \in Digests /\ digest[q] = digest[r] => q = r

DigestRow(d) == status[d] \in {"absent", "ROUTED", "QUEUED", "DLQ"} /\ (status[d] = "absent" => digestOf[d] = {})

\* What has been in a bucket is on the digest's side for good.
OnDigestSide(n) ==
    \/ \E s \in Sources : n \in buckets[s]
    \/ \E r \in Replicas : n \in ids[r] \/ n \in items[r]
    \/ \E d \in Digests : n \in digestOf[d]
SideFits(n) == OnDigestSide(n) => status[n] \in DigestSide

Rowwise ==
    /\ \A n \in Notifications : RunFits(n) /\ HoldFits(n) /\ SideFits(n) /\ FanFits(n, n)
    /\ \A x \in Rows : RowFits(x)
    /\ \A r \in Replicas : FanFits(Releaser(r), cur[r]) /\ FanFits(Flusher(r), digest[r]) /\ DigestFits(r)
    /\ \A d \in Digests : DigestRow(d)


\* A step of fanOut leaves its row out, and as its channels say.
LEMMA FansFit ==
    ASSUME PcTypes, RowTypes, NEW a \in Actors, NEW x \in Rows, Fans(a, x), FanFits(a, x), RowFits(x),
           After(a) \notin FanPc
    PROVE  /\ status'[x] \in Out
           /\ \A c \in Channels : queued'[x][c] <= 1
           /\ pc'[a] \in FanPc =>
                /\ ~(pc'[a] = "queue" /\ chan'[a] = 1)
                /\ \A c \in Channels : c >= chan'[a] => queued'[x][c] = 0
<1>0. /\ pc[a] \in FanPc /\ FanPc = {"queue", "publish"} /\ chan[a] \in Channels
      /\ \A c \in Channels : c # chan[a] => queued'[x][c] = queued[x][c]
      /\ queued'[x][chan[a]] = queued[x][chan[a]] \/ (pc[a] = "publish" /\ queued'[x][chan[a]] = queued[x][chan[a]] + 1)
  BY FansRow, PcSets DEF PcTypes
<1>1. /\ pc[a] = "queue" /\ chan[a] = 1 => status[x] = "ROUTED"
      /\ pc[a] = "publish" \/ chan[a] # 1 => status[x] \in Out
      /\ \A c \in Channels : c >= chan[a] => queued[x][c] = 0
  BY <1>0 DEF FanFits
<1>a. \A c \in Channels : c \in Nat /\ c >= 1 BY EngineAssumption DEF Channels
<1>2. status'[x] \in Out
  <2>1. CASE Queues(a, x) BY <1>1, <2>1 DEF Queues, Out, RowTypes
  <2>2. CASE Publishes(a, x) BY <1>1, <2>2 DEF Publishes
  <2>3. CASE DeadLetters(a, x) BY <1>1, <2>3 DEF DeadLetters, Out, RowTypes
  <2> QED BY <2>1, <2>2, <2>3 DEF Fans
<1>3. \A c \in Channels : queued'[x][c] <= 1
  <2>1. queued[x][chan[a]] = 0 BY <1>0, <1>1, <1>a
  <2> QED BY <1>0, <2>1 DEF RowFits
<1>4. ASSUME pc'[a] \in FanPc
      PROVE  /\ ~(pc'[a] = "queue" /\ chan'[a] = 1)
             /\ \A c \in Channels : c >= chan'[a] => queued'[x][c] = 0
  <2>1. CASE Queues(a, x) BY <1>1, <2>1 DEF Queues, Moves
  <2>2. CASE On(a)
    <3>1. chan'[a] = chan[a] + 1 BY <1>4, <2>2 DEF On, Moves
    <3> QED BY <1>0, <1>1, <1>a, <3>1
  <2> QED BY <2>1, <2>2 DEF Fans, DeadLetters, Publishes
<1> QED BY <1>2, <1>3, <1>4

LEMMA RunFitsNext ==
    ASSUME Types, Rowwise, [Next]_vars, NEW n \in Notifications
    PROVE  RunFits(n)'
<1> USE DEF Types
<1>0. n \in Rows /\ n \in Actors /\ After(n) = "done" BY NotificationFacts
<1>a. RunFits(n) /\ HoldFits(n) /\ SideFits(n) BY DEF Rowwise
<1>b. status \in [Rows -> NotificationStatus \cup {"absent"}] BY DEF RowTypes
<1>1. CASE NStep(n)
  <2>1. CASE Fans(n, n)
    <3>1. pc'[n] \in {"publish", "queue", "done"} BY <1>0, <2>1, FanMoves, PcSets DEF Fans, Moves
    <3> QED BY <3>1 DEF RunFits
  <2>2. CASE Route(n) /\ Moves(n, "hold") /\ Writes(n, "ENRICHED") BY <1>0, <1>b, <2>2 DEF RunFits, Moves, Writes
  <2>3. CASE Hold(n)
    <3>1. decision' = decision BY <2>3 DEF Hold, event
    <3> QED BY <1>0, <1>1, <1>b, <2>1, <2>3, <3>1, NSteps
            DEF RunFits, Moves, Writes, DigestSide, Hold, Bucket, QuietQueue, scheduleRelease, EngineThrows, Route
  <2>4. CASE QuietQueue(n) /\ Moves(n, "schedule") /\ SameRow
    <3>1. decision'[n] = "quiet" /\ status'[n] = "QUIET"
      BY <1>a, <2>4 DEF QuietQueue, event, EventTypes, RunFits, SameRow
    <3> QED BY <2>4, <3>1 DEF RunFits, Moves
  <2>5. CASE Moves(n, "done") BY <2>5 DEF RunFits, Moves
  <2> QED BY <1>1, <2>1, <2>2, <2>3, <2>4, <2>5, NSteps
<1>2. ASSUME NEW m \in Notifications, NStep(m), m # n PROVE RunFits(n)'
  BY <1>0, <1>2, <1>a, NOthers DEF RunFits
<1>3. ASSUME NEW r \in Replicas, RStep(r) PROVE RunFits(n)'
  <2>1. pc'[n] = pc[n] /\ decision' = decision BY <1>3, RFrame, ROthers
  <2>2. status'[n] = status[n] \/ Holds(r, n) BY <1>0, <1>3, ROthers DEF Holds
  <2>3. Holds(r, n) => pc[n] = "done" BY <1>a DEF HoldFits, Held
  <2> QED BY <1>a, <2>1, <2>2, <2>3 DEF RunFits
<1>4. ASSUME NEW r \in Replicas, FStep(r) PROVE RunFits(n)'
  <2>1. pc'[n] = pc[n] /\ decision' = decision BY <1>4, FFrame, FOthers
  <2>2. status'[n] = status[n] \/ (n \in items[r] /\ status'[n] \in DigestSide) BY <1>4, FOthers DEF DigestSide
  <2>3. n \in items[r] => status[n] \in DigestSide BY <1>a DEF SideFits, OnDigestSide
  <2> QED BY <1>a, <2>1, <2>2, <2>3 DEF RunFits, DigestSide
<1>5. CASE Dawn BY <1>5, <1>a, DawnFrame DEF RunFits
<1>6. ASSUME NEW r \in Replicas, Crash(r) PROVE RunFits(n)'
  <2>1. status' = status /\ decision' = decision BY <1>6, CrashFrame
  <2>2. pc'[n] = pc[n] \/ pc'[n] = "done" BY <1>6, CrashMoves
  <2> QED BY <1>a, <2>1, <2>2 DEF RunFits
<1>7. CASE UNCHANGED vars BY <1>7, <1>a, Frozen DEF RunFits
<1> QED BY <1>1, <1>2, <1>3, <1>4, <1>5, <1>6, <1>7, Steps

LEMMA HoldFitsNext ==
    ASSUME Types, Rowwise, [Next]_vars, NEW n \in Notifications
    PROVE  HoldFits(n)'
<1> USE DEF Types
<1>0. n \in Rows /\ n \in Actors /\ After(n) = "done" BY NotificationFacts
<1>a. RunFits(n) /\ HoldFits(n) /\ SideFits(n) BY DEF Rowwise
<1>b. status \in [Rows -> NotificationStatus \cup {"absent"}] BY DEF RowTypes
<1>1. CASE NStep(n)
  <2>1. n \notin scheduled /\ \A r \in Replicas : ~Holds(r, n) BY <1>1, <1>a, NOthers DEF HoldFits, Held
  <2>2. \A r \in Replicas : ~Holds(r, n)' BY <1>1, <2>1, NFrame, NOthers DEF Holds
  <2>3. CASE scheduleRelease(n)
    <3>1. decision' = decision /\ status' = status BY <2>3 DEF scheduleRelease, event, rows
    <3>2. decision[n] \in {"quiet", "sto"} /\ status[n] \in {"QUIET", "ROUTED"}
      BY <1>a, <2>3 DEF scheduleRelease, EventTypes, RunFits
    <3>3. pc'[n] = "done" BY <1>0, <2>3 DEF scheduleRelease, Go, PcTypes
    <3> QED BY <2>2, <3>1, <3>2, <3>3 DEF HoldFits, Held
  <2>4. CASE scheduled' = scheduled BY <2>1, <2>2, <2>4 DEF HoldFits
  <2> QED BY <1>1, <2>3, <2>4, NFrame
<1>2. ASSUME NEW m \in Notifications, NStep(m), m # n PROVE HoldFits(n)'
  <2>1. UNCHANGED cur /\ \A r \in Replicas : pc'[Releaser(r)] = pc[Releaser(r)] BY <1>2, NFrame, NOthers
  <2>2. pc'[n] = pc[n] /\ decision'[n] = decision[n] /\ status'[n] = status[n] /\ (n \in scheduled' <=> n \in scheduled)
    BY <1>0, <1>2, NOthers
  <2> QED BY <1>a, <2>1, <2>2 DEF HoldFits, Held, Holds
<1>3. ASSUME NEW r \in Replicas, RStep(r) PROVE HoldFits(n)'
  <2>0. /\ decision' = decision /\ pc'[n] = pc[n]
        /\ \A q \in Replicas : q # r => (Holds(q, n)' <=> Holds(q, n)) /\ pc'[Releaser(q)] = pc[Releaser(q)]
    BY <1>3, RFrame, ROthers DEF Holds
  <2>a. Releaser(r) \in Actors BY ActorFacts
  <2>1. CASE Claim(r)
    <3>0. status' = status BY <2>1 DEF Claim, rows
    <3>1. CASE batch[r] = {}
      <4>1. scheduled' = scheduled BY <2>1, <3>1 DEF Claim
      <4>2. ~Holds(r, n)' BY <2>1, <2>a, <3>1 DEF Claim, Go, PcTypes, Holds, Releasing
      <4> QED BY <1>a, <2>0, <3>0, <4>1, <4>2 DEF HoldFits, Held
    <3>2. CASE batch[r] # {}
      <4>1. PICK m \in batch[r] :
              /\ scheduled' = scheduled \ {m}
              /\ IF m \notin scheduled THEN UNCHANGED <<pc, chan, cur>>
                 ELSE /\ cur' = [cur EXCEPT ![r] = m]
                      /\ Go(Releaser(r), IF decision[m] = "quiet" /\ shouldBatchIntoDig(depth[r]) THEN "defer" ELSE "resume")
        BY <2>1, <3>2 DEF Claim
      <4>2. CASE m \notin scheduled BY <1>a, <3>0, <4>1, <4>2, <2>0 DEF HoldFits, Held, Holds
      <4>3. CASE m \in scheduled
        <5>1. cur'[r] = m /\ pc'[Releaser(r)] \in {"defer", "resume"} BY <2>a, <4>1, <4>3 DEF Go, PcTypes, PollTypes
        <5>2. pc[Releaser(r)] = "next" BY <2>1 DEF Claim
        <5>3. CASE m = n
          <6>1. Held(n) /\ \A q \in Replicas : ~Holds(q, n) BY <1>a, <4>3, <5>3 DEF HoldFits
          <6>2. n \notin scheduled' /\ \A q \in Replicas : Holds(q, n)' => q = r BY <2>0, <4>1, <5>3, <6>1
          <6>3. Held(n)' BY <2>0, <3>0, <6>1 DEF Held
          <6> QED BY <5>1, <6>2, <6>3 DEF HoldFits
        <5>4. CASE m # n
          <6>1. ~Holds(r, n)' BY <5>1, <5>4 DEF Holds
          <6>2. n \in scheduled' <=> n \in scheduled BY <4>1, <5>4
          <6> QED BY <1>a, <2>0, <3>0, <6>1, <6>2 DEF HoldFits, Held
        <5> QED BY <5>3, <5>4
      <4> QED BY <4>2, <4>3
    <3> QED BY <3>1, <3>2
  <2>2. CASE Reschedule(r)
    <3>1. status' = status /\ scheduled' = scheduled \cup {cur[r]} BY <2>2 DEF Reschedule, rows
    <3>2. ~Holds(r, n)' BY <2>2, <2>a DEF Reschedule, Go, PcTypes, Holds, Releasing
    <3>3. cur[r] = n => Holds(r, n) BY <2>2 DEF Reschedule, Holds, Releasing
    <3> QED BY <1>a, <2>0, <3>1, <3>2, <3>3 DEF HoldFits, Held
  <2>3. CASE ~Claim(r) /\ ~Reschedule(r)
    <3>1. scheduled' = scheduled /\ cur' = cur BY <1>3, <2>3, RFrame
    <3>2. Holds(r, n)' => Holds(r, n)
      <4>1. pc'[Releaser(r)] \in Releasing => pc[Releaser(r)] \in Releasing
        <5>1. Poll(r) => pc'[Releaser(r)] = "depth" BY <2>a DEF Poll, Go, PcTypes
        <5>2. Depth(r) => pc'[Releaser(r)] = "next" BY <2>a DEF Depth, Go, PcTypes
        <5>3. Defer(r) \/ DeferStatus(r) \/ DeferBucket(r) \/ Resume(r) \/ ResumeStatus(r) \/ ReleaseThrows(r)
              => pc[Releaser(r)] \in Releasing
          BY DEF Defer, DeferStatus, DeferBucket, Resume, ResumeStatus, ReleaseThrows, Releasing
        <5>4. FanOutStep(Releaser(r)) \/ QueueFails(Releaser(r)) => pc[Releaser(r)] \in Releasing BY FanFrame DEF FanPc, Releasing
        <5> QED BY <1>3, <2>3, <5>1, <5>2, <5>3, <5>4 DEF RStep, releaseDue, Releasing
      <4> QED BY <3>1, <4>1 DEF Holds
    <3>3. CASE ~Holds(r, n)
      <4>1. status'[n] = status[n] BY <1>0, <1>3, <3>3, ROthers DEF Holds
      <4> QED BY <1>a, <2>0, <3>1, <3>2, <3>3, <4>1 DEF HoldFits, Held
    <3>4. CASE Holds(r, n)
      <4>0. /\ Held(n) /\ n \notin scheduled /\ \A q \in Replicas : Holds(q, n) => q = r
            /\ pc[Releaser(r)] \in {"deferStatus", "resumeStatus"} => status[n] = "QUIET"
            /\ cur[r] = n
        BY <1>a, <3>4 DEF HoldFits, Holds
      <4>1. /\ status'[n] \notin {"CREATED", "ENRICHED"}
            /\ pc'[Releaser(r)] \in {"deferStatus", "resumeStatus"} => status'[n] = "QUIET"
            /\ pc'[Releaser(r)] = "deferBucket" => status'[n] \in DigestSide
        <5>1. CASE Defer(r) \/ Resume(r)
          <6>1. status' = status BY <5>1 DEF Defer, Resume, rows
          <6>2. CASE Defer(r) BY <4>0, <6>1, <6>2, <2>a DEF Defer, Go, PcTypes, Held
          <6>3. CASE Resume(r) BY <4>0, <6>1, <6>3, <2>a DEF Resume, Go, fanOut, PcTypes, Held
          <6> QED BY <5>1, <6>2, <6>3
        <5>2. CASE DeferStatus(r)
          <6>1. status'[n] = "DIGEST_PENDING" /\ pc'[Releaser(r)] = "deferBucket"
            BY <1>0, <1>b, <2>a, <4>0, <5>2 DEF DeferStatus, SetStatus, Go, PcTypes
          <6> QED BY <6>1 DEF DigestSide
        <5>3. CASE ResumeStatus(r)
          <6>1. status'[n] = "ROUTED" /\ pc'[Releaser(r)] = "queue"
            BY <1>0, <1>b, <2>a, <4>0, <5>3 DEF ResumeStatus, SetStatus, fanOut, PcTypes
          <6> QED BY <6>1
        <5>4. CASE Fans(Releaser(r), n)
          <6>1. FanFits(Releaser(r), n) /\ RowFits(n) BY <1>0, <4>0 DEF Rowwise
          <6>2. After(Releaser(r)) = "next" /\ "next" \notin FanPc /\ "next" \in AnyPc BY ActorFacts, PcSets
          <6>3. status'[n] \in Out BY <1>0, <2>a, <5>4, <6>1, <6>2, FansFit
          <6>4. pc'[Releaser(r)] \in {"publish", "queue", "next"} BY <2>a, <5>4, <6>2, FanMoves DEF Fans, Moves
          <6> QED BY <6>3, <6>4 DEF Out
        <5>5. CASE ReleaseThrows(r) \/ DeferBucket(r)
          <6>1. status' = status /\ pc'[Releaser(r)] \in {"failed", "next"}
            BY <5>5, <2>a DEF ReleaseThrows, DeferBucket, rows, Go, PcTypes
          <6> QED BY <4>0, <6>1 DEF Held
        <5>6. ~Poll(r) /\ ~Depth(r) BY <3>4 DEF Poll, Depth, Holds, Releasing
        <5> QED BY <1>3, <2>3, <4>0, <5>1, <5>2, <5>3, <5>4, <5>5, <5>6, RSteps, RRows DEF DeferStatus, ResumeStatus, FanPc,
                   FanOutStep, Queue, PublishChannel, QueueFails
      <4>2. Held(n)' BY <2>0, <4>0, <4>1 DEF Held
      <4> QED BY <2>0, <3>1, <3>2, <4>0, <4>1, <4>2 DEF HoldFits
    <3> QED BY <3>3, <3>4
  <2> QED BY <2>1, <2>2, <2>3
<1>4. ASSUME NEW r \in Replicas, FStep(r) PROVE HoldFits(n)'
  <2>1. pc'[n] = pc[n] /\ decision' = decision /\ scheduled' = scheduled /\ cur' = cur BY <1>4, FFrame, FOthers
  <2>2. \A q \in Replicas : pc'[Releaser(q)] = pc[Releaser(q)] BY <1>4, FOthers
  <2>3. status'[n] = status[n] \/ (n \in items[r] /\ status'[n] \in DigestSide) BY <1>4, FOthers DEF DigestSide
  <2>4. n \in items[r] => status[n] \in DigestSide BY <1>a DEF SideFits, OnDigestSide
  <2> QED BY <1>a, <2>1, <2>2, <2>3, <2>4 DEF HoldFits, Held, Holds, DigestSide
<1>5. CASE Dawn BY <1>5, <1>a, DawnFrame DEF HoldFits, Held, Holds
<1>6. ASSUME NEW r \in Replicas, Crash(r) PROVE HoldFits(n)'
  <2>1. status' = status /\ decision' = decision /\ scheduled' = scheduled /\ cur' = cur BY <1>6, CrashFrame
  <2>2. pc'[n] = pc[n] \/ pc'[n] = "done" BY <1>6, CrashMoves
  <2>3. \A q \in Replicas : pc'[Releaser(q)] = pc[Releaser(q)] \/ pc'[Releaser(q)] \notin Releasing
    BY <1>6, CrashMoves DEF Releasing
  <2> QED BY <1>a, <2>1, <2>2, <2>3 DEF HoldFits, Held, Holds
<1>7. CASE UNCHANGED vars BY <1>7, <1>a, Frozen DEF HoldFits, Held, Holds
<1> QED BY <1>1, <1>2, <1>3, <1>4, <1>5, <1>6, <1>7, Steps

\* The digest's side is never left.
LEMMA SideKept ==
    ASSUME Types, Rowwise, [Next]_vars, NEW n \in Notifications, status[n] \in DigestSide
    PROVE  status'[n] \in DigestSide
<1> USE DEF Types
<1>0. n \in Rows /\ n \in Actors BY NotificationFacts
<1>a. RunFits(n) /\ HoldFits(n) /\ FanFits(n, n) BY DEF Rowwise
<1>b. status \in [Rows -> NotificationStatus \cup {"absent"}] BY DEF RowTypes
<1>1. CASE NStep(n)
  <2>1. ~Route(n) /\ ~Hold(n) BY <1>a DEF Route, Hold, RunFits, DigestSide
  <2>2. ~Fans(n, n)
    <3>1. pc[n] \notin FanPc BY <1>a, PcSets DEF FanFits, DigestSide, Out
    <3> QED BY <1>0, <3>1, FanFrame DEF Fans
  <2> QED BY <1>1, <2>1, <2>2, NSteps DEF SameRow
<1>2. ASSUME NEW m \in Notifications, NStep(m), m # n PROVE status'[n] \in DigestSide
  BY <1>0, <1>2, NOthers
<1>3. ASSUME NEW r \in Replicas, RStep(r) PROVE status'[n] \in DigestSide
  <2>1. CASE Holds(r, n)
    <3>1. FanFits(Releaser(r), n) BY <2>1 DEF Rowwise, Holds
    <3>2. pc[Releaser(r)] \notin FanPc BY <3>1, PcSets DEF FanFits, DigestSide, Out
    <3>3. ~Fans(Releaser(r), cur[r]) BY <3>2, FanFrame DEF Fans
    <3>4. ~ResumeStatus(r) BY <1>a, <2>1 DEF HoldFits, ResumeStatus, DigestSide
    <3>5. DeferStatus(r) /\ Writes(cur[r], "DIGEST_PENDING") => status'[n] = "DIGEST_PENDING"
      BY <1>0, <1>b, <2>1 DEF Writes, Holds
    <3> QED BY <1>3, <3>3, <3>4, <3>5, RRows DEF SameRow, DigestSide
  <2>2. CASE ~Holds(r, n) BY <1>0, <1>3, <2>2, ROthers DEF Holds
  <2> QED BY <2>1, <2>2
<1>4. ASSUME NEW r \in Replicas, FStep(r) PROVE status'[n] \in DigestSide BY <1>4, FOthers DEF DigestSide
<1>5. CASE Dawn BY <1>5, DawnFrame
<1>6. ASSUME NEW r \in Replicas, Crash(r) PROVE status'[n] \in DigestSide BY <1>6, CrashFrame
<1>7. CASE UNCHANGED vars BY <1>7, Frozen
<1> QED BY <1>1, <1>2, <1>3, <1>4, <1>5, <1>6, <1>7, Steps

\* Only the end of process() and of a deferral bring a notification to that side.
LEMMA SideEntered ==
    ASSUME Types, [Next]_vars, NEW n \in Notifications, OnDigestSide(n)'
    PROVE  OnDigestSide(n) \/ Bucket(n) \/ \E r \in Replicas : DeferBucket(r) /\ cur[r] = n
<1> USE DEF Types, OnDigestSide
<1>1. ASSUME NEW m \in Notifications, NStep(m) PROVE OnDigestSide(n) \/ Bucket(n)
  <2>1. UNCHANGED <<ids, items, digestOf>> BY <1>1, NFrame
  <2>2. CASE Bucket(m)
    <3>1. buckets' = [buckets EXCEPT ![decision[m]] = @ \cup {m}] BY <2>2 DEF Bucket, add
    <3>2. \A s \in Sources : n \in buckets'[s] => n \in buckets[s] \/ n = m BY <3>1 DEF SetTypes
    <3> QED BY <2>1, <2>2, <3>2
  <2> QED BY <1>1, <2>1, <2>2, NFrame
<1>2. ASSUME NEW r \in Replicas, RStep(r) PROVE OnDigestSide(n) \/ (DeferBucket(r) /\ cur[r] = n)
  <2>1. UNCHANGED <<ids, items, digestOf>> BY <1>2, RFrame
  <2>2. CASE DeferBucket(r)
    <3>1. buckets' = [buckets EXCEPT !["quiet"] = @ \cup {cur[r]}] BY <2>2 DEF DeferBucket, add
    <3>2. \A s \in Sources : n \in buckets'[s] => n \in buckets[s] \/ n = cur[r] BY <3>1 DEF SetTypes
    <3> QED BY <2>1, <2>2, <3>2
  <2> QED BY <1>2, <2>1, <2>2, RFrame
<1>3. ASSUME NEW r \in Replicas, FStep(r) PROVE OnDigestSide(n)
  <2>1. \A s \in Sources : n \in buckets'[s] => OnDigestSide(n)
    <3>1. CASE Take(r)
      <4>1. PICK s \in claimed[r] : buckets' = [buckets EXCEPT ![s] = {}] BY <3>1 DEF Take
      <4> QED BY <4>1 DEF SetTypes
    <3>2. CASE Restore(r)
      <4>1. buckets' = [buckets EXCEPT ![source[r]] = @ \cup ids[r]] BY <3>2 DEF Restore
      <4>2. \A s \in Sources : n \in buckets'[s] => n \in buckets[s] \/ n \in ids[r] BY <4>1 DEF SetTypes
      <4> QED BY <4>2
    <3> QED BY <1>3, <3>1, <3>2, FFrame
  <2>2. \A q \in Replicas : n \in ids'[q] => OnDigestSide(n)
    <3>1. CASE Take(r)
      <4>1. PICK s \in claimed[r] : ids' = [ids EXCEPT ![r] = buckets[s]] BY <3>1 DEF Take
      <4>2. s \in Sources BY DEF FlushTypes
      <4> QED BY <4>1, <4>2 DEF FlushTypes
    <3>2. CASE Find(r) BY <3>2 DEF Find, FlushTypes
    <3>3. CASE Mark(r) BY <3>3 DEF Mark, FlushTypes
    <3>4. CASE Restore(r) BY <3>4 DEF Restore, FlushTypes
    <3>5. CASE FlushThrows(r) BY <3>5 DEF FlushThrows, FlushTypes
    <3> QED BY <1>3, <3>1, <3>2, <3>3, <3>4, <3>5, FFrame
  <2>3. \A q \in Replicas : n \in items'[q] => OnDigestSide(n)
    <3>1. CASE Find(r) BY <3>1 DEF Find, FlushTypes
    <3>2. CASE Mark(r) BY <3>2 DEF Mark, FlushTypes
    <3>3. CASE Restore(r) BY <3>3 DEF Restore, FlushTypes
    <3> QED BY <1>3, <3>1, <3>2, <3>3, FFrame
  <2>4. \A d \in Digests : n \in digestOf'[d] => OnDigestSide(n)
    <3>1. CASE CreateDigest(r) BY <3>1 DEF CreateDigest, RowTypes
    <3> QED BY <1>3, <3>1, FFrame
  <2> QED BY <2>1, <2>2, <2>3, <2>4
<1>4. CASE Dawn BY <1>4, DawnFrame
<1>5. ASSUME NEW r \in Replicas, Crash(r) PROVE OnDigestSide(n)
  <2>1. UNCHANGED <<buckets, digestOf>> /\ ids' = [ids EXCEPT ![r] = {}] /\ items' = [items EXCEPT ![r] = {}]
    BY <1>5, CrashFrame
  <2> QED BY <2>1 DEF FlushTypes
<1>6. CASE UNCHANGED vars BY <1>6, Frozen
<1> QED BY <1>1, <1>2, <1>3, <1>4, <1>5, <1>6, Steps

LEMMA SideFitsNext ==
    ASSUME Types, Rowwise, [Next]_vars, NEW n \in Notifications
    PROVE  SideFits(n)'
<1>1. CASE OnDigestSide(n) BY <1>1, SideKept DEF SideFits, Rowwise
<1>2. CASE Bucket(n)
  <2>1. status[n] \in DigestSide BY <1>2 DEF Bucket, Rowwise, RunFits
  <2> QED BY <2>1, SideKept DEF SideFits
<1>3. ASSUME NEW r \in Replicas, DeferBucket(r), cur[r] = n PROVE SideFits(n)'
  <2>1. Holds(r, n) /\ pc[Releaser(r)] = "deferBucket" BY <1>3 DEF DeferBucket, Holds, Releasing
  <2>2. status[n] \in DigestSide BY <2>1 DEF Rowwise, HoldFits
  <2> QED BY <2>2, SideKept DEF SideFits
<1> QED BY <1>1, <1>2, <1>3, SideEntered DEF SideFits

\* Fan-outs of process(), of a release and of a digest.
LEMMA FanFitsN ==
    ASSUME Types, Rowwise, [Next]_vars, NEW n \in Notifications
    PROVE  FanFits(n, n)'
<1> USE DEF Types
<1>0. n \in Rows /\ n \in Actors /\ After(n) = "done" /\ FanPc = {"queue", "publish"} BY NotificationFacts, PcSets
<1>a. RunFits(n) /\ HoldFits(n) /\ SideFits(n) /\ FanFits(n, n) /\ RowFits(n) BY <1>0 DEF Rowwise
<1>b. status \in [Rows -> NotificationStatus \cup {"absent"}] /\ chan \in [Actors -> Channels] BY DEF RowTypes, PcTypes
<1>1. CASE NStep(n)
  <2>1. CASE Fans(n, n)
    <3>1. "done" \notin FanPc BY PcSets
    <3> QED BY <1>0, <1>a, <2>1, <3>1, FansFit DEF FanFits
  <2>2. CASE Moves(n, "queue") /\ chan'[n] = 1 /\ Writes(n, "ROUTED") /\ Hold(n)
    <3>1. status'[n] = "ROUTED" /\ queued' = queued BY <1>0, <1>b, <2>2 DEF Writes
    <3>2. status[n] = "ENRICHED" BY <1>a, <2>2 DEF Hold, RunFits
    <3>3. \A c \in Channels : queued'[n][c] = 0 BY <1>a, <3>1, <3>2 DEF RowFits, Out
    <3> QED BY <2>2, <3>1, <3>3 DEF FanFits, Moves
  <2>3. CASE \E l \in {"hold", "bucket", "quietQueue", "schedule", "done"} : Moves(n, l)
    BY <2>3 DEF Moves, FanFits, FanPc
  <2> QED BY <1>1, <2>1, <2>2, <2>3, NSteps
<1>2. ASSUME NEW m \in Notifications, NStep(m), m # n PROVE FanFits(n, n)'
  BY <1>0, <1>2, <1>a, NOthers DEF FanFits
<1>3. ASSUME NEW r \in Replicas, RStep(r) PROVE FanFits(n, n)'
  <2>1. pc'[n] = pc[n] /\ chan'[n] = chan[n] BY <1>3, ROthers
  <2>2. (status'[n] = status[n] /\ queued'[n] = queued[n]) \/ Holds(r, n) BY <1>0, <1>3, ROthers DEF Holds
  <2>3. Holds(r, n) => pc[n] = "done" BY <1>a DEF HoldFits, Held
  <2> QED BY <1>0, <1>a, <2>1, <2>2, <2>3 DEF FanFits
<1>4. ASSUME NEW r \in Replicas, FStep(r) PROVE FanFits(n, n)'
  <2>1. pc'[n] = pc[n] /\ chan'[n] = chan[n] /\ queued'[n] = queued[n] BY <1>4, FOthers
  <2>2. status'[n] = status[n] \/ n \in items[r] BY <1>4, FOthers
  <2>3. n \in items[r] => status[n] \in DigestSide BY <1>a DEF SideFits, OnDigestSide
  <2>4. n \in items[r] => pc[n] \notin FanPc BY <1>0, <1>a, <2>3 DEF FanFits, DigestSide, Out
  <2> QED BY <1>0, <1>a, <2>1, <2>2, <2>4 DEF FanFits
<1>5. CASE Dawn BY <1>5, <1>a, DawnFrame DEF FanFits
<1>6. ASSUME NEW r \in Replicas, Crash(r) PROVE FanFits(n, n)'
  <2>1. status' = status /\ queued' = queued /\ chan' = chan BY <1>6, CrashFrame
  <2>2. pc'[n] = pc[n] \/ pc'[n] = "done" BY <1>6, CrashMoves
  <2> QED BY <1>0, <1>a, <2>1, <2>2 DEF FanFits
<1>7. CASE UNCHANGED vars BY <1>7, <1>a, Frozen DEF FanFits
<1> QED BY <1>1, <1>2, <1>3, <1>4, <1>5, <1>6, <1>7, Steps

LEMMA FanFitsR ==
    ASSUME Types, Rowwise, [Next]_vars, NEW q \in Replicas
    PROVE  FanFits(Releaser(q), cur[q])'
<1> DEFINE a == Releaser(q)
<1> USE DEF Types
<1>0. /\ a \in Actors /\ After(a) = "next" /\ FanPc = {"queue", "publish"} /\ "next" \notin FanPc /\ "next" \in AnyPc
      /\ FanPc \subseteq Releasing
  BY ActorFacts, PcSets DEF Releasing
<1>a. FanFits(a, cur[q]) BY DEF Rowwise
<1>b. status \in [Rows -> NotificationStatus \cup {"absent"}] /\ chan \in [Actors -> Channels] BY DEF RowTypes, PcTypes
<1>c. pc[a] \in Releasing => /\ cur[q] \in Notifications /\ cur[q] \in Rows /\ Holds(q, cur[q])
                             /\ HoldFits(cur[q]) /\ SideFits(cur[q]) /\ RowFits(cur[q])
  BY NotificationFacts DEF PollTypes, Holds, Rowwise
<1>d. a = Releaser(q) OBVIOUS
<1> HIDE DEF a
<1>e. SUFFICES ASSUME pc'[a] \in FanPc
               PROVE  /\ pc'[a] = "queue" /\ chan'[a] = 1 => status'[cur'[q]] = "ROUTED"
                      /\ pc'[a] = "publish" \/ chan'[a] # 1 => status'[cur'[q]] \in Out
                      /\ \A c \in Channels : c >= chan'[a] => queued'[cur'[q]][c] = 0
  BY <1>d DEF FanFits
<1>f. ASSUME pc'[a] = pc[a], chan'[a] = chan[a], cur'[q] = cur[q],
             status'[cur[q]] = status[cur[q]], queued'[cur[q]] = queued[cur[q]]
      PROVE  /\ pc'[a] = "queue" /\ chan'[a] = 1 => status'[cur'[q]] = "ROUTED"
             /\ pc'[a] = "publish" \/ chan'[a] # 1 => status'[cur'[q]] \in Out
             /\ \A c \in Channels : c >= chan'[a] => queued'[cur'[q]][c] = 0
  BY <1>a, <1>e, <1>f DEF FanFits
<1>1. ASSUME NEW m \in Notifications, NStep(m)
      PROVE  /\ pc'[a] = pc[a] /\ chan'[a] = chan[a] /\ cur'[q] = cur[q]
             /\ status'[cur[q]] = status[cur[q]] /\ queued'[cur[q]] = queued[cur[q]]
  <2>1. pc'[a] = pc[a] /\ chan'[a] = chan[a] /\ cur' = cur BY <1>1, <1>d, NFrame, NOthers
  <2>2. cur[q] # m /\ cur[q] \in Rows
    <3>1. pc[a] \in Releasing BY <1>0, <1>e, <2>1
    <3>2. pc[cur[q]] = "done" BY <1>c, <3>1 DEF HoldFits, Held
    <3> QED BY <1>1, <1>c, <3>1, <3>2, NOthers
  <2> QED BY <1>1, <2>1, <2>2, NOthers
<1>2. CASE RStep(q)
  <2>1. CASE Fans(a, cur[q])
    <3>1. pc[a] \in FanPc BY <2>1, FanFrame DEF Fans
    <3>2. cur' = cur BY <2>1, FanFrame DEF Fans
    <3>3. /\ status'[cur[q]] \in Out
          /\ ~(pc'[a] = "queue" /\ chan'[a] = 1)
          /\ \A c \in Channels : c >= chan'[a] => queued'[cur[q]][c] = 0
      BY <1>0, <1>a, <1>c, <1>e, <2>1, <3>1, FansFit
    <3> QED BY <1>e, <3>2, <3>3
  <2>2. CASE Resume(q)
    <3>1. pc[a] \in Releasing /\ cur' = cur /\ status' = status /\ queued' = queued
      BY <1>d, <2>2 DEF Resume, Releasing, poller, rows
    <3>2. status[cur[q]] = "ROUTED" /\ pc'[a] = "queue" /\ chan'[a] = 1
      BY <1>0, <1>b, <1>d, <1>e, <2>2 DEF Resume, Go, fanOut, PcTypes
    <3>3. \A c \in Channels : queued[cur[q]][c] = 0 BY <1>c, <3>1, <3>2 DEF RowFits, Out
    <3> QED BY <3>1, <3>2, <3>3
  <2>3. CASE ResumeStatus(q)
    <3>1. pc[a] = "resumeStatus" /\ cur' = cur /\ Writes(cur[q], "ROUTED")
      BY <1>d, <2>3 DEF ResumeStatus, SetStatus, Writes, poller
    <3>2. pc[a] \in Releasing BY <3>1 DEF Releasing
    <3>3. status[cur[q]] = "QUIET" BY <1>c, <1>d, <3>1, <3>2 DEF HoldFits
    <3>4. pc'[a] = "queue" /\ chan'[a] = 1 BY <1>0, <1>b, <1>d, <2>3 DEF ResumeStatus, fanOut, PcTypes
    <3>5. status'[cur[q]] = "ROUTED" /\ queued' = queued BY <1>b, <1>c, <3>1, <3>2 DEF Writes
    <3>6. \A c \in Channels : queued[cur[q]][c] = 0 BY <1>c, <3>2, <3>3 DEF RowFits, Out
    <3> QED BY <3>1, <3>4, <3>5, <3>6
  <2>4. CASE ~Fans(a, cur[q]) /\ ~Resume(q) /\ ~ResumeStatus(q)
    <3>1. RStep(q) /\ Releaser(q) = a BY <1>2, <1>d
    <3>2. ~(FanOutStep(a) \/ QueueFails(a))
      <4>1. ASSUME FanOutStep(a) \/ QueueFails(a) PROVE FALSE
        <5>1. pc[a] \in FanPc BY <4>1, FanFrame
        <5>2. cur[q] \in Rows BY <1>0, <1>c, <5>1
        <5>3. RowOf(a) = cur[q] BY <1>d, ActorFacts
        <5> QED BY <1>0, <2>4, <4>1, <5>2, <5>3, FanRows DEF Fans
      <4> QED BY <4>1
    <3> QED BY <1>0, <1>e, <2>4, <3>1, <3>2, RSteps DEF Moves
  <2> QED BY <2>1, <2>2, <2>3, <2>4
<1>3. ASSUME NEW r \in Replicas, r # q, RStep(r)
      PROVE  /\ pc'[a] = pc[a] /\ chan'[a] = chan[a] /\ cur'[q] = cur[q]
             /\ status'[cur[q]] = status[cur[q]] /\ queued'[cur[q]] = queued[cur[q]]
  <2>1. pc'[a] = pc[a] /\ chan'[a] = chan[a] /\ cur'[q] = cur[q] BY <1>3, <1>d, ROthers
  <2>2. pc[a] \in Releasing BY <1>0, <1>e, <2>1
  <2>3. ~(pc[Releaser(r)] \in Releasing /\ cur[r] = cur[q]) BY <1>3, <1>c, <2>2 DEF HoldFits, Holds
  <2> QED BY <1>3, <1>c, <2>1, <2>2, <2>3, ROthers
<1>4. ASSUME NEW r \in Replicas, FStep(r)
      PROVE  /\ pc'[a] = pc[a] /\ chan'[a] = chan[a] /\ cur'[q] = cur[q]
             /\ status'[cur[q]] = status[cur[q]] /\ queued'[cur[q]] = queued[cur[q]]
  <2>1. pc'[a] = pc[a] /\ chan'[a] = chan[a] /\ cur' = cur BY <1>4, <1>d, FFrame, FOthers
  <2>2. pc[a] \in FanPc /\ cur[q] \in Notifications BY <1>0, <1>c, <1>e, <2>1
  <2>3. cur[q] \notin items[r]
    <3>1. status[cur[q]] \notin DigestSide BY <1>0, <1>a, <2>2 DEF FanFits, DigestSide, Out
    <3> QED BY <1>0, <1>c, <2>2, <3>1 DEF SideFits, OnDigestSide
  <2> QED BY <1>4, <2>1, <2>2, <2>3, FOthers
<1>5. CASE Dawn BY <1>5, <1>f, DawnFrame
<1>6. ASSUME NEW r \in Replicas, Crash(r)
      PROVE  /\ pc'[a] = pc[a] /\ chan'[a] = chan[a] /\ cur'[q] = cur[q]
             /\ status'[cur[q]] = status[cur[q]] /\ queued'[cur[q]] = queued[cur[q]]
  <2>1. pc'[a] = pc[a] BY <1>0, <1>6, <1>d, <1>e, CrashMoves
  <2> QED BY <1>6, <2>1, CrashFrame
<1>7. CASE UNCHANGED vars BY <1>7, <1>f, Frozen
<1> QED BY <1>1, <1>2, <1>3, <1>4, <1>5, <1>6, <1>7, <1>f, Steps

LEMMA FanFitsF ==
    ASSUME Types, Rowwise, [Next]_vars, NEW q \in Replicas
    PROVE  FanFits(Flusher(q), digest[q])'
<1> DEFINE a == Flusher(q)
<1> USE DEF Types
<1>0. /\ a \in Actors /\ After(a) = "settle" /\ FanPc = {"queue", "publish"} /\ "settle" \notin FanPc /\ "settle" \in AnyPc
      /\ FanPc \subseteq Sending
  BY ActorFacts, PcSets DEF Sending
<1>a. FanFits(a, digest[q]) BY DEF Rowwise
<1>b. status \in [Rows -> NotificationStatus \cup {"absent"}] /\ chan \in [Actors -> Channels]
      /\ digest \in [Replicas -> Digests \cup {None}]
  BY DEF RowTypes, PcTypes, FlushTypes
<1>c. pc[a] \in Sending => /\ digest[q] \in Digests /\ digest[q] \in Rows /\ DigestFits(q) /\ RowFits(digest[q])
  BY DEF FlushTypes, Rows, Rowwise
<1>d. a = Flusher(q) OBVIOUS
<1> HIDE DEF a
<1>e. SUFFICES ASSUME pc'[a] \in FanPc
               PROVE  /\ pc'[a] = "queue" /\ chan'[a] = 1 => status'[digest'[q]] = "ROUTED"
                      /\ pc'[a] = "publish" \/ chan'[a] # 1 => status'[digest'[q]] \in Out
                      /\ \A c \in Channels : c >= chan'[a] => queued'[digest'[q]][c] = 0
  BY <1>d DEF FanFits
<1>f. ASSUME pc'[a] = pc[a], chan'[a] = chan[a], digest'[q] = digest[q],
             status'[digest[q]] = status[digest[q]], queued'[digest[q]] = queued[digest[q]]
      PROVE  /\ pc'[a] = "queue" /\ chan'[a] = 1 => status'[digest'[q]] = "ROUTED"
             /\ pc'[a] = "publish" \/ chan'[a] # 1 => status'[digest'[q]] \in Out
             /\ \A c \in Channels : c >= chan'[a] => queued'[digest'[q]][c] = 0
  BY <1>a, <1>e, <1>f DEF FanFits
<1>1. ASSUME NEW m \in Notifications, NStep(m)
      PROVE  /\ pc'[a] = pc[a] /\ chan'[a] = chan[a] /\ digest'[q] = digest[q]
             /\ status'[digest[q]] = status[digest[q]] /\ queued'[digest[q]] = queued[digest[q]]
  <2>1. pc'[a] = pc[a] /\ chan'[a] = chan[a] /\ digest' = digest BY <1>1, <1>d, NFrame, NOthers
  <2>2. digest[q] # m /\ digest[q] \in Rows BY <1>0, <1>c, <1>e, <1>1, <2>1, NotificationFacts
  <2> QED BY <1>1, <2>1, <2>2, NOthers
<1>2. ASSUME NEW r \in Replicas, RStep(r)
      PROVE  /\ pc'[a] = pc[a] /\ chan'[a] = chan[a] /\ digest'[q] = digest[q]
             /\ status'[digest[q]] = status[digest[q]] /\ queued'[digest[q]] = queued[digest[q]]
  <2>1. pc'[a] = pc[a] /\ chan'[a] = chan[a] /\ digest' = digest BY <1>2, <1>d, RFrame, ROthers
  <2>2. digest[q] \in Rows /\ digest[q] \in Digests BY <1>0, <1>c, <1>e, <2>1
  <2>3. ~(pc[Releaser(r)] \in Releasing /\ cur[r] = digest[q]) BY <2>2, NotificationFacts DEF PollTypes
  <2> QED BY <1>2, <2>1, <2>2, <2>3, ROthers
<1>3. CASE FStep(q)
  <2>1. CASE Fans(a, digest[q])
    <3>1. pc[a] \in FanPc BY <2>1, FanFrame DEF Fans
    <3>2. digest' = digest BY <2>1, FanFrame DEF Fans
    <3>3. /\ status'[digest[q]] \in Out
          /\ ~(pc'[a] = "queue" /\ chan'[a] = 1)
          /\ \A c \in Channels : c >= chan'[a] => queued'[digest[q]][c] = 0
      BY <1>0, <1>a, <1>c, <1>e, <2>1, <3>1, FansFit
    <3> QED BY <1>e, <3>2, <3>3
  <2>2. CASE CreateDigest(q)
    <3>1. PICK d \in Digests : Appears(q, d) BY <2>2 DEF CreateDigest, Appears, Writes
    <3>2. d \in Rows /\ RowFits(d) /\ status[d] = "absent" BY <3>1 DEF Rows, Rowwise, Appears
    <3>3. digest'[q] = d /\ status'[d] = "ROUTED" /\ queued' = queued BY <1>b, <3>1, <3>2 DEF Appears, Writes
    <3>4. pc'[a] = "queue" /\ chan'[a] = 1 BY <1>0, <1>b, <1>d, <2>2 DEF CreateDigest, fanOut, PcTypes
    <3>5. \A c \in Channels : queued[d][c] = 0 BY <3>2 DEF RowFits, Out
    <3> QED BY <3>3, <3>4, <3>5
  <2>3. CASE ~Fans(a, digest[q]) /\ ~CreateDigest(q)
    <3>1. FStep(q) /\ Flusher(q) = a BY <1>3, <1>d
    <3>2. ~(FanOutStep(a) \/ QueueFails(a))
      <4>1. ASSUME FanOutStep(a) \/ QueueFails(a) PROVE FALSE
        <5>1. pc[a] \in FanPc BY <4>1, FanFrame
        <5>2. digest[q] \in Rows BY <1>0, <1>c, <5>1
        <5>3. RowOf(a) = digest[q] BY <1>d, ActorFacts
        <5> QED BY <1>0, <2>3, <4>1, <5>2, <5>3, FanRows DEF Fans
      <4> QED BY <4>1
    <3> QED BY <1>0, <1>e, <2>3, <3>1, <3>2, FSteps DEF Moves
  <2> QED BY <2>1, <2>2, <2>3
<1>4. ASSUME NEW r \in Replicas, r # q, FStep(r)
      PROVE  /\ pc'[a] = pc[a] /\ chan'[a] = chan[a] /\ digest'[q] = digest[q]
             /\ status'[digest[q]] = status[digest[q]] /\ queued'[digest[q]] = queued[digest[q]]
  <2>1. pc'[a] = pc[a] /\ chan'[a] = chan[a] BY <1>4, <1>d, FOthers
  <2>2. digest'[q] = digest[q]
    <3>1. CASE FlushEnds(r) BY <1>4, <1>b, <3>1 DEF FlushEnds
    <3>2. CASE CreateDigest(r) BY <1>4, <1>b, <3>2 DEF CreateDigest
    <3> QED BY <1>4, <3>1, <3>2, FFrame
  <2>3. pc[a] \in Sending /\ digest[q] \in Digests BY <1>0, <1>c, <1>e, <2>1
  <2>4. digest[q] # digest[r] BY <1>4, <1>c, <2>3 DEF DigestFits
  <2>5. ~Appears(r, digest[q]) BY <1>c, <2>3 DEF DigestFits, Appears
  <2> QED BY <1>4, <2>1, <2>2, <2>3, <2>4, <2>5, FOthers
<1>5. CASE Dawn BY <1>5, <1>f, DawnFrame
<1>6. ASSUME NEW r \in Replicas, Crash(r)
      PROVE  /\ pc'[a] = pc[a] /\ chan'[a] = chan[a] /\ digest'[q] = digest[q]
             /\ status'[digest[q]] = status[digest[q]] /\ queued'[digest[q]] = queued[digest[q]]
  <2>1. pc'[a] = pc[a] BY <1>0, <1>6, <1>d, <1>e, CrashMoves
  <2> QED BY <1>6, <2>1, CrashFrame
<1>7. CASE UNCHANGED vars BY <1>7, <1>f, Frozen
<1> QED BY <1>1, <1>2, <1>3, <1>4, <1>5, <1>6, <1>7, <1>f, Steps

LEMMA RowFitsNext ==
    ASSUME Types, Rowwise, [Next]_vars, NEW x \in Rows
    PROVE  RowFits(x)'
<1> USE DEF Types
<1>a. RowFits(x) BY DEF Rowwise
<1>b. status \in [Rows -> NotificationStatus \cup {"absent"}] BY DEF RowTypes
<1>c. ASSUME queued' = queued, status[x] \notin Out PROVE RowFits(x)' BY <1>a, <1>c DEF RowFits
<1>d. ASSUME status'[x] = status[x], queued'[x] = queued[x] PROVE RowFits(x)' BY <1>a, <1>d DEF RowFits
<1>e. ASSUME NEW a \in Actors, Fans(a, x), FanFits(a, x), After(a) \notin FanPc PROVE RowFits(x)'
  BY <1>a, <1>e, FansFit DEF RowFits
<1>f. "done" \notin FanPc /\ "next" \notin FanPc /\ "settle" \notin FanPc BY PcSets
<1>1. ASSUME NEW n \in Notifications, NStep(n) PROVE RowFits(x)'
  <2>1. CASE n # x BY <1>1, <1>d, <2>1, NOthers
  <2>2. CASE n = x
    <3>1. RunFits(n) /\ FanFits(n, n) /\ n \in Actors /\ After(n) = "done" BY NotificationFacts DEF Rowwise
    <3>2. CASE Fans(n, n) BY <1>e, <1>f, <2>2, <3>1, <3>2
    <3>3. CASE Route(n) \/ Hold(n)
      <4>1. status[n] \notin Out BY <3>1, <3>3 DEF Route, Hold, RunFits, Out
      <4>2. queued' = queued BY <3>3 DEF Route, Hold, SetStatus
      <4> QED BY <1>c, <2>2, <4>1, <4>2
    <3>4. CASE SameRow BY <1>d, <3>4 DEF SameRow
    <3> QED BY <1>1, <3>2, <3>3, <3>4, NSteps
  <2> QED BY <2>1, <2>2
<1>2. ASSUME NEW r \in Replicas, RStep(r) PROVE RowFits(x)'
  <2>1. CASE ~(pc[Releaser(r)] \in Releasing /\ cur[r] = x) BY <1>2, <1>d, <2>1, ROthers
  <2>2. CASE pc[Releaser(r)] \in Releasing /\ cur[r] = x
    <3>1. /\ x \in Notifications /\ Holds(r, x) /\ HoldFits(x) /\ FanFits(Releaser(r), x)
          /\ Releaser(r) \in Actors /\ After(Releaser(r)) = "next"
      BY <2>2, ActorFacts DEF PollTypes, Holds, Rowwise
    <3>2. CASE Fans(Releaser(r), x) BY <1>e, <1>f, <3>1, <3>2
    <3>3. CASE DeferStatus(r) \/ ResumeStatus(r)
      <4>1. status[x] \notin Out BY <3>1, <3>3 DEF DeferStatus, ResumeStatus, HoldFits, Out
      <4>2. queued' = queued BY <3>3 DEF DeferStatus, ResumeStatus, SetStatus
      <4> QED BY <1>c, <4>1, <4>2
    <3>4. CASE SameRow BY <1>d, <3>4 DEF SameRow
    <3> QED BY <1>2, <2>2, <3>2, <3>3, <3>4, RRows
  <2> QED BY <2>1, <2>2
<1>3. ASSUME NEW r \in Replicas, FStep(r) PROVE RowFits(x)'
  <2>1. CASE x \in Notifications
    <3>1. queued'[x] = queued[x] BY <1>3, <2>1, FOthers
    <3>2. CASE x \in items[r]
      <4>1. status[x] \in DigestSide BY <2>1, <3>2 DEF Rowwise, SideFits, OnDigestSide
      <4>2. \A c \in Channels : queued[x][c] = 0 BY <1>a, <4>1 DEF RowFits, DigestSide, Out
      <4> QED BY <3>1, <4>2 DEF RowFits
    <3>3. CASE x \notin items[r]
      <4>1. status'[x] = status[x] BY <1>3, <2>1, <3>3, FOthers
      <4> QED BY <1>d, <3>1, <4>1
    <3> QED BY <3>2, <3>3
  <2>2. CASE x \in Digests
    <3>1. CASE x = digest[r] /\ Fans(Flusher(r), x)
      <4>1. FanFits(Flusher(r), x) /\ Flusher(r) \in Actors /\ After(Flusher(r)) = "settle"
        BY <3>1, ActorFacts DEF Rowwise
      <4> QED BY <1>e, <1>f, <3>1, <4>1
    <3>2. CASE Appears(r, x)
      <4>1. queued' = queued /\ status[x] \notin Out BY <3>2 DEF Appears, Writes, Out
      <4> QED BY <1>c, <4>1
    <3> QED BY <1>3, <1>d, <2>2, <3>1, <3>2, FOthers
  <2> QED BY <2>1, <2>2 DEF Rows
<1>4. CASE Dawn BY <1>4, <1>d, DawnFrame
<1>5. ASSUME NEW r \in Replicas, Crash(r) PROVE RowFits(x)' BY <1>5, <1>d, CrashFrame
<1>6. CASE UNCHANGED vars BY <1>6, <1>d, Frozen
<1> QED BY <1>1, <1>2, <1>3, <1>4, <1>5, <1>6, Steps

\* What becomes of a digest's row, and of the flushers' hold on it.
LEMMA DigestSteps ==
    ASSUME Types, Rowwise, [Next]_vars, NEW d \in Digests
    PROVE  \/ status'[d] = status[d] /\ queued'[d] = queued[d] /\ digestOf'[d] = digestOf[d]
           \/ \E r \in Replicas : FStep(r) /\ d = digest[r] /\ Fans(Flusher(r), d) /\ digestOf' = digestOf
           \/ \E r \in Replicas : CreateDigest(r) /\ Appears(r, d)
<1> USE DEF Types
<1>0. d \in Rows /\ d \notin Notifications BY EngineAssumption DEF Rows
<1>a. digestOf \in [Digests -> SUBSET Notifications] BY DEF RowTypes
<1>1. ASSUME NEW n \in Notifications, NStep(n)
      PROVE  status'[d] = status[d] /\ queued'[d] = queued[d] /\ digestOf'[d] = digestOf[d]
  BY <1>0, <1>1, NFrame, NOthers
<1>2. ASSUME NEW r \in Replicas, RStep(r)
      PROVE  status'[d] = status[d] /\ queued'[d] = queued[d] /\ digestOf'[d] = digestOf[d]
  <2>1. ~(pc[Releaser(r)] \in Releasing /\ cur[r] = d) BY <1>0 DEF PollTypes
  <2> QED BY <1>0, <1>2, <2>1, RFrame, ROthers
<1>3. ASSUME NEW r \in Replicas, FStep(r)
      PROVE  \/ status'[d] = status[d] /\ queued'[d] = queued[d] /\ digestOf'[d] = digestOf[d]
             \/ d = digest[r] /\ Fans(Flusher(r), d) /\ digestOf' = digestOf
             \/ CreateDigest(r) /\ Appears(r, d)
  <2>1. CASE CreateDigest(r)
    <3>1. PICK e \in Digests : Appears(r, e) BY <2>1 DEF CreateDigest, Appears, Writes
    <3>2. CASE e = d BY <2>1, <3>1, <3>2
    <3>3. CASE e # d BY <1>0, <1>a, <3>1, <3>3 DEF Appears, Writes, RowTypes
    <3> QED BY <3>2, <3>3
  <2>2. CASE ~CreateDigest(r)
    <3>1. digestOf' = digestOf BY <1>3, <2>2, FFrame
    <3> QED BY <1>3, <2>2, <3>1, FOthers
  <2> QED BY <2>1, <2>2
<1>4. CASE Dawn BY <1>4, DawnFrame
<1>5. ASSUME NEW r \in Replicas, Crash(r)
      PROVE  status'[d] = status[d] /\ queued'[d] = queued[d] /\ digestOf'[d] = digestOf[d]
  BY <1>5, CrashFrame
<1>6. CASE UNCHANGED vars BY <1>6, Frozen
<1> QED BY <1>1, <1>2, <1>3, <1>4, <1>5, <1>6, Steps

LEMMA FansOut ==
    ASSUME Types, Rowwise, NEW r \in Replicas, Fans(Flusher(r), digest[r])
    PROVE  digest[r] \in Digests /\ status'[digest[r]] \in Out
<1> USE DEF Types
<1>1. digest[r] \in Digests BY FanFrame DEF Fans, FanPc, Sending, FlushTypes
<1>2. digest[r] \in Rows BY <1>1 DEF Rows
<1>3. FanFits(Flusher(r), digest[r]) /\ RowFits(digest[r]) BY <1>2 DEF Rowwise
<1>4. Flusher(r) \in Actors /\ After(Flusher(r)) = "settle" /\ "settle" \notin FanPc BY ActorFacts, PcSets
<1> QED BY <1>1, <1>2, <1>3, <1>4, FansFit

LEMMA DigestRowNext ==
    ASSUME Types, Rowwise, [Next]_vars, NEW d \in Digests
    PROVE  DigestRow(d)' /\ (status[d] # "absent" => status'[d] # "absent")
<1>a. DigestRow(d) /\ d \in Rows BY DEF Rowwise, Rows
<1>1. CASE status'[d] = status[d] /\ digestOf'[d] = digestOf[d] BY <1>a, <1>1 DEF DigestRow
<1>2. ASSUME NEW r \in Replicas, d = digest[r], Fans(Flusher(r), d) PROVE DigestRow(d)' /\ status'[d] # "absent"
  <2>1. status'[d] \in Out BY <1>2, FansOut
  <2> QED BY <2>1 DEF DigestRow, Out
<1>3. ASSUME NEW r \in Replicas, Appears(r, d) PROVE DigestRow(d)' /\ status[d] = "absent"
  <2>1. status'[d] = "ROUTED" BY <1>a, <1>3 DEF Appears, Writes, Types, RowTypes
  <2> QED BY <1>3, <2>1 DEF DigestRow, Appears
<1> QED BY <1>1, <1>2, <1>3, DigestSteps

LEMMA DigestFitsNext ==
    ASSUME Types, Rowwise, [Next]_vars, NEW r \in Replicas
    PROVE  DigestFits(r)'
<1> USE DEF Types
<1>a. \A q \in Replicas : DigestFits(q) BY DEF Rowwise
<1>b. \A d \in Digests : status[d] # "absent" => status'[d] # "absent" BY DigestRowNext
<1>c. digest \in [Replicas -> Digests \cup {None}] /\ None \notin Digests BY EngineAssumption DEF FlushTypes
<1>1. CASE digest' = digest BY <1>1, <1>a, <1>b, <1>c DEF DigestFits
<1>2. ASSUME NEW q \in Replicas, FStep(q) PROVE DigestFits(r)'
  <2>1. CASE FlushEnds(q)
    <3>1. digest' = [digest EXCEPT ![q] = None] BY <2>1 DEF FlushEnds
    <3> QED BY <1>a, <1>b, <1>c, <3>1 DEF DigestFits
  <2>2. CASE CreateDigest(q)
    <3>1. PICK d \in Digests : Appears(q, d) BY <2>2 DEF CreateDigest, Appears, Writes
    <3>2. digest' = [digest EXCEPT ![q] = d] /\ status[d] = "absent" BY <3>1 DEF Appears
    <3>3. \A p \in Replicas : digest[p] # d BY <1>a, <3>2 DEF DigestFits
    <3>4. status'[d] = "ROUTED" BY <3>1 DEF Appears, Writes, RowTypes, Rows
    <3> QED BY <1>a, <1>b, <1>c, <3>2, <3>3, <3>4 DEF DigestFits
  <2> QED BY <1>1, <1>2, <2>1, <2>2, FFrame
<1>3. ASSUME NEW n \in Notifications, NStep(n) PROVE digest' = digest BY <1>3, NFrame
<1>4. ASSUME NEW q \in Replicas, RStep(q) PROVE digest' = digest BY <1>4, RFrame
<1>5. ASSUME NEW q \in Replicas, Crash(q) PROVE digest' = digest BY <1>5, CrashFrame
<1>6. Dawn \/ UNCHANGED vars => digest' = digest BY DawnFrame, Frozen
<1> QED BY <1>1, <1>2, <1>3, <1>4, <1>5, <1>6, Steps

LEMMA RowwiseInit ==
    ASSUME Init
    PROVE  Rowwise
<1> USE DEF Init
<1>1. \A r \in Replicas : pc[Releaser(r)] = "idle" /\ pc[Flusher(r)] = "idle" BY ActorFacts
<1>2. \A n \in Notifications : pc[n] = "route" /\ status[n] = "CREATED" /\ n \notin Digests BY NotificationFacts
<1>3. \A d \in Digests : status[d] = "absent" /\ digestOf[d] = {} /\ d \in Rows BY EngineAssumption DEF Rows
<1>4. "idle" \notin FanPc /\ "route" \notin FanPc BY PcSets
<1>5. \A n \in Notifications : RunFits(n) BY <1>2 DEF RunFits
<1>6. \A n \in Notifications : HoldFits(n) BY <1>1 DEF HoldFits, Holds, Releasing
<1>7. \A n \in Notifications : ~OnDigestSide(n) BY <1>3 DEF OnDigestSide
<1>8. \A n \in Notifications : FanFits(n, n) BY <1>2, <1>4 DEF FanFits
<1>9. \A x \in Rows : RowFits(x) BY DEF RowFits
<1>10. \A r \in Replicas : FanFits(Releaser(r), cur[r]) /\ FanFits(Flusher(r), digest[r]) BY <1>1, <1>4 DEF FanFits
<1>11. \A r \in Replicas : DigestFits(r) BY EngineAssumption DEF DigestFits
<1>12. \A d \in Digests : DigestRow(d) BY <1>3 DEF DigestRow
<1> QED BY <1>5, <1>6, <1>7, <1>8, <1>9, <1>10, <1>11, <1>12 DEF Rowwise, SideFits

LEMMA RowwiseNext ==
    ASSUME Types, Rowwise, [Next]_vars
    PROVE  Rowwise'
<1>1. \A n \in Notifications : RunFits(n)' /\ HoldFits(n)' /\ SideFits(n)' /\ FanFits(n, n)'
  BY RunFitsNext, HoldFitsNext, SideFitsNext, FanFitsN
<1>2. \A x \in Rows : RowFits(x)' BY RowFitsNext
<1>3. \A r \in Replicas : FanFits(Releaser(r), cur[r])' /\ FanFits(Flusher(r), digest[r])' /\ DigestFits(r)'
  BY FanFitsR, FanFitsF, DigestFitsNext
<1>4. \A d \in Digests : DigestRow(d)' BY DigestRowNext
<1> QED BY <1>1, <1>2, <1>3, <1>4 DEF Rowwise

\* One actor at most has a row in hand, and its status says how far it has gone:
\* what is scheduled is held, what is not out has no message on any channel, and
\* what has been in a bucket never goes out alone.
THEOREM RowwiseAlways == Spec => [](Types /\ Rowwise)
<1>1. Init => Types /\ Rowwise BY TypesInit, RowwiseInit
<1>2. Types /\ Rowwise /\ [Next]_vars => (Types /\ Rowwise)' BY TypesNext, RowwiseNext
<1> QED BY <1>1, <1>2, PTL DEF Spec

-----------------------------------------------------------------------------
(***************************************************************************)
(* A flush marks its items only once its digest is on the first queue.     *)
(***************************************************************************)

Went(d) == status[d] = "QUEUED" /\ queued[d][1] = 1

\* The digest lists what is being sent, and has gone out on its first channel,
\* or has been dead-lettered, by the time the flush is past that channel.
SendFits(r) ==
    /\ pc[Flusher(r)] \in Sending => items[r] \subseteq digestOf[digest[r]]
    /\ (pc[Flusher(r)] \in FanPc /\ chan[Flusher(r)] # 1) \/ pc[Flusher(r)] = "settle"
          => status[digest[r]] = "DLQ" \/ Went(digest[r])
    /\ pc[Flusher(r)] = "mark" => Went(digest[r])
MarkFits(n) == status[n] = "DIGESTED" => \E d \in Digests : n \in digestOf[d] /\ Went(d)
Marked == (\A r \in Replicas : SendFits(r)) /\ \A n \in Notifications : MarkFits(n)

\* What a step of fanOut makes of the first channel.
LEMMA FirstChannel ==
    ASSUME PcTypes, RowTypes, NEW a \in Actors, NEW x \in Rows, Fans(a, x), FanFits(a, x),
           chan[a] # 1 => status[x] = "DLQ" \/ Went(x)
    PROVE  /\ \/ status'[x] = "DLQ"
              \/ status'[x] = "QUEUED" /\ queued'[x][1] = 1
              \/ pc'[a] = "publish" /\ chan'[a] = 1
           /\ Went(x) => status'[x] = "QUEUED" /\ queued'[x][1] = 1
<1>0. 1 \in Channels /\ chan[a] \in Channels /\ pc[a] \in FanPc /\ FanPc = {"queue", "publish"}
  BY FansRow, PcSets, EngineAssumption DEF Channels, PcTypes
<1>1. /\ \A c \in Channels : c # chan[a] => queued'[x][c] = queued[x][c]
      /\ pc[a] = "publish" \/ chan[a] # 1 => status[x] \in Out
      /\ \A c \in Channels : c >= chan[a] => queued[x][c] = 0
  BY <1>0, FansRow DEF FanFits
<1>2. CASE chan[a] # 1
  <2>1. status' = status BY <1>2 DEF Fans, Queues, DeadLetters, Publishes
  <2>2. queued'[x][1] = queued[x][1] BY <1>0, <1>1, <1>2
  <2> QED BY <1>2, <2>1, <2>2 DEF Went
<1>3. CASE chan[a] = 1
  <2>0. queued[x][1] = 0 BY <1>0, <1>1, <1>3
  <2>1. CASE Queues(a, x) BY <1>3, <2>0, <2>1 DEF Queues, Moves, Went
  <2>2. CASE DeadLetters(a, x) BY <1>3, <2>0, <2>2 DEF DeadLetters, Went, RowTypes
  <2>3. CASE Publishes(a, x)
    <3>1. status' = status /\ status[x] \in {"QUEUED", "DLQ"} BY <1>1, <2>3 DEF Publishes, Out
    <3>2. queued'[x][1] = 1 BY <1>0, <1>3, <2>0, <2>3 DEF Publishes, RowTypes
    <3> QED BY <2>0, <3>1, <3>2 DEF Went
  <2> QED BY <2>1, <2>2, <2>3 DEF Fans
<1> QED BY <1>2, <1>3

LEMMA WentKept ==
    ASSUME Types, Rowwise, Marked, [Next]_vars, NEW d \in Digests, Went(d)
    PROVE  status'[d] = "QUEUED" /\ queued'[d][1] = 1 /\ digestOf'[d] = digestOf[d]
<1> USE DEF Types
<1>1. CASE status'[d] = status[d] /\ queued'[d] = queued[d] /\ digestOf'[d] = digestOf[d] BY <1>1 DEF Went
<1>2. ASSUME NEW r \in Replicas, d = digest[r], Fans(Flusher(r), d), digestOf' = digestOf
      PROVE  status'[d] = "QUEUED" /\ queued'[d][1] = 1 /\ digestOf'[d] = digestOf[d]
  <2>1. FanFits(Flusher(r), d) /\ Flusher(r) \in Actors /\ d \in Rows BY <1>2, ActorFacts DEF Rowwise, Rows
  <2> QED BY <1>2, <2>1, FirstChannel
<1>3. ASSUME NEW r \in Replicas, Appears(r, d) PROVE FALSE BY <1>3 DEF Appears, Went
<1> QED BY <1>1, <1>2, <1>3, DigestSteps

\* A flusher's digest is nobody else's.
LEMMA OwnDigest ==
    ASSUME Types, Rowwise, [Next]_vars, NEW q \in Replicas, digest[q] \in Digests
    PROVE  \/ /\ status'[digest[q]] = status[digest[q]] /\ queued'[digest[q]] = queued[digest[q]]
              /\ digestOf'[digest[q]] = digestOf[digest[q]]
           \/ FStep(q) /\ Fans(Flusher(q), digest[q]) /\ digestOf' = digestOf
<1>1. DigestFits(q) BY DEF Rowwise
<1>2. ASSUME NEW r \in Replicas, digest[q] = digest[r] PROVE r = q BY <1>1, <1>2 DEF DigestFits
<1>3. ASSUME NEW r \in Replicas, Appears(r, digest[q]) PROVE FALSE BY <1>1, <1>3 DEF DigestFits, Appears
<1>4. \A d \in Digests :
        \/ status'[d] = status[d] /\ queued'[d] = queued[d] /\ digestOf'[d] = digestOf[d]
        \/ \E r \in Replicas : FStep(r) /\ d = digest[r] /\ Fans(Flusher(r), d) /\ digestOf' = digestOf
        \/ \E r \in Replicas : CreateDigest(r) /\ Appears(r, d)
  BY DigestSteps
<1> QED BY <1>2, <1>3, <1>4

LEMMA SendFitsNext ==
    ASSUME Types, Rowwise, Marked, [Next]_vars, NEW q \in Replicas
    PROVE  SendFits(q)'
<1> DEFINE a == Flusher(q)
<1> USE DEF Types
<1>0. /\ a \in Actors /\ After(a) = "settle" /\ FanPc = {"queue", "publish"} /\ "settle" \in AnyPc
      /\ RowOf(a) = digest[q]
  BY ActorFacts, PcSets
<1>a. /\ pc[a] \in Sending => items[q] \subseteq digestOf[digest[q]]
      /\ (pc[a] \in FanPc /\ chan[a] # 1) \/ pc[a] = "settle" => status[digest[q]] = "DLQ" \/ Went(digest[q])
      /\ pc[a] = "mark" => Went(digest[q])
  BY DEF Marked, SendFits
<1>b. digest \in [Replicas -> Digests \cup {None}] /\ items \in [Replicas -> SUBSET Notifications]
      /\ digestOf \in [Digests -> SUBSET Notifications]
  BY DEF FlushTypes, RowTypes
<1>c. pc[a] \in Sending => digest[q] \in Digests BY DEF FlushTypes
<1>d. a = Flusher(q) OBVIOUS
<1> HIDE DEF a
<1>e. SUFFICES ASSUME pc'[a] \in Sending
               PROVE  /\ items'[q] \subseteq digestOf'[digest'[q]]
                      /\ (pc'[a] \in FanPc /\ chan'[a] # 1) \/ pc'[a] = "settle"
                           => status'[digest'[q]] = "DLQ" \/ (status'[digest'[q]] = "QUEUED" /\ queued'[digest'[q]][1] = 1)
                      /\ pc'[a] = "mark" => status'[digest'[q]] = "QUEUED" /\ queued'[digest'[q]][1] = 1
  <2>1. FanPc \cup {"settle", "mark"} = Sending BY <1>0 DEF Sending
  <2> QED BY <1>d, <2>1 DEF SendFits, Went
<1>1. CASE ~FStep(q) /\ ~Crash(q)
  <2>1. pc'[a] = pc[a] /\ items'[q] = items[q] /\ digest'[q] = digest[q] BY <1>1, <1>d, FlusherPcs, FlushOwn
  <2>2. chan'[a] = chan[a]
    <3>1. ASSUME NEW n \in Notifications, NStep(n) PROVE chan'[a] = chan[a] BY <3>1, <1>d, NOthers
    <3>2. ASSUME NEW r \in Replicas, RStep(r) PROVE chan'[a] = chan[a] BY <3>2, <1>d, ROthers
    <3>3. ASSUME NEW r \in Replicas, FStep(r) PROVE chan'[a] = chan[a] BY <3>3, <1>1, <1>d, FOthers
    <3>4. ASSUME NEW r \in Replicas, Crash(r) PROVE chan'[a] = chan[a] BY <3>4, CrashFrame
    <3>5. Dawn \/ UNCHANGED vars => chan'[a] = chan[a] BY DawnFrame, Frozen
    <3> QED BY <3>1, <3>2, <3>3, <3>4, <3>5, Steps
  <2>3. digest[q] \in Digests BY <1>c, <1>e, <2>1
  <2>4. /\ status'[digest[q]] = status[digest[q]] /\ queued'[digest[q]] = queued[digest[q]]
        /\ digestOf'[digest[q]] = digestOf[digest[q]]
    BY <1>1, <2>3, OwnDigest
  <2> QED BY <1>a, <1>e, <2>1, <2>2, <2>4 DEF Went
<1>2. CASE Crash(q) BY <1>2, <1>d, <1>e, CrashMoves DEF Sending
<1>3. CASE FStep(q)
  <2>1. CASE FanOutStep(a) \/ QueueFails(a)
    <3>1. UNCHANGED <<items, digest, digestOf>> /\ pc[a] \in FanPc BY <2>1, FanFrame
    <3>2. pc[a] \in Sending /\ digest[q] \in Digests /\ digest[q] \in Rows BY <1>0, <1>c, <3>1 DEF Sending, Rows
    <3>3. Fans(a, digest[q]) BY <1>0, <2>1, <3>2, FanRows DEF Fans
    <3>4. FanFits(a, digest[q]) BY <1>d DEF Rowwise
    <3>5. \/ status'[digest[q]] = "DLQ"
          \/ status'[digest[q]] = "QUEUED" /\ queued'[digest[q]][1] = 1
          \/ pc'[a] = "publish" /\ chan'[a] = 1
      BY <1>0, <1>a, <3>1, <3>2, <3>3, <3>4, FirstChannel
    <3>6. pc'[a] # "mark" BY <1>0, <2>1, FanMoves DEF Moves
    <3> QED BY <1>a, <3>1, <3>2, <3>5, <3>6
  <2>2. CASE CreateDigest(q)
    <3>1. PICK d \in Digests : Appears(q, d) BY <2>2 DEF CreateDigest, Appears, Writes
    <3>2. digest'[q] = d /\ digestOf'[d] = items[q] /\ items' = items
      BY <1>b, <2>2, <3>1 DEF CreateDigest, Appears
    <3>3. pc'[a] = "queue" /\ chan'[a] = 1
      BY <1>0, <1>d, <2>2 DEF CreateDigest, fanOut, PcTypes
    <3> QED BY <1>0, <3>2, <3>3
  <2>3. CASE Settle(q)
    <3>1. pc[a] = "settle" /\ UNCHANGED <<status, queued, digestOf, items, digest>>
      BY <1>d, <2>3 DEF Settle, rows, flush
    <3>2. pc'[a] = "mark" /\ status[digest[q]] # "DLQ"
      BY <1>0, <1>d, <1>e, <2>3 DEF Settle, Go, PcTypes, Sending
    <3>3. Went(digest[q]) /\ items[q] \subseteq digestOf[digest[q]] BY <1>a, <3>1, <3>2 DEF Sending
    <3> QED BY <1>0, <3>1, <3>2, <3>3 DEF Went
  <2>4. CASE Mark(q)
    <3>1. pc[a] = "mark" /\ pc'[a] = "mark" /\ digest' = digest
      BY <1>0, <1>d, <1>e, <2>4 DEF Mark, Go, PcTypes, Sending
    <3>2. items'[q] \subseteq items[q] BY <1>b, <2>4 DEF Mark
    <3>3. Went(digest[q]) /\ items[q] \subseteq digestOf[digest[q]] /\ digest[q] \in Digests
      BY <1>a, <1>c, <3>1 DEF Sending
    <3>4. status'[digest[q]] = "QUEUED" /\ queued'[digest[q]][1] = 1 /\ digestOf'[digest[q]] = digestOf[digest[q]]
      BY <3>3, WentKept
    <3> QED BY <1>0, <3>1, <3>2, <3>3, <3>4
  <2>5. CASE pc'[a] \notin Sending BY <1>e, <2>5
  <2>6. FStep(q) /\ Flusher(q) = a BY <1>3, <1>d
  <2> QED BY <2>1, <2>2, <2>3, <2>4, <2>5, <2>6, FSteps DEF Moves, Sending
<1> QED BY <1>1, <1>2, <1>3

LEMMA MarkFitsNext ==
    ASSUME Types, Rowwise, Marked, [Next]_vars, NEW n \in Notifications
    PROVE  MarkFits(n)'
<1> USE DEF Types
<1>0. n \in Rows /\ n \in Actors /\ After(n) = "done" /\ "done" \notin FanPc BY NotificationFacts, PcSets
<1>a. MarkFits(n) /\ RunFits(n) /\ FanFits(n, n) /\ RowFits(n) BY <1>0 DEF Marked, Rowwise
<1>b. status \in [Rows -> NotificationStatus \cup {"absent"}] BY DEF RowTypes
<1>1. CASE status[n] = "DIGESTED"
  <2>1. PICK d \in Digests : n \in digestOf[d] /\ Went(d) BY <1>1, <1>a DEF MarkFits
  <2>2. status'[d] = "QUEUED" /\ queued'[d][1] = 1 /\ digestOf'[d] = digestOf[d] BY <2>1, WentKept
  <2> QED BY <2>1, <2>2 DEF MarkFits, Went
<1>2. CASE status[n] # "DIGESTED"
  <2>1. CASE NStep(n)
    <3>1. CASE Fans(n, n)
      <4>1. status'[n] \in Out BY <1>0, <1>a, <3>1, FansFit
      <4> QED BY <4>1 DEF MarkFits, Out
    <3>2. ASSUME NEW s, s # "DIGESTED", Writes(n, s) PROVE status'[n] # "DIGESTED" BY <1>0, <1>b, <3>2 DEF Writes
    <3>3. status'[n] # "DIGESTED" \/ Fans(n, n) BY <1>2, <2>1, <3>2, NSteps DEF SameRow
    <3> QED BY <3>1, <3>3 DEF MarkFits
  <2>2. ASSUME NEW m \in Notifications, NStep(m), m # n PROVE status'[n] = status[n] BY <1>0, <2>2, NOthers
  <2>3. ASSUME NEW r \in Replicas, RStep(r) PROVE status'[n] # "DIGESTED"
    <3>1. CASE ~Holds(r, n) BY <1>0, <1>2, <2>3, <3>1, ROthers DEF Holds
    <3>2. CASE Holds(r, n)
      <4>1. cur[r] = n /\ Releaser(r) \in Actors /\ After(Releaser(r)) = "next" /\ "next" \notin FanPc
        BY <3>2, ActorFacts, PcSets DEF Holds
      <4>2. FanFits(Releaser(r), n) BY <4>1 DEF Rowwise
      <4>3. CASE Fans(Releaser(r), n)
        <5>1. status'[n] \in Out BY <1>0, <1>a, <4>1, <4>2, <4>3, FansFit
        <5> QED BY <5>1 DEF Out
      <4>4. ASSUME NEW s, s # "DIGESTED", Writes(n, s) PROVE status'[n] # "DIGESTED" BY <1>0, <1>b, <4>4 DEF Writes
      <4> QED BY <1>2, <2>3, <4>1, <4>3, <4>4, RRows DEF SameRow
    <3> QED BY <3>1, <3>2
  <2>4. ASSUME NEW r \in Replicas, FStep(r) PROVE MarkFits(n)'
    <3>1. CASE status'[n] # "DIGESTED" BY <3>1 DEF MarkFits
    <3>2. CASE status'[n] = "DIGESTED"
      <4>1. n \in items[r] /\ Mark(r) BY <1>2, <2>4, <3>2, FOthers
      <4>2. pc[Flusher(r)] = "mark" BY <4>1 DEF Mark
      <4>3. SendFits(r) BY DEF Marked
      <4>4. n \in digestOf[digest[r]] /\ Went(digest[r]) /\ digest[r] \in Digests
        BY <4>1, <4>2, <4>3 DEF SendFits, Sending, FlushTypes
      <4>5. status'[digest[r]] = "QUEUED" /\ queued'[digest[r]][1] = 1 /\ digestOf'[digest[r]] = digestOf[digest[r]]
        BY <4>4, WentKept
      <4>6. DEFINE d == digest[r]
      <4>7. d \in Digests /\ n \in digestOf'[d] /\ status'[d] = "QUEUED" /\ queued'[d][1] = 1 BY <4>4, <4>5
      <4>8. \E e \in Digests : n \in digestOf'[e] /\ status'[e] = "QUEUED" /\ queued'[e][1] = 1 BY <4>7
      <4> QED BY <4>8 DEF MarkFits, Went
    <3> QED BY <3>1, <3>2
  <2>5. ASSUME NEW r \in Replicas, Crash(r) PROVE status' = status BY <2>5, CrashFrame
  <2>6. Dawn \/ UNCHANGED vars => status' = status BY DawnFrame, Frozen
  <2> QED BY <1>2, <2>1, <2>2, <2>3, <2>4, <2>5, <2>6, Steps DEF MarkFits
<1> QED BY <1>1, <1>2

LEMMA MarkedInit ==
    ASSUME Init
    PROVE  Marked
<1>1. \A r \in Replicas : pc[Flusher(r)] = "idle" BY ActorFacts DEF Init
<1>2. \A n \in Notifications : status[n] = "CREATED" BY NotificationFacts DEF Init
<1>3. "idle" \notin FanPc BY PcSets
<1> QED BY <1>1, <1>2, <1>3 DEF Marked, SendFits, MarkFits, Sending

\* A flusher marks the items of a digest only once that digest is on its first
\* queue.
THEOREM MarkedAlways == Spec => []Marked
<1>1. Init => Marked BY MarkedInit
<1>2. (Types /\ Rowwise) /\ Marked /\ [Next]_vars => Marked'
  BY SendFitsNext, MarkFitsNext DEF Marked
<1> QED BY <1>1, <1>2, RowwiseAlways, PTL DEF Spec

\* DIGESTED is only ever written for a notification that a digest on its first
\* queue lists: a flush that dies, throws or finds its digest dead-lettered
\* never marks, and no later step takes the digest's message back.
THEOREM DigestedAlwaysInDigest == Spec => []DigestedIsInDigest
<1>1. Types /\ Marked => DigestedIsInDigest
  <2> SUFFICES ASSUME Types, Marked, NEW n \in Notifications, status[n] = "DIGESTED"
               PROVE  \E d \in DigestsOf(n) : status[d] = "QUEUED" /\ queued[d][1] = 1
    BY DEF DigestedIsInDigest
  <2>1. PICK d \in Digests : n \in digestOf[d] /\ Went(d) BY DEF Marked, MarkFits
  <2>2. 1 \in Channels BY EngineAssumption DEF Channels
  <2>3. d \in DigestsOf(n) BY <2>1, <2>2 DEF DigestsOf, Went
  <2> QED BY <2>1, <2>3 DEF Went
<1> QED BY <1>1, RowwiseAlways, MarkedAlways, PTL

-----------------------------------------------------------------------------
(***************************************************************************)
(* A held notification is in one place, and each digest that lists it      *)
(* again took a failed send.                                               *)
(***************************************************************************)

Listed(n) == {d \in Digests : n \in digestOf[d]}
Failures == used \cap {"sendThrow", "queueFail"}

\* On its way to a bucket, and in none.
Waits(n) == pc[n] # "done" \/ \E r \in Replicas : Holds(r, n) /\ pc[Releaser(r)] = "deferBucket"
Nowhere(n) == (\A s \in Sources : n \notin buckets[s]) /\ \A r \in Replicas : n \notin ids[r]

OnePlace(n) ==
    /\ \A s, t \in Sources : n \in buckets[s] /\ n \in buckets[t] => s = t
    /\ \A s \in Sources, r \in Replicas : ~(n \in buckets[s] /\ n \in ids[r])
    /\ \A r, q \in Replicas : n \in ids[r] /\ n \in ids[q] => r = q
    /\ Waits(n) => Nowhere(n) /\ Listed(n) = {}

IdsFit(r) ==
    /\ pc[Flusher(r)] \in {"idle", "next"} => ids[r] = {}
    /\ pc[Flusher(r)] \in Sending \cup {"uncap", "create"} => items[r] \subseteq ids[r]

\* What is in a bucket, or goes back to one, is listed once per failure.
Unsent(r) == pc[Flusher(r)] \in Sending => status[digest[r]] = "DLQ"
Bounded(n) ==
    /\ Cardinality(Listed(n)) <= 1 + Cardinality(Failures)
    /\ \A s \in Sources : n \in buckets[s] => Cardinality(Listed(n)) <= Cardinality(Failures)
    /\ \A r \in Replicas : n \in ids[r] /\ Unsent(r) => Cardinality(Listed(n)) <= Cardinality(Failures)

Placed == (\A r \in Replicas : IdsFit(r)) /\ \A n \in Notifications : OnePlace(n) /\ Bounded(n)

\* How a notification changes place.
Stays(n) ==
    /\ \A s \in Sources : n \in buckets'[s] => n \in buckets[s]
    /\ \A r \in Replicas : n \in ids'[r] => n \in ids[r]
Enters(n) ==
    /\ \E s \in Sources : \A t \in Sources : n \in buckets'[t] => n \in buckets[t] \/ t = s
    /\ ids' = ids
Taken(r, n) ==
    /\ \E s \in Sources : n \in buckets[s] /\ \A t \in Sources : n \in buckets'[t] => n \in buckets[t] /\ t # s
    /\ \A q \in Replicas : n \in ids'[q] => n \in ids[q] \/ q = r
Returns(r, n) ==
    /\ n \in ids[r] /\ source[r] \in Sources /\ \A q \in Replicas : n \in ids'[q] => n \in ids[q] /\ q # r
    /\ \A t \in Sources : n \in buckets'[t] => n \in buckets[t] \/ t = source[r]

LEMMA Places ==
    ASSUME Types, [Next]_vars, NEW n \in Notifications
    PROVE  \/ Stays(n)
           \/ Bucket(n) /\ Enters(n) /\ digestOf' = digestOf
           \/ \E r \in Replicas : DeferBucket(r) /\ RStep(r) /\ cur[r] = n /\ Enters(n) /\ digestOf' = digestOf
           \/ \E r \in Replicas : Take(r) /\ Taken(r, n) /\ digestOf' = digestOf
           \/ \E r \in Replicas : Restore(r) /\ Returns(r, n) /\ digestOf' = digestOf
<1> USE DEF Types
<1>a. buckets' = buckets /\ ids' = ids => Stays(n) BY DEF Stays
<1>1. ASSUME NEW m \in Notifications, NStep(m) PROVE Stays(n) \/ (Bucket(n) /\ Enters(n) /\ digestOf' = digestOf)
  <2>1. ids' = ids /\ digestOf' = digestOf BY <1>1, NFrame
  <2>2. CASE Bucket(m)
    <3>1. buckets' = [buckets EXCEPT ![decision[m]] = @ \cup {m}] /\ decision[m] \in Sources
      BY <2>2 DEF Bucket, add, EventTypes, Sources
    <3>2. CASE m = n
      <4>1. \A t \in Sources : n \in buckets'[t] => n \in buckets[t] \/ t = decision[m] BY <3>1 DEF SetTypes
      <4> QED BY <2>1, <2>2, <3>1, <3>2, <4>1 DEF Enters
    <3>3. CASE m # n
      <4>1. \A t \in Sources : n \in buckets'[t] => n \in buckets[t] BY <3>1, <3>3 DEF SetTypes
      <4> QED BY <2>1, <4>1 DEF Stays
    <3> QED BY <3>2, <3>3
  <2> QED BY <1>1, <1>a, <2>1, <2>2, NFrame
<1>2. ASSUME NEW r \in Replicas, RStep(r)
      PROVE Stays(n) \/ (DeferBucket(r) /\ RStep(r) /\ cur[r] = n /\ Enters(n) /\ digestOf' = digestOf)
  <2>1. ids' = ids /\ digestOf' = digestOf BY <1>2, RFrame
  <2>2. CASE DeferBucket(r)
    <3>1. buckets' = [buckets EXCEPT !["quiet"] = @ \cup {cur[r]}] /\ "quiet" \in Sources
      BY <2>2 DEF DeferBucket, add, Sources
    <3>2. CASE cur[r] = n
      <4>1. \A t \in Sources : n \in buckets'[t] => n \in buckets[t] \/ t = "quiet" BY <3>1 DEF SetTypes
      <4> QED BY <1>2, <2>1, <2>2, <3>1, <3>2, <4>1 DEF Enters
    <3>3. CASE cur[r] # n
      <4>1. \A t \in Sources : n \in buckets'[t] => n \in buckets[t] BY <3>1, <3>3 DEF SetTypes
      <4> QED BY <2>1, <4>1 DEF Stays
    <3> QED BY <3>2, <3>3
  <2> QED BY <1>2, <1>a, <2>1, <2>2, RFrame
<1>3. ASSUME NEW r \in Replicas, FStep(r)
      PROVE  \/ Stays(n)
             \/ Take(r) /\ Taken(r, n) /\ digestOf' = digestOf
             \/ Restore(r) /\ Returns(r, n) /\ digestOf' = digestOf
  <2>1. CASE Take(r)
    <3>1. PICK s \in claimed[r] : buckets' = [buckets EXCEPT ![s] = {}] /\ ids' = [ids EXCEPT ![r] = buckets[s]]
      BY <2>1 DEF Take
    <3>2. s \in Sources /\ digestOf' = digestOf BY <2>1 DEF FlushTypes, Take, rows
    <3>3. CASE n \in buckets[s]
      <4>1. \A t \in Sources : n \in buckets'[t] => n \in buckets[t] /\ t # s BY <3>1 DEF SetTypes
      <4>2. \A q \in Replicas : n \in ids'[q] => n \in ids[q] \/ q = r BY <3>1 DEF FlushTypes
      <4>3. Taken(r, n) BY <3>2, <3>3, <4>1, <4>2 DEF Taken
      <4> QED BY <2>1, <3>2, <4>3
    <3>4. CASE n \notin buckets[s]
      <4>1. \A t \in Sources : n \in buckets'[t] => n \in buckets[t] BY <3>1 DEF SetTypes
      <4>2. \A q \in Replicas : n \in ids'[q] => n \in ids[q] BY <3>1, <3>4 DEF FlushTypes
      <4> QED BY <4>1, <4>2 DEF Stays
    <3> QED BY <3>3, <3>4
  <2>2. CASE Restore(r)
    <3>1. /\ buckets' = [buckets EXCEPT ![source[r]] = @ \cup ids[r]] /\ ids' = [ids EXCEPT ![r] = {}]
          /\ digestOf' = digestOf /\ source[r] \in Sources
      BY <2>2 DEF Restore, rows, FlushTypes, Flushing
    <3>2. \A q \in Replicas : n \in ids'[q] => n \in ids[q] /\ q # r BY <3>1 DEF FlushTypes
    <3>3. CASE n \in ids[r]
      <4>1. \A t \in Sources : n \in buckets'[t] => n \in buckets[t] \/ t = source[r] BY <3>1 DEF SetTypes
      <4>2. Returns(r, n) BY <3>1, <3>2, <3>3, <4>1 DEF Returns
      <4> QED BY <2>2, <3>1, <4>2
    <3>4. CASE n \notin ids[r]
      <4>1. \A t \in Sources : n \in buckets'[t] => n \in buckets[t] BY <3>1, <3>4 DEF SetTypes
      <4> QED BY <3>2, <4>1 DEF Stays
    <3> QED BY <3>3, <3>4
  <2>3. CASE ~Take(r) /\ ~Restore(r)
    <3>1. buckets' = buckets BY <1>3, <2>3, FFrame
    <3>2. \A q \in Replicas : n \in ids'[q] => n \in ids[q]
      <4>1. CASE Find(r) BY <4>1 DEF Find, FlushTypes
      <4>2. CASE Mark(r) BY <4>2 DEF Mark, FlushTypes
      <4>3. CASE FlushThrows(r) BY <4>3 DEF FlushThrows, FlushTypes
      <4> QED BY <1>3, <2>3, <4>1, <4>2, <4>3, FFrame
    <3> QED BY <3>1, <3>2 DEF Stays
  <2> QED BY <2>1, <2>2, <2>3
<1>4. CASE Dawn BY <1>4, <1>a, DawnFrame
<1>5. ASSUME NEW r \in Replicas, Crash(r) PROVE Stays(n)
  <2>1. buckets' = buckets /\ ids' = [ids EXCEPT ![r] = {}] BY <1>5, CrashFrame
  <2> QED BY <2>1 DEF Stays, FlushTypes
<1>6. CASE UNCHANGED vars BY <1>6, <1>a, Frozen
<1> QED BY <1>1, <1>2, <1>3, <1>4, <1>5, <1>6, Steps

\* A notification that waits was waiting, or has just left the quiet queue.
LEMMA WaitsBefore ==
    ASSUME Types, Rowwise, [Next]_vars, NEW n \in Notifications, Waits(n)'
    PROVE  Waits(n) \/ ~OnDigestSide(n)
<1> USE DEF Types
<1>a. HoldFits(n) /\ SideFits(n) BY DEF Rowwise
<1>1. ASSUME NEW m \in Notifications, NStep(m) PROVE Waits(n)
  <2>1. UNCHANGED cur /\ \A r \in Replicas : pc'[Releaser(r)] = pc[Releaser(r)] BY <1>1, NFrame, NOthers
  <2>2. n = m => pc[n] # "done" BY <1>1, NOthers
  <2>3. n # m => pc'[n] = pc[n] BY <1>1, NOthers
  <2> QED BY <2>1, <2>2, <2>3 DEF Waits, Holds
<1>2. ASSUME NEW r \in Replicas, RStep(r) PROVE Waits(n) \/ ~OnDigestSide(n)
  <2>1. /\ pc'[n] = pc[n]
        /\ \A q \in Replicas : q # r => pc'[Releaser(q)] = pc[Releaser(q)] /\ cur'[q] = cur[q]
    BY <1>2, ROthers
  <2>2. CASE pc'[Releaser(r)] = "deferBucket" /\ cur'[r] = n
    <3>1. DeferStatus(r) BY <1>2, <2>2, RSteps DEF Moves
    <3>2. cur' = cur /\ pc[Releaser(r)] = "deferStatus" BY <3>1 DEF DeferStatus, poller
    <3>3. Holds(r, n) BY <2>2, <3>2 DEF Holds, Releasing
    <3>4. status[n] = "QUIET" BY <1>a, <3>2, <3>3 DEF HoldFits
    <3> QED BY <1>a, <3>4 DEF SideFits, DigestSide
  <2>3. CASE ~(pc'[Releaser(r)] = "deferBucket" /\ cur'[r] = n)
    BY <2>1, <2>3 DEF Waits, Holds
  <2> QED BY <2>2, <2>3
<1>3. ASSUME NEW r \in Replicas, FStep(r) PROVE Waits(n)
  <2>1. cur' = cur /\ pc'[n] = pc[n] /\ \A q \in Replicas : pc'[Releaser(q)] = pc[Releaser(q)] BY <1>3, FFrame, FOthers
  <2> QED BY <2>1 DEF Waits, Holds
<1>4. CASE Dawn BY <1>4, DawnFrame DEF Waits, Holds
<1>5. ASSUME NEW r \in Replicas, Crash(r) PROVE Waits(n)
  <2>1. /\ cur' = cur /\ (pc'[n] = pc[n] \/ pc'[n] = "done")
        /\ \A q \in Replicas : pc'[Releaser(q)] = pc[Releaser(q)] \/ pc'[Releaser(q)] = "idle"
    BY <1>5, CrashFrame, CrashMoves
  <2> QED BY <2>1 DEF Waits, Holds
<1>6. CASE UNCHANGED vars BY <1>6, Frozen DEF Waits, Holds
<1> QED BY <1>1, <1>2, <1>3, <1>4, <1>5, <1>6, Steps

\* Entering a bucket ends the wait.
LEMMA WaitEnds ==
    ASSUME Types, Rowwise, NEW n \in Notifications
    PROVE  /\ Bucket(n) => Waits(n) /\ ~Waits(n)'
           /\ \A r \in Replicas : DeferBucket(r) /\ RStep(r) /\ cur[r] = n => Waits(n) /\ ~Waits(n)'
<1> USE DEF Types
<1>a. HoldFits(n) /\ n \in Actors BY NotificationFacts DEF Rowwise
<1>1. ASSUME Bucket(n) PROVE Waits(n) /\ ~Waits(n)'
  <2>1. NStep(n) /\ pc[n] = "bucket" BY <1>1 DEF NStep, process, Bucket
  <2>2. pc'[n] = "done" BY <1>1, <1>a DEF Bucket, Go, PcTypes
  <2>3. UNCHANGED cur /\ \A r \in Replicas : pc'[Releaser(r)] = pc[Releaser(r)] BY <2>1, NFrame, NOthers
  <2>4. \A r \in Replicas : ~Holds(r, n) BY <1>a, <2>1 DEF HoldFits, Held
  <2> QED BY <2>1, <2>2, <2>3, <2>4 DEF Waits, Holds
<1>2. ASSUME NEW r \in Replicas, DeferBucket(r), RStep(r), cur[r] = n PROVE Waits(n) /\ ~Waits(n)'
  <2>1. pc[Releaser(r)] = "deferBucket" /\ cur' = cur BY <1>2 DEF DeferBucket, poller
  <2>2. Holds(r, n) BY <1>2, <2>1 DEF Holds, Releasing
  <2>3. pc[n] = "done" /\ \A q \in Replicas : Holds(q, n) => q = r BY <1>a, <2>2 DEF HoldFits, Held
  <2>4. pc'[Releaser(r)] = "next" BY <1>2, ActorFacts DEF DeferBucket, Go, PcTypes
  <2>5. pc'[n] = pc[n] /\ \A q \in Replicas : q # r => pc'[Releaser(q)] = pc[Releaser(q)] BY <1>2, ROthers
  <2> QED BY <2>1, <2>2, <2>3, <2>4, <2>5 DEF Waits, Holds
<1> QED BY <1>1, <1>2

\* A digest row lists the items of its flush; no row changes its list.
LEMMA Lists ==
    ASSUME Types, Rowwise, [Next]_vars, NEW n \in Notifications
    PROVE  \/ Listed(n)' = Listed(n)
           \/ \E r \in Replicas : /\ FStep(r) /\ CreateDigest(r) /\ n \in items[r]
                                  /\ \E d \in Digests : Listed(n)' = Listed(n) \cup {d}
                                  /\ buckets' = buckets /\ ids' = ids /\ used' = used
<1> USE DEF Types
<1>1. CASE digestOf' = digestOf BY <1>1 DEF Listed
<1>2. ASSUME NEW r \in Replicas, FStep(r), CreateDigest(r)
      PROVE  \/ Listed(n)' = Listed(n)
             \/ /\ n \in items[r] /\ \E d \in Digests : Listed(n)' = Listed(n) \cup {d}
                /\ buckets' = buckets /\ ids' = ids /\ used' = used
  <2>1. PICK d \in Digests : Appears(r, d) BY <1>2 DEF CreateDigest, Appears, Writes
  <2>2. buckets' = buckets /\ ids' = ids /\ used' = used BY <1>2 DEF CreateDigest, zsets
  <2>3. digestOf' = [digestOf EXCEPT ![d] = items[r]] /\ digestOf[d] = {} /\ digestOf \in [Digests -> SUBSET Notifications]
    BY <2>1 DEF Appears, Rowwise, DigestRow, RowTypes
  <2>4. CASE n \in items[r]
    <3>1. Listed(n)' = Listed(n) \cup {d} BY <2>3, <2>4 DEF Listed
    <3> QED BY <2>2, <2>4, <3>1
  <2>5. CASE n \notin items[r] BY <2>3, <2>5 DEF Listed
  <2> QED BY <2>4, <2>5
<1>3. ASSUME NEW m \in Notifications, NStep(m) PROVE digestOf' = digestOf BY <1>3, NFrame
<1>4. ASSUME NEW r \in Replicas, RStep(r) PROVE digestOf' = digestOf BY <1>4, RFrame
<1>5. ASSUME NEW r \in Replicas, FStep(r), ~CreateDigest(r) PROVE digestOf' = digestOf BY <1>5, FFrame
<1>6. ASSUME NEW r \in Replicas, Crash(r) PROVE digestOf' = digestOf BY <1>6, CrashFrame
<1>7. Dawn \/ UNCHANGED vars => digestOf' = digestOf BY DawnFrame, Frozen
<1> QED BY <1>1, <1>2, <1>3, <1>4, <1>5, <1>6, <1>7, Steps

LEMMA OnePlaceNext ==
    ASSUME Types, Rowwise, Placed, [Next]_vars, NEW n \in Notifications
    PROVE  OnePlace(n)'
<1>a. OnePlace(n) /\ \A r \in Replicas : IdsFit(r) BY DEF Placed
<1>b. ASSUME Listed(n)' # Listed(n) PROVE ~Waits(n) /\ OnDigestSide(n)
  <2>1. PICK r \in Replicas : CreateDigest(r) /\ n \in items[r] BY <1>b, Lists
  <2>2. n \in ids[r] BY <1>a, <2>1 DEF IdsFit, CreateDigest
  <2> QED BY <1>a, <2>2 DEF OnePlace, Nowhere, OnDigestSide
<1>c. ASSUME Waits(n)' PROVE Nowhere(n) /\ Listed(n) = {} /\ Listed(n)' = Listed(n)
  <2>1. CASE Waits(n) BY <1>a, <1>b, <2>1 DEF OnePlace
  <2>2. CASE ~OnDigestSide(n)
    <3>1. Nowhere(n) /\ Listed(n) = {} BY <2>2 DEF OnDigestSide, Nowhere, Listed
    <3> QED BY <1>b, <2>2, <3>1
  <2> QED BY <1>c, <2>1, <2>2, WaitsBefore
<1>1. CASE Stays(n)
  <2>1. Waits(n)' => Nowhere(n)' /\ Listed(n)' = {} BY <1>1, <1>c DEF Stays, Nowhere
  <2> QED BY <1>1, <1>a, <2>1 DEF Stays, OnePlace
<1>2. ASSUME Waits(n), ~Waits(n)', Enters(n) PROVE OnePlace(n)'
  <2>1. Nowhere(n) BY <1>2, <1>a DEF OnePlace
  <2> QED BY <1>2, <2>1 DEF Enters, OnePlace, Nowhere
<1>3. ASSUME NEW r \in Replicas, Taken(r, n) PROVE OnePlace(n)'
  <2>1. PICK s \in Sources : n \in buckets[s] /\ \A t \in Sources : n \in buckets'[t] => n \in buckets[t] /\ t # s
    BY <1>3 DEF Taken
  <2>2. ~Waits(n)' BY <1>c, <2>1 DEF Nowhere
  <2> QED BY <1>3, <1>a, <2>1, <2>2 DEF Taken, OnePlace
<1>4. ASSUME NEW r \in Replicas, Returns(r, n) PROVE OnePlace(n)'
  <2>1. n \in ids[r] BY <1>4 DEF Returns
  <2>2. ~Waits(n)' BY <1>c, <2>1 DEF Nowhere
  <2> QED BY <1>4, <1>a, <2>1, <2>2 DEF Returns, OnePlace
<1> QED BY <1>1, <1>2, <1>3, <1>4, Places, WaitEnds

LEMMA IdsFitNext ==
    ASSUME Types, Rowwise, Placed, [Next]_vars, NEW r \in Replicas
    PROVE  IdsFit(r)'
<1> DEFINE a == Flusher(r)
<1> USE DEF Types
<1>a. /\ pc[a] \in {"idle", "next"} => ids[r] = {}
      /\ pc[a] \in Sending \cup {"uncap", "create"} => items[r] \subseteq ids[r]
  BY DEF Placed, IdsFit
<1>b. /\ ids \in [Replicas -> SUBSET Notifications] /\ items \in [Replicas -> SUBSET Notifications]
      /\ a \in Actors
  BY ActorFacts DEF FlushTypes
<1>d. a = Flusher(r) OBVIOUS
<1> HIDE DEF a
<1>e. SUFFICES /\ pc'[a] \in {"idle", "next"} => ids'[r] = {}
               /\ pc'[a] \in Sending \cup {"uncap", "create"} => items'[r] \subseteq ids'[r]
  BY <1>d DEF IdsFit
<1>1. CASE FStep(r)
  <2>1. CASE ClaimDue(r)
    <3>1. pc[a] = "idle" /\ pc'[a] = "next" /\ ids' = ids BY <1>b, <1>d, <2>1 DEF ClaimDue, Go, PcTypes
    <3> QED BY <1>a, <3>1 DEF Sending
  <2>2. CASE Take(r)
    <3>1. PICK s \in claimed[r] : ids' = [ids EXCEPT ![r] = buckets[s]] /\ Go(a, IF buckets[s] = {} THEN "next" ELSE "find")
      BY <1>d, <2>2 DEF Take
    <3>2. pc'[a] = (IF buckets[s] = {} THEN "next" ELSE "find") /\ ids'[r] = buckets[s] BY <1>b, <3>1 DEF Go, PcTypes
    <3> QED BY <3>2 DEF Sending
  <2>3. CASE FlushEnds(r)
    <3>1. pc[a] = "next" /\ pc'[a] = "idle" /\ ids' = ids BY <1>b, <1>d, <2>3 DEF FlushEnds, Go, PcTypes
    <3> QED BY <1>a, <3>1 DEF Sending
  <2>4. CASE Find(r)
    <3>1. \/ pc'[a] = "restore"
          \/ pc'[a] = "next" /\ ids'[r] = {}
          \/ pc'[a] = "uncap" /\ items'[r] \subseteq ids[r] /\ ids' = ids
      BY <1>b, <1>d, <2>4 DEF Find, Go, PcTypes
    <3> QED BY <3>1 DEF Sending
  <2>5. CASE Mark(r)
    <3>1. pc[a] = "mark" BY <1>d, <2>5 DEF Mark
    <3>2. \/ pc'[a] = "next" /\ ids'[r] = {}
          \/ pc' = pc /\ items'[r] \subseteq items[r] /\ ids' = ids
      BY <1>b, <1>d, <2>5 DEF Mark, Go, PcTypes
    <3> QED BY <1>a, <3>1, <3>2 DEF Sending
  <2>6. CASE Restore(r)
    <3>1. pc'[a] = "next" /\ ids'[r] = {} BY <1>b, <1>d, <2>6 DEF Restore, Go, PcTypes
    <3> QED BY <3>1 DEF Sending
  <2>7. CASE FlushThrows(r)
    <3>1. pc'[a] = "next" BY <1>b, <1>d, <2>7 DEF FlushThrows, Go, PcTypes
    <3>2. ids'[r] = {} BY <1>a, <1>b, <1>d, <2>7 DEF FlushThrows
    <3> QED BY <3>1, <3>2 DEF Sending
  <2>8. CASE FanOutStep(a) \/ QueueFails(a)
    <3>1. UNCHANGED <<ids, items>> /\ pc[a] \in FanPc BY <2>8, FanFrame
    <3>2. pc[a] \in Sending BY <3>1 DEF FanPc, Sending
    <3>3. pc'[a] \in {"publish", "queue", "settle"} BY <1>b, <1>d, <2>8, FanMoves, ActorFacts, PcSets DEF Moves
    <3> QED BY <1>a, <3>1, <3>2, <3>3 DEF Sending
  <2>9. CASE Uncap(r) \/ CreateDigest(r) \/ Settle(r) \/ SendThrows(r)
    <3>1. UNCHANGED <<ids, items>> BY <2>9 DEF Uncap, CreateDigest, Settle, SendThrows, flush
    <3>2. pc'[a] \notin {"idle", "next"}
      BY <1>b, <1>d, <2>9 DEF Uncap, CreateDigest, Settle, SendThrows, Go, fanOut, PcTypes
    <3>3. pc[a] \in Sending \cup {"uncap", "create"} BY <1>d, <2>9 DEF Uncap, CreateDigest, Settle, SendThrows, Sending
    <3> QED BY <1>a, <3>1, <3>2, <3>3
  <2>10. Flusher(r) = a BY <1>d
  <2> QED BY <1>1, <2>1, <2>2, <2>3, <2>4, <2>5, <2>6, <2>7, <2>8, <2>9, <2>10, FSteps
<1>2. CASE Crash(r)
  <2>1. pc'[a] = "idle" BY <1>2, <1>d, CrashMoves
  <2>2. ids'[r] = {} BY <1>2, <1>b, CrashFrame
  <2> QED BY <2>1, <2>2 DEF Sending
<1>3. CASE ~FStep(r) /\ ~Crash(r)
  <2>1. pc'[a] = pc[a] /\ ids'[r] = ids[r] /\ items'[r] = items[r] BY <1>3, <1>d, FlusherPcs, FlushOwn
  <2> QED BY <1>a, <2>1
<1> QED BY <1>1, <1>2, <1>3

\* Failures are counted once and never forgotten.
LEMMA FailureCounts ==
    ASSUME HistTypes, [Next]_vars
    PROVE  /\ Cardinality(Failures) \in Nat /\ Cardinality(Failures') \in Nat
           /\ Cardinality(Failures) <= Cardinality(Failures')
           /\ Spend("sendThrow") \/ Spend("queueFail") => Cardinality(Failures') = Cardinality(Failures) + 1
<1>1. IsFiniteSet({"sendThrow", "queueFail"})
  <2>1. IsFiniteSet({}) BY FS_EmptySet
  <2>2. IsFiniteSet({} \cup {"sendThrow"}) BY <2>1, FS_AddElement
  <2>3. IsFiniteSet(({} \cup {"sendThrow"}) \cup {"queueFail"}) BY <2>2, FS_AddElement
  <2>4. ({} \cup {"sendThrow"}) \cup {"queueFail"} = {"sendThrow", "queueFail"} OBVIOUS
  <2> QED BY <2>3, <2>4
<1>2. IsFiniteSet(Failures) /\ IsFiniteSet(Failures') BY <1>1, FS_Subset DEF Failures
<1>3. Failures \subseteq Failures' BY UsedGrows DEF Failures
<1>4. Cardinality(Failures) \in Nat /\ Cardinality(Failures') \in Nat BY <1>2, FS_CardinalityType
<1>5. Cardinality(Failures) <= Cardinality(Failures') BY <1>2, <1>3, FS_Subset
<1>6. ASSUME NEW f \in {"sendThrow", "queueFail"}, Spend(f) PROVE Cardinality(Failures') = Cardinality(Failures) + 1
  <2>1. f \notin Failures /\ Failures' = Failures \cup {f} BY <1>6 DEF Spend, Failures
  <2>2. Cardinality(Failures \cup {f}) = Cardinality(Failures) + 1 BY <1>2, <2>1, FS_AddElement
  <2> QED BY <2>1, <2>2
<1> QED BY <1>4, <1>5, <1>6

LEMMA ListedCounts ==
    ASSUME NEW n \in Notifications
    PROVE  /\ IsFiniteSet(Listed(n)) /\ Cardinality(Listed(n)) \in Nat
           /\ \A d \in Digests : Cardinality(Listed(n) \cup {d}) <= Cardinality(Listed(n)) + 1
           /\ Listed(n) = {} => Cardinality(Listed(n)) = 0
<1>1. IsFiniteSet(Digests) BY EngineAssumption, FS_Interval DEF Digests
<1>2. Listed(n) \subseteq Digests BY DEF Listed
<1>3. IsFiniteSet(Listed(n)) BY <1>1, <1>2, FS_Subset
<1>4. Cardinality(Listed(n)) \in Nat BY <1>3, FS_CardinalityType
<1>5. ASSUME NEW d \in Digests PROVE Cardinality(Listed(n) \cup {d}) <= Cardinality(Listed(n)) + 1
  <2>1. CASE d \in Listed(n)
    <3>1. Cardinality(Listed(n) \cup {d}) = Cardinality(Listed(n))
      <4>1. Listed(n) \cup {d} = Listed(n) BY <2>1
      <4> QED BY <4>1, Zenon
    <3> QED BY <1>4, <3>1
  <2>2. CASE d \notin Listed(n)
    <3>1. Cardinality(Listed(n) \cup {d}) = Cardinality(Listed(n)) + 1 BY <1>3, <2>2, FS_AddElement
    <3> QED BY <1>4, <3>1
  <2> QED BY <2>1, <2>2
<1>6. Listed(n) = {} => Cardinality(Listed(n)) = 0 BY FS_EmptySet
<1> QED BY <1>3, <1>4, <1>5, <1>6

\* A flush turns back only after a failure, or before its digest was written.
LEMMA UnsentBefore ==
    ASSUME Types, Rowwise, Placed, [Next]_vars, NEW r \in Replicas, Unsent(r)', ids'[r] # {}, ~Take(r)
    PROVE  Unsent(r) \/ Spend("sendThrow") \/ Spend("queueFail")
<1> DEFINE a == Flusher(r)
<1> USE DEF Types
<1>0. /\ a \in Actors /\ After(a) = "settle" /\ FanPc = {"queue", "publish"} /\ FanPc \subseteq Sending
      /\ RowOf(a) = digest[r] /\ {"settle", "publish", "queue"} \subseteq Sending /\ "settle" \in AnyPc
  BY ActorFacts, PcSets DEF Sending
<1>a. pc'[a] \in Sending => status'[digest'[r]] = "DLQ" BY DEF Unsent
<1>c. pc[a] \in Sending => digest[r] \in Digests /\ digest[r] \in Rows BY DEF FlushTypes, Rows
<1>d. a = Flusher(r) OBVIOUS
<1> HIDE DEF a
<1>e. SUFFICES ASSUME pc[a] \in Sending, status[digest[r]] # "DLQ"
               PROVE  Spend("sendThrow") \/ Spend("queueFail")
  BY <1>d DEF Unsent
<1>1. CASE FStep(r)
  <2>1. CASE FanOutStep(a) \/ QueueFails(a)
    <3>1. UNCHANGED digest /\ Fans(a, digest[r]) BY <1>0, <1>c, <1>e, <2>1, FanFrame, FanRows DEF Fans
    <3>2. pc'[a] \in Sending BY <1>0, <2>1, FanMoves DEF Moves
    <3>3. status'[digest[r]] = "DLQ" BY <1>a, <3>1, <3>2
    <3>4. DeadLetters(a, digest[r])
      <4>1. Queues(a, digest[r]) => status'[digest[r]] # "DLQ" BY <1>c, <1>e DEF Queues, RowTypes
      <4>2. Publishes(a, digest[r]) => status'[digest[r]] # "DLQ" BY <1>e DEF Publishes
      <4> QED BY <3>1, <3>3, <4>1, <4>2 DEF Fans
    <3>5. ~(chan[a] = 1 /\ pc[a] = "queue" /\ ~isValidTransition(status[digest[r]], "QUEUED"))
      <4>1. FanFits(a, digest[r]) BY <1>d DEF Rowwise
      <4>2. pc[a] = "queue" /\ chan[a] = 1 => status[digest[r]] = "ROUTED" BY <1>0, <4>1 DEF FanFits
      <4>3. isValidTransition("ROUTED", "QUEUED") BY DEF isValidTransition, ValidTransitions
      <4> QED BY <4>2, <4>3
    <3> QED BY <3>4, <3>5 DEF DeadLetters
  <2>2. CASE SendThrows(r) BY <2>2 DEF SendThrows
  <2>3. CASE Settle(r)
    <3>1. pc'[a] = "mark" /\ status' = status /\ digest' = digest
      BY <1>0, <1>d, <1>e, <2>3 DEF Settle, Go, PcTypes, rows, flush
    <3> QED BY <1>a, <1>e, <3>1 DEF Sending
  <2>4. CASE Mark(r)
    <3>1. CASE items[r] = {}
      <4>1. ids'[r] = {} BY <2>4, <3>1 DEF Mark, FlushTypes
      <4> QED BY <4>1
    <3>2. CASE items[r] # {}
      <4>1. pc' = pc /\ digest' = digest BY <2>4, <3>2 DEF Mark
      <4>2. PICK n \in items[r] : Writes(n, "DIGESTED") BY <2>4, <3>2 DEF Mark, SetStatus, Writes
      <4>3. n \in Notifications /\ n # digest[r] BY <1>c, <1>e, <4>2, NotificationFacts DEF FlushTypes
      <4>4. status'[digest[r]] = status[digest[r]] BY <1>c, <1>e, <4>2, <4>3 DEF Writes, RowTypes
      <4> QED BY <1>a, <1>e, <4>1, <4>4
    <3> QED BY <3>1, <3>2
  <2>5. CASE ClaimDue(r) \/ FlushEnds(r) \/ Find(r) \/ Uncap(r) \/ CreateDigest(r) \/ Restore(r)
    BY <1>d, <1>e, <2>5 DEF ClaimDue, FlushEnds, Find, Uncap, CreateDigest, Restore, Sending
  <2>6. CASE FlushThrows(r) BY <1>d, <1>e, <2>6 DEF FlushThrows, Sending
  <2>7. Flusher(r) = a BY <1>d
  <2> QED BY <1>1, <2>1, <2>2, <2>3, <2>4, <2>5, <2>6, <2>7, FSteps
<1>2. CASE Crash(r)
  <2>1. ids'[r] = {} BY <1>2, CrashFrame DEF FlushTypes
  <2> QED BY <2>1
<1>3. CASE ~FStep(r) /\ ~Crash(r)
  <2>1. pc'[a] = pc[a] /\ digest'[r] = digest[r] BY <1>3, <1>d, FlusherPcs, FlushOwn
  <2>2. status'[digest[r]] = status[digest[r]] BY <1>3, <1>c, <1>e, OwnDigest
  <2> QED BY <1>a, <1>e, <2>1, <2>2
<1> QED BY <1>1, <1>2, <1>3

LEMMA BoundedNext ==
    ASSUME Types, Rowwise, Placed, [Next]_vars, NEW n \in Notifications
    PROVE  Bounded(n)'
<1> DEFINE L == Cardinality(Listed(n))
           L2 == Cardinality(Listed(n)')
           F == Cardinality(Failures)
           F2 == Cardinality(Failures')
<1>a. /\ L <= 1 + F
      /\ \A s \in Sources : n \in buckets[s] => L <= F
      /\ \A r \in Replicas : n \in ids[r] /\ Unsent(r) => L <= F
  BY DEF Placed, Bounded
<1>b. OnePlace(n) /\ \A r \in Replicas : IdsFit(r) BY DEF Placed
<1>c. /\ F \in Nat /\ F2 \in Nat /\ F <= F2
      /\ Spend("sendThrow") \/ Spend("queueFail") => F2 = F + 1
  BY FailureCounts DEF Types
<1>d. L \in Nat /\ (Listed(n) = {} => L = 0) BY ListedCounts
<1>e. ASSUME L2 <= 1 + F2,
             \A s \in Sources : n \in buckets'[s] => L2 <= F2,
             \A r \in Replicas : n \in ids'[r] /\ Unsent(r)' => L2 <= F2
      PROVE  Bounded(n)'
  BY <1>e DEF Bounded
<1> HIDE DEF F, F2
<1>1. CASE Listed(n)' = Listed(n)
  <2>0. L2 = L BY <1>1
  <2> HIDE DEF L, L2
  <2>1. L2 <= 1 + F2 BY <1>a, <1>c, <1>d, <2>0
  <2>2. CASE \A s \in Sources : n \in buckets'[s] => L <= F
    <3>1. \A s \in Sources : n \in buckets'[s] => L2 <= F2 BY <1>c, <1>d, <2>0, <2>2
    <3>2. ASSUME NEW r \in Replicas, n \in ids'[r], Unsent(r)' PROVE L2 <= F2
      <4>1. CASE Take(r)
        <5>1. PICK s \in claimed[r] : ids' = [ids EXCEPT ![r] = buckets[s]] BY <4>1 DEF Take
        <5>2. n \in buckets[s] /\ s \in Sources BY <3>2, <5>1 DEF Types, FlushTypes
        <5> QED BY <1>a, <1>c, <1>d, <2>0, <5>2
      <4>2. CASE ~Take(r)
        <5>1. Unsent(r) \/ Spend("sendThrow") \/ Spend("queueFail") BY <3>2, <4>2, UnsentBefore
        <5>2. CASE Spend("sendThrow") \/ Spend("queueFail") BY <1>a, <1>c, <1>d, <2>0, <5>2
        <5>3. CASE Unsent(r)
          <6>1. CASE n \in ids[r] BY <1>a, <1>c, <1>d, <2>0, <5>3, <6>1
          <6>2. CASE n \notin ids[r]
            <7>1. ~Stays(n) /\ ~Enters(n) BY <3>2, <6>2 DEF Stays, Enters
            <7>2. \A q \in Replicas : ~Returns(q, n) BY <3>2, <6>2 DEF Returns
            <7>3. \A q \in Replicas : Take(q) /\ Taken(q, n) => q = r BY <3>2, <6>2 DEF Taken
            <7> QED BY <4>2, <7>1, <7>2, <7>3, Places
          <6> QED BY <6>1, <6>2
        <5> QED BY <5>1, <5>2, <5>3
      <4> QED BY <4>1, <4>2
    <3> QED BY <1>e, <2>1, <3>1, <3>2 DEF L2
  <2>3. \A s \in Sources : n \in buckets'[s] => L <= F
    <3>1. CASE Stays(n) BY <1>a, <3>1 DEF Stays
    <3>2. CASE Waits(n) /\ Enters(n)
      <4>1. L = 0 BY <1>b, <1>d, <3>2 DEF OnePlace
      <4> QED BY <1>c, <4>1
    <3>3. ASSUME NEW r \in Replicas, Take(r), Taken(r, n) PROVE \A s \in Sources : n \in buckets'[s] => L <= F
      BY <1>a, <3>3 DEF Taken
    <3>4. ASSUME NEW r \in Replicas, Restore(r), Returns(r, n) PROVE \A s \in Sources : n \in buckets'[s] => L <= F
      <4>1. n \in ids[r] BY <3>4 DEF Returns
      <4>2. Unsent(r) BY <3>4 DEF Restore, Unsent, Sending
      <4> QED BY <1>a, <4>1, <4>2
    <3> QED BY <3>1, <3>2, <3>3, <3>4, Places, WaitEnds
  <2> QED BY <2>2, <2>3
<1>2. ASSUME NEW r \in Replicas, CreateDigest(r), n \in items[r], NEW d \in Digests, Listed(n)' = Listed(n) \cup {d},
             FStep(r), buckets' = buckets, ids' = ids
      PROVE  Bounded(n)'
  <2>1. n \in ids[r] /\ Unsent(r) BY <1>2, <1>b DEF IdsFit, CreateDigest, Unsent, Sending
  <2>2. L <= F BY <1>a, <2>1
  <2>3. L2 <= L + 1 BY <1>2, ListedCounts
  <2>4. L2 \in Nat BY ListedCounts, <1>2, FS_AddElement, FS_CardinalityType
  <2>5. L2 <= 1 + F2 BY <1>c, <1>d, <2>2, <2>3, <2>4
  <2>6. \A s \in Sources : n \notin buckets'[s] BY <1>2, <1>b, <2>1 DEF OnePlace
  <2>7. ASSUME NEW q \in Replicas, n \in ids'[q] PROVE ~Unsent(q)'
    <3>1. q = r BY <1>2, <1>b, <2>1, <2>7 DEF OnePlace
    <3>2. PICK e \in Digests : Appears(r, e) BY <1>2 DEF CreateDigest, Appears, Writes
    <3>3. digest'[r] = e /\ status'[e] = "ROUTED" BY <3>2 DEF Appears, Writes, Types, RowTypes, FlushTypes, Rows
    <3>4. pc'[Flusher(r)] = "queue" BY <1>2, ActorFacts DEF CreateDigest, fanOut, Types, PcTypes
    <3> QED BY <3>1, <3>3, <3>4 DEF Unsent, Sending
  <2> QED BY <1>e, <2>5, <2>6, <2>7
<1> QED BY <1>1, <1>2, Lists

LEMMA PlacedInit ==
    ASSUME Init
    PROVE  Placed
<1>1. \A r \in Replicas : pc[Flusher(r)] = "idle" /\ ids[r] = {} BY ActorFacts DEF Init
<1>2. \A s \in Sources : buckets[s] = {} BY DEF Init
<1>3. \A n \in Notifications : Listed(n) = {} BY DEF Init, Listed
<1>4. \A r \in Replicas : IdsFit(r) BY <1>1 DEF IdsFit, Sending
<1>5. \A n \in Notifications : OnePlace(n) BY <1>1, <1>2, <1>3 DEF OnePlace, Nowhere
<1>6. ASSUME NEW n \in Notifications PROVE Bounded(n)
  <2>1. Cardinality(Listed(n)) = 0 BY <1>3, ListedCounts
  <2>2. Cardinality(Failures) = 0
    <3>1. Failures = {} BY DEF Init, Failures
    <3> QED BY <3>1, FS_EmptySet
  <2> QED BY <1>1, <1>2, <2>1, <2>2 DEF Bounded
<1> QED BY <1>4, <1>5, <1>6 DEF Placed

\* A notification held for a digest is in one bucket, or in one flusher's hands,
\* and a digest that lists it already has cost a failure.
THEOREM PlacedAlways == Spec => []Placed
<1>1. Init => Placed BY PlacedInit
<1>2. (Types /\ Rowwise) /\ Placed /\ [Next]_vars => Placed'
  BY IdsFitNext, OnePlaceNext, BoundedNext DEF Placed
<1> QED BY <1>1, <1>2, RowwiseAlways, PTL DEF Spec

\* However many replicas release and flush, and whatever is retried, no row is
\* put on a channel's queue twice, none goes out both alone and in a digest,
\* and a second digest with it costs a failed send.
THEOREM SentOnceAlways == Spec => []SentOnce
<1>1. Types /\ Rowwise /\ Placed => SentOnce
  <2> SUFFICES ASSUME Types, Rowwise, Placed PROVE SentOnce
    OBVIOUS
  <2>1. \A x \in Rows, c \in Channels : queued[x][c] <= 1 BY DEF Rowwise, RowFits
  <2>2. ASSUME NEW n \in Notifications
        PROVE  /\ Individually(n) => DigestsOf(n) = {}
               /\ Cardinality(DigestsOf(n)) <= 1 + Cardinality(Failures)
    <3>1. DigestsOf(n) \subseteq Listed(n) BY DEF DigestsOf, Listed
    <3>2. ASSUME Individually(n) PROVE DigestsOf(n) = {}
      <4>1. PICK c \in Channels : queued[n][c] > 0 BY <3>2 DEF Individually
      <4>2. RowFits(n) /\ SideFits(n) BY NotificationFacts DEF Rowwise
      <4>3. status[n] \in Out BY <4>1, <4>2 DEF RowFits
      <4>4. ~OnDigestSide(n) BY <4>2, <4>3 DEF SideFits, DigestSide, Out
      <4>5. Listed(n) = {} BY <4>4 DEF OnDigestSide, Listed
      <4> QED BY <3>1, <4>5
    <3>3. IsFiniteSet(Listed(n)) /\ Cardinality(Listed(n)) \in Nat BY ListedCounts
    <3>4. IsFiniteSet(DigestsOf(n)) /\ Cardinality(DigestsOf(n)) <= Cardinality(Listed(n)) BY <3>1, <3>3, FS_Subset
    <3>5. Cardinality(DigestsOf(n)) \in Nat BY <3>4, FS_CardinalityType
    <3>6. Cardinality(Listed(n)) <= 1 + Cardinality(Failures) BY DEF Placed, Bounded
    <3>7. IsFiniteSet(Failures)
      <4>1. IsFiniteSet({"sendThrow"}) BY FS_Singleton
      <4>2. IsFiniteSet({"sendThrow"} \cup {"queueFail"}) BY <4>1, FS_AddElement
      <4>3. Failures \subseteq {"sendThrow"} \cup {"queueFail"} BY DEF Failures
      <4> QED BY <4>2, <4>3, FS_Subset
    <3>8. Cardinality(Failures) \in Nat BY <3>7, FS_CardinalityType
    <3>9. Cardinality(DigestsOf(n)) <= 1 + Cardinality(Failures) BY <3>3, <3>4, <3>5, <3>6, <3>8
    <3> QED BY <3>2, <3>9
  <2> QED BY <2>1, <2>2 DEF SentOnce, Failures
<1> QED BY <1>1, RowwiseAlways, PlacedAlways, PTL

-----------------------------------------------------------------------------
(***************************************************************************)
(* Holding: nothing that is held gets lost, and an overnight pile goes out *)
(* as a digest.                                                            *)
(***************************************************************************)

-----------------------------------------------------------------------------
(***************************************************************************)
(* As long as no release is retried, what is scheduled is still as         *)
(* process() left it, quiet notifications in the quiet queue included.     *)
(***************************************************************************)

Deferring == {"defer", "deferStatus", "deferBucket"}

AsHeld(n) ==
    /\ status[n] = IF decision[n] = "quiet" THEN "QUIET" ELSE "ROUTED"
    /\ decision[n] = "quiet" => n \in quietQueue

NeverRetried(n) ==
    /\ pc[n] = "schedule" /\ decision[n] = "quiet" => n \in quietQueue
    /\ n \in scheduled => AsHeld(n)
    /\ \A r \in Replicas : Holds(r, n) =>
          pc[Releaser(r)] # "failed" /\ (pc[Releaser(r)] \in {"defer", "resume"} => AsHeld(n))

Intact(n) ==
    /\ \A r \in Replicas : Holds(r, n) /\ pc[Releaser(r)] \in Deferring => decision[n] = "quiet"
    /\ "releaseThrow" \notin used => NeverRetried(n)

\* What a claimed member leads to.
LEMMA Claims ==
    ASSUME Types, NEW r \in Replicas, Claim(r)
    PROVE  /\ pc[Releaser(r)] = "next" /\ status' = status /\ decision' = decision /\ quietQueue' = quietQueue
           /\ used' = used
           /\ \/ batch[r] = {} /\ scheduled' = scheduled /\ pc'[Releaser(r)] = "idle" /\ batch' = batch
              \/ \E m \in batch[r] :
                    /\ batch' = [batch EXCEPT ![r] = @ \ {m}]
                    /\ \/ m \notin scheduled /\ scheduled' = scheduled /\ pc'[Releaser(r)] = "next" /\ cur' = cur /\ depth' = depth
                       \/ /\ m \in scheduled /\ scheduled' = scheduled \ {m} /\ cur'[r] = m /\ depth' = depth
                          /\ pc'[Releaser(r)] = IF decision[m] = "quiet" /\ depth[r] > DigestThreshold THEN "defer" ELSE "resume"
<1> USE DEF Types
<1>0. Releaser(r) \in Actors BY ActorFacts
<1>1. /\ pc[Releaser(r)] = "next" /\ status' = status /\ decision' = decision /\ quietQueue' = quietQueue
      /\ used' = used
  BY DEF Claim, rows, event
<1>2. CASE batch[r] = {} BY <1>0, <1>1, <1>2 DEF Claim, Go, PcTypes
<1>3. CASE batch[r] # {}
  <2>1. PICK m \in batch[r] :
          /\ depth' = depth /\ batch' = [batch EXCEPT ![r] = @ \ {m}]
          /\ scheduled' = scheduled \ {m}
          /\ IF m \notin scheduled THEN UNCHANGED <<pc, chan, cur>>
             ELSE /\ cur' = [cur EXCEPT ![r] = m]
                  /\ Go(Releaser(r), IF decision[m] = "quiet" /\ shouldBatchIntoDig(depth[r]) THEN "defer" ELSE "resume")
    BY <1>3 DEF Claim
  <2>2. CASE m \notin scheduled BY <1>1, <2>1, <2>2
  <2>3. CASE m \in scheduled
    <3>1. cur'[r] = m BY <2>1, <2>3 DEF PollTypes
    <3>2. pc'[Releaser(r)] = IF decision[m] = "quiet" /\ shouldBatchIntoDig(depth[r]) THEN "defer" ELSE "resume"
      BY <1>0, <2>1, <2>3 DEF Go, PcTypes
    <3> QED BY <1>1, <2>1, <2>3, <3>1, <3>2 DEF shouldBatchIntoDig
  <2> QED BY <2>2, <2>3
<1> QED BY <1>2, <1>3

\* What a poller does to the notification in its hands.
LEMMA HandSteps ==
    ASSUME Types, Rowwise, NEW r \in Replicas, NEW n \in Notifications, Holds(r, n), RStep(r)
    PROVE  LET a == Releaser(r)
           IN \/ Defer(r) /\ pc[a] = "defer" /\ status' = status /\ status[n] = "QUIET" /\ pc'[a] = "deferStatus"
              \/ Defer(r) /\ pc[a] = "defer" /\ status' = status /\ status[n] # "QUIET" /\ pc'[a] = "next" /\ quietQueue' = quietQueue
              \/ DeferStatus(r) /\ pc[a] = "deferStatus" /\ status'[n] = "DIGEST_PENDING" /\ pc'[a] = "deferBucket"
              \/ DeferBucket(r) /\ pc[a] = "deferBucket" /\ status' = status /\ pc'[a] = "next"
              \/ Resume(r) /\ pc[a] = "resume" /\ status' = status /\ status[n] = "QUIET" /\ pc'[a] = "resumeStatus"
              \/ Resume(r) /\ pc[a] = "resume" /\ status' = status /\ status[n] = "ROUTED" /\ pc'[a] = "queue"
              \/ Resume(r) /\ pc[a] = "resume" /\ status' = status /\ status[n] \notin {"QUIET", "ROUTED"} /\ pc'[a] = "next"
              \/ ResumeStatus(r) /\ pc[a] = "resumeStatus" /\ status'[n] = "ROUTED" /\ pc'[a] = "queue"
              \/ Reschedule(r) /\ pc[a] = "failed" /\ status' = status /\ pc'[a] = "next" /\ scheduled' = scheduled \cup {n}
              \/ /\ FanOutStep(a) \/ QueueFails(a)
                 /\ pc[a] \in FanPc /\ status'[n] \in Out /\ pc'[a] \in {"publish", "queue", "next"}
              \/ ReleaseThrows(r) /\ status' = status /\ pc'[a] = "failed" /\ Spend("releaseThrow")
<1> DEFINE a == Releaser(r)
<1> USE DEF Types
<1>0. /\ n \in Rows /\ a \in Actors /\ cur[r] = n /\ After(a) = "next" /\ RowOf(a) = n /\ "next" \in AnyPc /\ "next" \notin FanPc
      /\ status \in [Rows -> NotificationStatus \cup {"absent"}] /\ pc \in [Actors -> AnyPc]
  BY ActorFacts, NotificationFacts, PcSets DEF Holds, RowTypes, PcTypes
<1>d. a = Releaser(r) OBVIOUS
<1>e. pc[a] \in Releasing BY DEF Holds
<1> HIDE DEF a
<1>1. CASE Defer(r) BY <1>0, <1>d, <1>1 DEF Defer, Go, rows
<1>2. CASE DeferStatus(r) BY <1>0, <1>d, <1>2 DEF DeferStatus, SetStatus, Go
<1>3. CASE DeferBucket(r) BY <1>0, <1>d, <1>3 DEF DeferBucket, Go, rows
<1>4. CASE Resume(r) BY <1>0, <1>d, <1>4 DEF Resume, Go, fanOut, rows
<1>5. CASE ResumeStatus(r) BY <1>0, <1>d, <1>5 DEF ResumeStatus, SetStatus, fanOut
<1>6. CASE Reschedule(r) BY <1>0, <1>d, <1>6 DEF Reschedule, Go, rows
<1>7. CASE FanOutStep(a) \/ QueueFails(a)
  <2>1. pc[a] \in FanPc BY <1>7, FanFrame
  <2>2. Fans(a, n) BY <1>0, <1>7, FanRows DEF Fans
  <2>3. FanFits(a, n) /\ RowFits(n) BY <1>0, <1>d DEF Rowwise
  <2>4. status'[n] \in Out BY <1>0, <2>2, <2>3, FansFit
  <2>5. pc'[a] \in {"publish", "queue", "next"} BY <1>0, <1>7, FanMoves DEF Moves
  <2> QED BY <1>7, <1>d, <2>1, <2>4, <2>5
<1>8. CASE ReleaseThrows(r) BY <1>0, <1>d, <1>8 DEF ReleaseThrows, Go, rows
<1>9. ~Poll(r) /\ ~Depth(r) /\ ~Claim(r) BY <1>d, <1>e DEF Poll, Depth, Claim, Releasing
<1>10. Releaser(r) = a BY <1>d
<1> QED BY <1>1, <1>2, <1>3, <1>4, <1>5, <1>6, <1>7, <1>8, <1>9, <1>10 DEF RStep, releaseDue

\* How a poller comes to have a notification in hand: it claims it.
LEMMA HandBefore ==
    ASSUME Types, NEW r \in Replicas, NEW n \in Notifications, RStep(r), Holds(r, n)'
    PROVE  Holds(r, n) \/ (Claim(r) /\ n \in batch[r] /\ n \in scheduled /\ n \notin scheduled'
                            /\ pc'[Releaser(r)] = IF decision[n] = "quiet" /\ depth[r] > DigestThreshold THEN "defer" ELSE "resume")
<1> USE DEF Types
<1>1. CASE Claim(r)
  <2>1. pc'[Releaser(r)] \notin {"idle", "next"} /\ cur'[r] = n BY DEF Holds, Releasing
  <2> QED BY <1>1, <2>1, Claims
<1>2. CASE ~Claim(r)
  <2>1. cur' = cur BY <1>2, RFrame
  <2>2. pc'[Releaser(r)] \in Releasing BY DEF Holds
  <2>3. pc[Releaser(r)] \in Releasing
    <3>1. ~Poll(r) /\ ~Depth(r) BY <2>2, ActorFacts DEF Poll, Depth, Go, PcTypes, Releasing
    <3>2. FanOutStep(Releaser(r)) \/ QueueFails(Releaser(r)) => pc[Releaser(r)] \in Releasing BY FanFrame DEF FanPc, Releasing
    <3> QED BY <1>2, <3>1, <3>2
            DEF RStep, releaseDue, Defer, DeferStatus, DeferBucket, Resume, ResumeStatus, Reschedule, ReleaseThrows, Releasing
  <2> QED BY <2>1, <2>3 DEF Holds
<1> QED BY <1>1, <1>2

\* A step of somebody else leaves alone what n is held by.
Unheld(n) ==
    /\ status'[n] = status[n] /\ decision'[n] = decision[n] /\ pc'[n] = pc[n]
    /\ (n \in scheduled' <=> n \in scheduled) /\ (n \in quietQueue' <=> n \in quietQueue)
    /\ \A r \in Replicas : (Holds(r, n)' <=> Holds(r, n)) /\ (Holds(r, n) => pc'[Releaser(r)] = pc[Releaser(r)])

LEMMA IntactKept ==
    ASSUME HistTypes, [Next]_vars, NEW n \in Notifications, Intact(n), Unheld(n)
    PROVE  Intact(n)'
<1>1. used \subseteq used' BY UsedGrows
<1>2. NeverRetried(n) => NeverRetried(n)' BY DEF Unheld, NeverRetried, AsHeld
<1>3. \A r \in Replicas : Holds(r, n)' /\ pc'[Releaser(r)] \in Deferring => decision'[n] = "quiet"
  BY DEF Unheld, Intact
<1> QED BY <1>1, <1>2, <1>3 DEF Intact

\* Steps of process(n) and of the poller that has n apart, n is left alone.
LEMMA Alone ==
    ASSUME Types, Rowwise, [Next]_vars, NEW n \in Notifications
    PROVE  \/ Unheld(n)
           \/ NStep(n)
           \/ \E r \in Replicas : RStep(r) /\ Holds(r, n)
           \/ \E r \in Replicas : /\ RStep(r) /\ Claim(r) /\ n \in batch[r] /\ n \in scheduled /\ n \notin scheduled' /\ Holds(r, n)'
                                  /\ pc'[Releaser(r)] = IF decision[n] = "quiet" /\ depth[r] > DigestThreshold THEN "defer" ELSE "resume"
           \/ \E r \in Replicas : FStep(r) /\ status[n] \in DigestSide
           \/ \E r \in Replicas : Crash(r)
<1> USE DEF Types
<1>0. n \in Rows BY NotificationFacts
<1>a. SideFits(n) BY DEF Rowwise
<1>1. ASSUME NEW m \in Notifications, NStep(m), m # n PROVE Unheld(n)
  <2>1. UNCHANGED cur /\ \A r \in Replicas : pc'[Releaser(r)] = pc[Releaser(r)] BY <1>1, NFrame, NOthers
  <2>2. pc'[n] = pc[n] /\ decision'[n] = decision[n] /\ status'[n] = status[n] /\ (n \in scheduled' <=> n \in scheduled)
    BY <1>0, <1>1, NOthers
  <2>3. n \in quietQueue' <=> n \in quietQueue BY <1>1, NFrame DEF QuietQueue
  <2> QED BY <2>1, <2>2, <2>3 DEF Unheld, Holds
<1>2. ASSUME NEW r \in Replicas, RStep(r), ~Holds(r, n)
      PROVE  Unheld(n) \/ (Claim(r) /\ n \in batch[r] /\ n \in scheduled /\ n \notin scheduled' /\ Holds(r, n)'
                            /\ pc'[Releaser(r)] = IF decision[n] = "quiet" /\ depth[r] > DigestThreshold THEN "defer" ELSE "resume")
  <2>1. /\ pc'[n] = pc[n] /\ decision' = decision /\ status'[n] = status[n]
        /\ \A q \in Replicas : q # r => cur'[q] = cur[q] /\ pc'[Releaser(q)] = pc[Releaser(q)]
    BY <1>0, <1>2, RFrame, ROthers DEF Holds
  <2>2. n \in quietQueue' <=> n \in quietQueue
    <3>1. CASE Defer(r) BY <1>2, <3>1 DEF Defer, Holds, Releasing
    <3>2. CASE Resume(r) BY <1>2, <3>2 DEF Resume, Holds, Releasing
    <3> QED BY <1>2, <3>1, <3>2, RFrame
  <2>3. CASE Holds(r, n)' BY <1>2, <2>3, HandBefore
  <2>4. CASE ~Holds(r, n)'
    <3>1. CASE n \in scheduled' <=> n \in scheduled BY <1>2, <2>1, <2>2, <2>4, <3>1 DEF Unheld, Holds
    <3>2. CASE Claim(r)
      <4>1. scheduled' = scheduled \/ \E m \in batch[r] : scheduled' = scheduled \ {m} /\ m \in scheduled
                                        /\ pc'[Releaser(r)] \in Releasing /\ cur'[r] = m
        BY <3>2, Claims DEF Releasing
      <4>2. n \in scheduled' <=> n \in scheduled BY <2>4, <4>1 DEF Holds
      <4> QED BY <3>1, <4>2
    <3>3. CASE Reschedule(r)
      <4>1. n \in scheduled' <=> n \in scheduled BY <1>2, <3>3 DEF Reschedule, Holds, Releasing
      <4> QED BY <3>1, <4>1
    <3> QED BY <1>2, <3>1, <3>2, <3>3, RFrame
  <2> QED BY <2>3, <2>4
<1>3. ASSUME NEW r \in Replicas, FStep(r), status[n] \notin DigestSide PROVE Unheld(n)
  <2>1. /\ pc'[n] = pc[n] /\ decision' = decision /\ scheduled' = scheduled /\ quietQueue' = quietQueue /\ cur' = cur
        /\ \A q \in Replicas : pc'[Releaser(q)] = pc[Releaser(q)]
    BY <1>3, FFrame, FOthers
  <2>2. n \notin items[r] BY <1>a, <1>3 DEF SideFits, OnDigestSide
  <2>3. status'[n] = status[n] BY <1>3, <2>2, FOthers
  <2> QED BY <2>1, <2>3 DEF Unheld, Holds
<1>4. CASE Dawn BY <1>4, DawnFrame DEF Unheld, Holds
<1>5. CASE UNCHANGED vars BY <1>5, Frozen DEF Unheld, Holds
<1> QED BY <1>1, <1>2, <1>3, <1>4, <1>5, Steps

LEMMA IntactNext ==
    ASSUME Types, Rowwise, [Next]_vars, NEW n \in Notifications, Intact(n)
    PROVE  Intact(n)'
<1> USE DEF Types
<1>0. /\ n \in Rows /\ n \in Actors /\ used \subseteq used' /\ pc \in [Actors -> AnyPc]
  BY NotificationFacts, UsedGrows DEF PcTypes
<1>a. RunFits(n) /\ HoldFits(n) BY DEF Rowwise
<1>1. CASE Unheld(n) BY <1>1, IntactKept
<1>2. CASE NStep(n)
  <2>1. pc[n] # "done" /\ n \notin scheduled /\ \A r \in Replicas : ~Holds(r, n) BY <1>2, <1>a, NOthers DEF HoldFits, Held
  <2>2. \A r \in Replicas : ~Holds(r, n)' BY <1>2, <2>1, NFrame, NOthers DEF Holds
  <2>3. CASE scheduleRelease(n)
    <3>1. /\ pc[n] = "schedule" /\ pc'[n] = "done" /\ scheduled' = scheduled \cup {n}
          /\ status' = status /\ decision' = decision /\ quietQueue' = quietQueue
      BY <1>0, <2>3 DEF scheduleRelease, Go, rows, event
    <3>2. "releaseThrow" \notin used => AsHeld(n) BY <1>a, <3>1 DEF RunFits, AsHeld, Intact, NeverRetried
    <3>3. AsHeld(n) => AsHeld(n)' BY <3>1 DEF AsHeld
    <3> QED BY <1>0, <2>2, <3>1, <3>2, <3>3 DEF Intact, NeverRetried
  <2>4. CASE QuietQueue(n)
    <3>1. n \in quietQueue' /\ scheduled' = scheduled BY <2>4 DEF QuietQueue
    <3> QED BY <1>0, <2>1, <2>2, <3>1 DEF Intact, NeverRetried
  <2>5. CASE ~scheduleRelease(n) /\ ~QuietQueue(n)
    <3>1. scheduled' = scheduled BY <1>2, <2>5, NFrame
    <3>2. ~(pc'[n] = "schedule" /\ decision'[n] = "quiet")
      <4>1. CASE Hold(n)
        <5>1. decision' = decision BY <4>1 DEF Hold, event
        <5>2. decision[n] = "quiet" => pc'[n] = "quietQueue" BY <1>0, <4>1 DEF Hold, Go
        <5> QED BY <5>1, <5>2
      <4>2. CASE Fans(n, n)
        <5>1. pc'[n] \in {"publish", "queue", "done"} BY <1>0, <4>2, FanMoves, NotificationFacts, PcSets DEF Fans, Moves
        <5> QED BY <5>1
      <4>3. CASE Route(n) \/ Bucket(n) \/ EngineThrows(n)
        BY <1>0, <4>3 DEF Route, Bucket, EngineThrows, Go
      <4> QED BY <1>2, <2>5, <4>1, <4>2, <4>3, NSteps
    <3> QED BY <2>1, <2>2, <3>1, <3>2 DEF Intact, NeverRetried
  <2> QED BY <2>3, <2>4, <2>5
<1>3. ASSUME NEW r \in Replicas, RStep(r), Holds(r, n) PROVE Intact(n)'
  <2>0. /\ Held(n) /\ n \notin scheduled /\ pc'[n] = pc[n] /\ decision'[n] = decision[n]
        /\ \A q \in Replicas : q # r => ~Holds(q, n)'
    BY <1>3, <1>a, RFrame, ROthers DEF HoldFits, Holds
  <2>1. pc[n] = "done" BY <2>0 DEF Held
  <2>2. /\ pc'[Releaser(r)] \in Deferring => pc[Releaser(r)] \in Deferring
        /\ pc'[Releaser(r)] \notin {"defer", "resume"}
        /\ pc'[Releaser(r)] = "failed" => Spend("releaseThrow")
    BY <1>3, HandSteps DEF Deferring
  <2>3. "releaseThrow" \notin used' => pc'[Releaser(r)] # "failed" BY <2>2 DEF Spend
  <2>4. "releaseThrow" \notin used' => n \notin scheduled'
    <3>1. ASSUME "releaseThrow" \notin used PROVE ~Reschedule(r) BY <1>3, <3>1 DEF Reschedule, Intact, NeverRetried
    <3>2. ~Claim(r) BY <1>3 DEF Claim, Holds, Releasing
    <3> QED BY <1>0, <1>3, <2>0, <3>1, <3>2, RFrame
  <2> QED BY <1>3, <2>0, <2>1, <2>2, <2>3, <2>4 DEF Intact, NeverRetried
<1>4. ASSUME NEW r \in Replicas, RStep(r), Claim(r), n \in scheduled, n \notin scheduled',
             pc'[Releaser(r)] = IF decision[n] = "quiet" /\ depth[r] > DigestThreshold THEN "defer" ELSE "resume"
      PROVE  Intact(n)'
  <2>0. /\ Held(n) /\ (\A q \in Replicas : ~Holds(q, n)) /\ pc'[n] = pc[n] /\ decision'[n] = decision[n]
        /\ \A q \in Replicas : q # r => ~Holds(q, n)'
    BY <1>4, <1>a, RFrame, ROthers DEF HoldFits, Holds
  <2>1. pc[n] = "done" BY <2>0 DEF Held
  <2>2. status' = status /\ quietQueue' = quietQueue BY <1>4, Claims
  <2>3. AsHeld(n) => AsHeld(n)' BY <2>0, <2>2 DEF AsHeld
  <2> QED BY <1>0, <1>4, <2>0, <2>1, <2>3 DEF Intact, NeverRetried, Deferring
<1>5. ASSUME NEW r \in Replicas, FStep(r), status[n] \in DigestSide PROVE Intact(n)'
  <2>1. /\ pc'[n] = pc[n] /\ decision' = decision /\ scheduled' = scheduled /\ quietQueue' = quietQueue /\ cur' = cur
        /\ \A q \in Replicas : pc'[Releaser(q)] = pc[Releaser(q)]
    BY <1>5, FFrame, FOthers
  <2>2. ~AsHeld(n) BY <1>5 DEF AsHeld, DigestSide
  <2>3. \A q \in Replicas : Holds(q, n)' <=> Holds(q, n) BY <2>1 DEF Holds
  <2> QED BY <1>0, <2>1, <2>2, <2>3 DEF Intact, NeverRetried
<1>6. ASSUME NEW r \in Replicas, Crash(r) PROVE Intact(n)'
  <2>1. status' = status /\ decision' = decision /\ scheduled' = scheduled /\ quietQueue' = quietQueue /\ cur' = cur
    BY <1>6, CrashFrame
  <2>2. pc'[n] = pc[n] \/ pc'[n] = "done" BY <1>6, CrashMoves
  <2>3. \A q \in Replicas : pc'[Releaser(q)] = pc[Releaser(q)] \/ pc'[Releaser(q)] = "idle"
    BY <1>6, CrashMoves
  <2>4. \A q \in Replicas : Holds(q, n)' => Holds(q, n) /\ pc'[Releaser(q)] = pc[Releaser(q)]
    BY <2>1, <2>3 DEF Holds, Releasing
  <2>5. AsHeld(n) => AsHeld(n)' BY <2>1 DEF AsHeld
  <2> QED BY <1>0, <2>1, <2>2, <2>4, <2>5 DEF Intact, NeverRetried
<1> QED BY <1>1, <1>2, <1>3, <1>4, <1>5, <1>6, Alone

\* As long as no release is retried, everything scheduled is as process() left
\* it, and is handed to a poller in that state.
THEOREM IntactAlways == Spec => [](\A n \in Notifications : Intact(n))
<1>1. Init => \A n \in Notifications : Intact(n)
  <2> SUFFICES ASSUME Init, NEW n \in Notifications PROVE Intact(n)
    OBVIOUS
  <2>1. \A r \in Replicas : pc[Releaser(r)] = "idle" BY ActorFacts DEF Init
  <2>2. pc[n] = "route" /\ scheduled = {} BY NotificationFacts DEF Init
  <2> QED BY <2>1, <2>2 DEF Intact, NeverRetried, Holds, Releasing
<1>2. (Types /\ Rowwise) /\ (\A n \in Notifications : Intact(n)) /\ [Next]_vars => (\A n \in Notifications : Intact(n))'
  BY IntactNext
<1> QED BY <1>1, <1>2, RowwiseAlways, PTL DEF Spec

-----------------------------------------------------------------------------
(***************************************************************************)
(* What waits for the morning.                                             *)
(***************************************************************************)

KeptForMorning(n) ==
    /\ status[n] \in {"ENRICHED", "QUIET", "ROUTED"}
    /\ n \notin parked /\ "crash" \notin used
    /\ status[n] = "ROUTED" /\ decision[n] = "quiet" => "releaseThrow" \notin used
    => n \in scheduled \/ pc[n] # "done" \/ \E r \in Replicas : Holds(r, n)

LEMMA ParkedGrows ==
    ASSUME [Next]_vars
    PROVE  parked \subseteq parked'
<1>1. ASSUME NEW n \in Notifications, NStep(n) PROVE parked \subseteq parked' BY <1>1, NFrame DEF EngineThrows
<1>2. ASSUME NEW r \in Replicas, RStep(r) PROVE parked' = parked BY <1>2, RFrame
<1>3. ASSUME NEW r \in Replicas, FStep(r) PROVE parked' = parked BY <1>3, FFrame
<1>4. ASSUME NEW r \in Replicas, Crash(r) PROVE parked' = parked BY <1>4, CrashFrame
<1>5. Dawn \/ UNCHANGED vars => parked' = parked BY DawnFrame, Frozen
<1> QED BY <1>1, <1>2, <1>3, <1>4, <1>5, Steps

\* How process(n) ends.
LEMMA RunEnds ==
    ASSUME Types, Rowwise, NEW n \in Notifications, NStep(n), pc'[n] = "done"
    PROVE  \/ scheduleRelease(n) /\ n \in scheduled' /\ status'[n] \in {"QUIET", "ROUTED"}
           \/ Bucket(n) /\ status'[n] = status[n] /\ status[n] \in DigestSide /\ n \in buckets'[decision[n]] /\ decision[n] \in Sources
           \/ EngineThrows(n) /\ n \in parked'
           \/ status'[n] = "CAPPED" \/ status'[n] \in Out
<1> USE DEF Types
<1>0. /\ n \in Rows /\ n \in Actors /\ pc \in [Actors -> AnyPc] /\ After(n) = "done" /\ "done" \notin FanPc
      /\ status \in [Rows -> NotificationStatus \cup {"absent"}]
  BY NotificationFacts, PcSets DEF PcTypes, RowTypes
<1>a. RunFits(n) /\ FanFits(n, n) /\ RowFits(n) BY <1>0 DEF Rowwise
<1>1. CASE Route(n) BY <1>0, <1>1 DEF Route, Go
<1>2. CASE Hold(n)
  <2>1. decision[n] = "noTemplate" => SetStatus(n, "CAPPED") BY <1>2, Zenon DEF Hold
  <2>2. decision[n] = "now" => fanOut(n) BY <1>2 DEF Hold
  <2>3. decision[n] \in {"hourly", "daily", "capped"} => Go(n, "bucket") BY <1>2 DEF Hold
  <2>4. decision[n] = "quiet" => Go(n, "quietQueue") BY <1>2 DEF Hold
  <2>5. decision[n] = "sto" => Go(n, "schedule") BY <1>2 DEF Hold
  <2>6. decision[n] \in AllDecisions BY <1>2 DEF Hold, EventTypes
  <2>7. decision[n] = "noTemplate" BY <1>0, <2>2, <2>3, <2>4, <2>5, <2>6 DEF Go, fanOut, AllDecisions
  <2> QED BY <1>0, <2>1, <2>7 DEF SetStatus
<1>3. CASE Bucket(n)
  <2>1. status' = status /\ status[n] \in DigestSide BY <1>3, <1>a DEF Bucket, rows, RunFits
  <2>2. decision[n] \in Sources /\ buckets' = [buckets EXCEPT ![decision[n]] = @ \cup {n}]
    BY <1>3 DEF Bucket, add, EventTypes, Sources
  <2>3. n \in buckets'[decision[n]] BY <2>2 DEF SetTypes
  <2> QED BY <1>3, <2>1, <2>2, <2>3
<1>4. CASE QuietQueue(n) BY <1>0, <1>4 DEF QuietQueue, Go
<1>5. CASE scheduleRelease(n)
  <2>1. pc[n] = "schedule" /\ status' = status /\ n \in scheduled' BY <1>5 DEF scheduleRelease, rows
  <2> QED BY <1>5, <1>a, <2>1 DEF RunFits
<1>6. CASE Fans(n, n) BY <1>0, <1>6, <1>a, FansFit
<1>7. CASE EngineThrows(n) BY <1>7 DEF EngineThrows
<1> QED BY <1>1, <1>2, <1>3, <1>4, <1>5, <1>6, <1>7, NSteps

LEMMA KeptForMorningNext ==
    ASSUME Types, Rowwise, [Next]_vars, NEW n \in Notifications, Intact(n), KeptForMorning(n)
    PROVE  KeptForMorning(n)'
<1> USE DEF Types
<1>0. used \subseteq used' /\ parked \subseteq parked' BY UsedGrows, ParkedGrows
<1>a. HoldFits(n) BY DEF Rowwise
<1>1. CASE Unheld(n) BY <1>0, <1>1 DEF Unheld, KeptForMorning
<1>2. CASE NStep(n) BY <1>2, RunEnds DEF KeptForMorning, DigestSide, Out
<1>3. ASSUME NEW r \in Replicas, RStep(r), Holds(r, n) PROVE KeptForMorning(n)'
  <2>0. Held(n) /\ cur[r] = n /\ ~Claim(r) /\ decision' = decision
    BY <1>3, <1>a, RFrame DEF HoldFits, Holds, Claim, Releasing
  <2>1. cur' = cur BY <1>3, <2>0, RFrame
  <2>2. CASE pc'[Releaser(r)] \in Releasing BY <2>0, <2>1, <2>2 DEF Holds, KeptForMorning
  <2>3. CASE pc'[Releaser(r)] \notin Releasing
    <3>1. CASE pc[Releaser(r)] = "defer" /\ status[n] # "QUIET" /\ status' = status
      <4>1. decision[n] = "quiet" BY <1>3, <3>1 DEF Intact, Deferring
      <4>2. "releaseThrow" \in used BY <1>3, <3>1, <4>1 DEF Intact, NeverRetried, AsHeld
      <4>3. status'[n] \notin {"ENRICHED", "QUIET"} BY <2>0, <3>1 DEF Held
      <4> QED BY <1>0, <2>0, <4>1, <4>2, <4>3 DEF KeptForMorning
    <3>2. CASE pc[Releaser(r)] = "deferBucket" /\ status' = status
      <4>1. status'[n] \in DigestSide BY <1>3, <1>a, <3>2 DEF HoldFits
      <4> QED BY <4>1 DEF KeptForMorning, DigestSide
    <3>3. CASE status' = status /\ status[n] \notin {"QUIET", "ROUTED"} BY <2>0, <3>3 DEF KeptForMorning, Held
    <3>4. CASE scheduled' = scheduled \cup {n} BY <3>4 DEF KeptForMorning
    <3>5. CASE status'[n] \in Out BY <3>5 DEF KeptForMorning, Out
    <3> QED BY <1>3, <2>3, <3>1, <3>2, <3>3, <3>4, <3>5, HandSteps DEF Releasing
  <2> QED BY <2>2, <2>3
<1>4. ASSUME NEW r \in Replicas, Holds(r, n)' PROVE KeptForMorning(n)' BY <1>4 DEF KeptForMorning
<1>5. ASSUME NEW r \in Replicas, FStep(r), status[n] \in DigestSide PROVE KeptForMorning(n)'
  <2>1. status'[n] \in DigestSide BY <1>5, SideKept
  <2> QED BY <2>1 DEF KeptForMorning, DigestSide
<1>6. ASSUME NEW r \in Replicas, Crash(r) PROVE KeptForMorning(n)'
  <2>1. "crash" \in used' BY <1>6, CrashFrame DEF Spend
  <2> QED BY <2>1 DEF KeptForMorning
<1> QED BY <1>1, <1>2, <1>3, <1>4, <1>5, <1>6, Alone

-----------------------------------------------------------------------------
(***************************************************************************)
(* Every bucket that holds something is due, or won by a flusher.          *)
(***************************************************************************)

BucketsDue ==
    /\ \A r \in Replicas : pc[Flusher(r)] = "idle" => claimed[r] = {}
    /\ used \cap {"crash", "flushThrow"} = {} =>
          \A s \in Sources : buckets[s] # {} => s \in digestDue \/ \E r \in Replicas : s \in claimed[r]

\* Whoever is no flusher only adds to the buckets, and what it adds to is due.
LEMMA BucketsGrow ==
    ASSUME Types, [Next]_vars
    PROVE  \/ /\ ids' = ids /\ claimed' = claimed /\ digestDue \subseteq digestDue'
              /\ \A s \in Sources : buckets[s] \subseteq buckets'[s] /\ (buckets'[s] = buckets[s] \/ s \in digestDue')
           \/ \E r \in Replicas : FStep(r)
           \/ \E r \in Replicas : Crash(r)
<1> USE DEF Types
<1>0. buckets \in [Sources -> SUBSET Notifications] BY DEF SetTypes
<1>a. ASSUME NEW t \in Sources, NEW m \in Notifications, add(t, m)
      PROVE  /\ digestDue \subseteq digestDue'
             /\ \A s \in Sources : buckets[s] \subseteq buckets'[s] /\ (buckets'[s] = buckets[s] \/ s \in digestDue')
  BY <1>0, <1>a DEF add
<1>1. ASSUME NEW n \in Notifications, NStep(n)
      PROVE  /\ ids' = ids /\ claimed' = claimed /\ digestDue \subseteq digestDue'
             /\ \A s \in Sources : buckets[s] \subseteq buckets'[s] /\ (buckets'[s] = buckets[s] \/ s \in digestDue')
  <2>1. ids' = ids /\ claimed' = claimed BY <1>1, NFrame
  <2>2. CASE Bucket(n)
    <3>1. decision[n] \in Sources /\ add(decision[n], n) BY <2>2 DEF Bucket, EventTypes, Sources
    <3> QED BY <1>a, <2>1, <3>1
  <2> QED BY <1>1, <2>1, <2>2, NFrame
<1>2. ASSUME NEW r \in Replicas, RStep(r)
      PROVE  /\ ids' = ids /\ claimed' = claimed /\ digestDue \subseteq digestDue'
             /\ \A s \in Sources : buckets[s] \subseteq buckets'[s] /\ (buckets'[s] = buckets[s] \/ s \in digestDue')
  <2>1. ids' = ids /\ claimed' = claimed BY <1>2, RFrame
  <2>2. CASE DeferBucket(r)
    <3>1. "quiet" \in Sources /\ cur[r] \in Notifications /\ add("quiet", cur[r])
      BY <2>2 DEF DeferBucket, PollTypes, Releasing, Sources
    <3> QED BY <1>a, <2>1, <3>1
  <2> QED BY <1>2, <2>1, <2>2, RFrame
<1>3. CASE Dawn \/ UNCHANGED vars BY <1>3, DawnFrame, Frozen
<1> QED BY <1>1, <1>2, <1>3, Steps

LEMMA BucketsDueNext ==
    ASSUME Types, Rowwise, BucketsDue, [Next]_vars
    PROVE  BucketsDue'
<1> USE DEF Types
<1>0. used \subseteq used' /\ claimed \in [Replicas -> SUBSET Sources] /\ buckets \in [Sources -> SUBSET Notifications]
  BY UsedGrows DEF FlushTypes, SetTypes
<1>1. ASSUME NEW r \in Replicas PROVE pc'[Flusher(r)] = "idle" => claimed'[r] = {}
  <2>1. CASE FStep(r)
    <3>1. FlushEnds(r) \/ pc'[Flusher(r)] # "idle" BY <2>1, FSteps DEF Moves
    <3> QED BY <3>1 DEF FlushEnds
  <2>2. CASE Crash(r) BY <1>0, <2>2, CrashFrame
  <2>3. CASE ~FStep(r) /\ ~Crash(r) BY <2>3, FlushOwn, FlusherPcs DEF BucketsDue
  <2> QED BY <2>1, <2>2, <2>3
<1>2. ASSUME used' \cap {"crash", "flushThrow"} = {}, NEW s \in Sources, buckets'[s] # {}
      PROVE  s \in digestDue' \/ \E r \in Replicas : s \in claimed'[r]
  <2>0. buckets[s] # {} => s \in digestDue \/ \E r \in Replicas : s \in claimed[r] BY <1>0, <1>2 DEF BucketsDue
  <2>1. CASE /\ claimed' = claimed /\ digestDue \subseteq digestDue'
             /\ buckets'[s] = buckets[s] \/ s \in digestDue'
    BY <1>2, <2>0, <2>1
  <2>2. ASSUME NEW r \in Replicas, FStep(r) PROVE s \in digestDue' \/ \E q \in Replicas : s \in claimed'[q]
    <3>1. CASE ClaimDue(r)
      <4>1. PICK won \in SUBSET DueBuckets : digestDue' = digestDue \ won /\ claimed' = [claimed EXCEPT ![r] = won]
        BY <3>1 DEF ClaimDue
      <4>2. buckets' = buckets /\ claimed[r] = {} BY <3>1 DEF ClaimDue, BucketsDue
      <4>3. \A q \in Replicas : s \in claimed[q] => s \in claimed'[q] BY <1>0, <4>1, <4>2
      <4>4. s \in digestDue => s \in digestDue' \/ s \in claimed'[r] BY <1>0, <4>1
      <4> QED BY <1>2, <2>0, <4>2, <4>3, <4>4
    <3>2. CASE Take(r)
      <4>1. PICK t \in claimed[r] : /\ claimed' = [claimed EXCEPT ![r] = @ \ {t}]
                                    /\ buckets' = [buckets EXCEPT ![t] = {}]
        BY <3>2 DEF Take
      <4>2. s # t /\ buckets'[s] = buckets[s] BY <1>0, <1>2, <4>1
      <4>3. \A q \in Replicas : s \in claimed[q] => s \in claimed'[q] BY <1>0, <4>1, <4>2
      <4>4. digestDue' = digestDue BY <3>2 DEF Take
      <4> QED BY <1>2, <2>0, <4>2, <4>3, <4>4
    <3>3. CASE Restore(r)
      <4>1. /\ buckets' = [buckets EXCEPT ![source[r]] = @ \cup ids[r]] /\ digestDue' = digestDue \cup {source[r]}
            /\ claimed' = claimed
        BY <3>3 DEF Restore
      <4>2. s = source[r] \/ buckets'[s] = buckets[s] BY <1>0, <4>1
      <4> QED BY <1>2, <2>0, <4>1, <4>2
    <3>4. CASE FlushThrows(r) BY <1>2, <3>4 DEF FlushThrows, Spend
    <3>5. CASE ~ClaimDue(r) /\ ~Take(r) /\ ~Restore(r) /\ ~FlushThrows(r)
      <4>1. buckets' = buckets /\ digestDue' = digestDue /\ claimed' = claimed BY <2>2, <3>5, FFrame
      <4> QED BY <1>2, <2>0, <4>1
    <3> QED BY <3>1, <3>2, <3>3, <3>4, <3>5
  <2>3. ASSUME NEW r \in Replicas, Crash(r) PROVE FALSE BY <1>2, <2>3, CrashFrame DEF Spend
  <2> QED BY <2>1, <2>2, <2>3, BucketsGrow
<1> QED BY <1>1, <1>2 DEF BucketsDue

-----------------------------------------------------------------------------
(***************************************************************************)
(* What was found in a bucket stays together: whoever has been uncapped    *)
(* but not sent is among enough others for a digest.                       *)
(***************************************************************************)

Pending == {"DIGEST_PENDING", "CAPPED"}
Stuck(n) == status[n] = "DIGEST_PENDING" /\ DigestsOf(n) = {}
Open(P) == {m \in P : status[m] \in Pending}
Together(P) == (\E n \in P : Stuck(n)) => Cardinality(Open(P)) >= CappedMinItems

\* What a flusher that sends has taken: items still to be sent, the rest marked.
TakenFits(r) ==
    pc[Flusher(r)] \in Sending \cup {"uncap", "create"} =>
       /\ \A n \in items[r] : status[n] \in Pending
       /\ \A n \in ids[r] : n \in items[r] \/ status[n] = "DIGESTED"
       /\ pc[Flusher(r)] = "uncap" /\ source[r] = "capped" => Cardinality(items[r]) >= CappedMinItems
CappedFits(n) == pc[n] = "bucket" /\ decision[n] = "capped" => status[n] = "CAPPED"

Grouped ==
    /\ \A r \in Replicas : TakenFits(r) /\ (source[r] = "capped" => Together(ids[r]))
    /\ \A n \in Notifications : CappedFits(n)
    /\ Together(buckets["capped"])

\* A digest that went out with n never takes it back.
LEMMA DigestsKept ==
    ASSUME Types, Rowwise, [Next]_vars, NEW n \in Notifications
    PROVE  DigestsOf(n) \subseteq DigestsOf(n)'
<1> SUFFICES ASSUME NEW d \in Digests, n \in digestOf[d], NEW c \in Channels, queued[d][c] > 0
             PROVE  n \in digestOf'[d] /\ queued'[d][c] > 0
  BY DEF DigestsOf
<1> USE DEF Types
<1>0. d \in Rows /\ queued[d][c] \in Nat BY DEF Rows, RowTypes
<1>1. ASSUME NEW r \in Replicas, Fans(Flusher(r), d), digestOf' = digestOf PROVE n \in digestOf'[d] /\ queued'[d][c] > 0
  <2>1. queued'[d][c] = queued[d][c] \/ queued'[d][c] = queued[d][c] + 1 BY <1>0, <1>1, FansRow, ActorFacts
  <2> QED BY <1>0, <1>1, <2>1
<1>2. ASSUME NEW r \in Replicas, Appears(r, d) PROVE FALSE
  <2>1. DigestRow(d) BY DEF Rowwise
  <2> QED BY <1>2, <2>1 DEF Appears, DigestRow
<1> QED BY <1>1, <1>2, DigestSteps

\* A held notification's status is written by the flusher that has taken it only.
LEMMA SideStill ==
    ASSUME Types, Rowwise, Placed, [Next]_vars, NEW n \in Notifications, status[n] \in DigestSide
    PROVE  \/ status'[n] = status[n]
           \/ \E r \in Replicas : /\ FStep(r) /\ n \in items[r] /\ n \in ids[r]
                                  /\ \/ Uncap(r) /\ status[n] = "CAPPED" /\ status'[n] = "DIGEST_PENDING"
                                     \/ Mark(r) /\ status'[n] = "DIGESTED"
<1> USE DEF Types
<1>0. n \in Rows /\ n \in Actors BY NotificationFacts
<1>a. RunFits(n) /\ HoldFits(n) /\ FanFits(n, n) BY DEF Rowwise
<1>1. CASE NStep(n)
  <2>1. ~Route(n) /\ ~Hold(n) BY <1>a DEF Route, Hold, RunFits, DigestSide
  <2>2. ~Fans(n, n)
    <3>1. pc[n] \notin FanPc BY <1>a, PcSets DEF FanFits, DigestSide, Out
    <3> QED BY <1>0, <3>1, FanFrame DEF Fans
  <2> QED BY <1>1, <2>1, <2>2, NSteps DEF SameRow
<1>2. ASSUME NEW m \in Notifications, NStep(m), m # n PROVE status'[n] = status[n] BY <1>0, <1>2, NOthers
<1>3. ASSUME NEW r \in Replicas, RStep(r) PROVE status'[n] = status[n]
  <2>1. CASE Holds(r, n)
    <3>1. FanFits(Releaser(r), n) BY <2>1 DEF Rowwise, Holds
    <3>2. pc[Releaser(r)] \notin FanPc BY <3>1, PcSets DEF FanFits, DigestSide, Out
    <3>3. ~Fans(Releaser(r), cur[r]) BY <3>2, FanFrame DEF Fans
    <3>4. ~ResumeStatus(r) /\ ~DeferStatus(r) BY <1>a, <2>1 DEF HoldFits, ResumeStatus, DeferStatus, DigestSide
    <3> QED BY <1>3, <3>3, <3>4, RRows DEF SameRow
  <2>2. CASE ~Holds(r, n) BY <1>0, <1>3, <2>2, ROthers DEF Holds
  <2> QED BY <2>1, <2>2
<1>4. ASSUME NEW r \in Replicas, FStep(r), status'[n] # status[n]
      PROVE  /\ n \in items[r] /\ n \in ids[r]
             /\ \/ Uncap(r) /\ status[n] = "CAPPED" /\ status'[n] = "DIGEST_PENDING"
                \/ Mark(r) /\ status'[n] = "DIGESTED"
  <2>1. /\ n \in items[r]
        /\ \/ Uncap(r) /\ status[n] = "CAPPED" /\ status'[n] = "DIGEST_PENDING"
           \/ Mark(r) /\ status'[n] = "DIGESTED"
    BY <1>4, FOthers
  <2>2. IdsFit(r) BY DEF Placed
  <2>3. pc[Flusher(r)] \in {"uncap", "mark"} BY <2>1 DEF Uncap, Mark
  <2> QED BY <2>1, <2>2, <2>3 DEF IdsFit, Sending
<1>5. CASE Dawn BY <1>5, DawnFrame
<1>6. ASSUME NEW r \in Replicas, Crash(r) PROVE status'[n] = status[n] BY <1>6, CrashFrame
<1>7. CASE UNCHANGED vars BY <1>7, Frozen
<1> QED BY <1>1, <1>2, <1>3, <1>4, <1>5, <1>6, <1>7, Steps

\* The same of what flusher r has taken: nobody else writes it.
LEMMA TakenStill ==
    ASSUME Types, Rowwise, Placed, [Next]_vars, NEW r \in Replicas, NEW n \in ids[r]
    PROVE  /\ n \in Notifications /\ status[n] \in DigestSide
           /\ \/ status'[n] = status[n]
              \/ /\ FStep(r) /\ n \in items[r]
                 /\ \/ Uncap(r) /\ status[n] = "CAPPED" /\ status'[n] = "DIGEST_PENDING"
                    \/ Mark(r) /\ status'[n] = "DIGESTED"
<1>1. n \in Notifications BY DEF Types, FlushTypes
<1>2. status[n] \in DigestSide BY <1>1 DEF Rowwise, SideFits, OnDigestSide
<1>3. OnePlace(n) BY <1>1 DEF Placed
<1> QED BY <1>1, <1>2, <1>3, SideStill DEF OnePlace

LEMMA BucketStill ==
    ASSUME Types, Rowwise, Placed, [Next]_vars, NEW s \in Sources, NEW n \in buckets[s]
    PROVE  n \in Notifications /\ status[n] \in DigestSide /\ status'[n] = status[n]
<1>1. n \in Notifications BY DEF Types, SetTypes
<1>2. status[n] \in DigestSide BY <1>1 DEF Rowwise, SideFits, OnDigestSide
<1>3. OnePlace(n) BY <1>1 DEF Placed
<1> QED BY <1>1, <1>2, <1>3, SideStill DEF OnePlace

LEMMA TakenFitsNext ==
    ASSUME Types, Rowwise, Placed, [Next]_vars, NEW r \in Replicas, TakenFits(r)
    PROVE  TakenFits(r)'
<1> DEFINE a == Flusher(r)
           Taking == Sending \cup {"uncap", "create"}
<1> USE DEF Types
<1>0. a \in Actors /\ pc \in [Actors -> AnyPc] BY ActorFacts DEF PcTypes
<1>a. IdsFit(r) BY DEF Placed
<1>b. ids \in [Replicas -> SUBSET Notifications] /\ items \in [Replicas -> SUBSET Notifications] BY DEF FlushTypes
<1>d. a = Flusher(r) OBVIOUS
<1> HIDE DEF a
<1>1. CASE ids'[r] = ids[r] /\ items'[r] = items[r] /\ pc[a] \in Taking /\ pc'[a] # "uncap" /\ ~Mark(r)
  <2>1. \A n \in items[r] : status[n] \in Pending BY <1>1, <1>d DEF TakenFits
  <2>2. \A n \in ids[r] : n \in items[r] \/ status[n] = "DIGESTED" BY <1>1, <1>d DEF TakenFits
  <2>3. \A n \in items[r] : status'[n] \in Pending BY <1>1, <1>a, <1>d, <2>1, TakenStill DEF IdsFit, Pending
  <2>4. \A n \in ids[r] : n \in items[r] \/ status'[n] = "DIGESTED" BY <1>1, <2>2, TakenStill
  <2> QED BY <1>1, <1>d, <2>3, <2>4 DEF TakenFits
<1>2. CASE pc'[a] \notin Taking BY <1>2, <1>d DEF TakenFits
<1>3. CASE FStep(r)
  <2>1. CASE Find(r) /\ pc'[a] = "uncap"
    <3> DEFINE held == {n \in ids[r] : status[n] \in {"DIGEST_PENDING", "CAPPED"}}
    <3>1. /\ items' = [items EXCEPT ![r] = held] /\ ids' = ids /\ source' = source /\ status' = status
          /\ ~(Cardinality(held) < DIGEST_MIN_ITEMS(source[r]))
      BY <1>0, <1>d, <2>1 DEF Find, Go, flush, rows
    <3>2. items'[r] = held BY <1>b, <3>1
    <3>3. \A n \in ids[r] : n \in held \/ status'[n] = "DIGESTED" BY <3>1, TakenStill DEF DigestSide
    <3>4. source[r] = "capped" => Cardinality(held) >= CappedMinItems
      <4>1. IsFiniteSet(held) BY <1>b, EngineAssumption, FS_Subset
      <4>2. Cardinality(held) \in Nat BY <4>1, FS_CardinalityType
      <4> QED BY <3>1, <4>2, EngineAssumption DEF DIGEST_MIN_ITEMS
    <3>5. \A n \in held : status'[n] \in Pending BY <3>1 DEF Pending
    <3>6. source'[r] = source[r] /\ ids'[r] = ids[r] BY <3>1
    <3> HIDE DEF held
    <3> QED BY <2>1, <1>d, <3>2, <3>3, <3>4, <3>5, <3>6 DEF TakenFits
  <2>2. CASE Mark(r) /\ pc'[a] = "mark"
    <3>1. pc[a] = "mark" /\ items[r] # {} BY <1>0, <1>d, <2>2 DEF Mark, Go
    <3>2. PICK n \in items[r] : SetStatus(n, "DIGESTED") /\ items' = [items EXCEPT ![r] = @ \ {n}] /\ ids' = ids
      BY <2>2, <3>1 DEF Mark
    <3>3. n \in Notifications /\ n \in Rows /\ items'[r] = items[r] \ {n} /\ ids'[r] = ids[r]
      BY <1>b, <3>2, NotificationFacts
    <3>4. status'[n] = "DIGESTED" /\ \A m \in Rows : m # n => status'[m] = status[m]
      BY <3>2, <3>3 DEF SetStatus, RowTypes
    <3>5. \A m \in ids[r] : m \in Rows BY <1>b, NotificationFacts
    <3>6. items[r] \subseteq ids[r] BY <1>a, <1>d, <3>1 DEF IdsFit, Sending
    <3>7. /\ \A m \in items[r] : status[m] \in Pending
          /\ \A m \in ids[r] : m \in items[r] \/ status[m] = "DIGESTED"
      BY <1>d, <3>1 DEF TakenFits, Sending
    <3>8. \A m \in items'[r] : status'[m] \in Pending BY <3>3, <3>4, <3>5, <3>6, <3>7
    <3>9. \A m \in ids'[r] : m \in items'[r] \/ status'[m] = "DIGESTED" BY <3>3, <3>4, <3>5, <3>7
    <3> QED BY <2>2, <1>d, <3>8, <3>9 DEF TakenFits
  <2>3. CASE Uncap(r) \/ CreateDigest(r) \/ Settle(r)
    <3>1. ids' = ids /\ items' = items /\ pc[a] \in Taking /\ ~Mark(r) /\ pc'[a] # "uncap"
      BY <1>0, <1>d, <2>3 DEF Uncap, CreateDigest, Settle, Mark, Go, fanOut, flush, Sending
    <3> QED BY <1>1, <3>1
  <2>4. CASE FanOutStep(a) \/ QueueFails(a)
    <3>1. ids' = ids /\ items' = items /\ pc[a] \in FanPc BY <2>4, FanFrame
    <3>2. pc[a] \in Taking /\ pc[a] # "mark" BY <3>1, PcSets DEF Sending
    <3>3. pc'[a] # "uncap" /\ ~Mark(r) BY <1>d, <2>4, <3>2, FSteps, FanMoves, ActorFacts, PcSets DEF Moves, Mark
    <3> QED BY <1>1, <3>1, <3>2, <3>3
  <2>5. CASE pc'[a] \in Taking
    <3>1. ~ClaimDue(r) /\ ~Take(r) /\ ~FlushEnds(r) /\ ~Restore(r) /\ ~SendThrows(r) /\ ~FlushThrows(r)
      BY <1>0, <1>d, <2>5 DEF ClaimDue, Take, FlushEnds, Restore, SendThrows, FlushThrows, Go, Sending
    <3>2. Find(r) => pc'[a] = "uncap" BY <1>d, <2>5 DEF Find, Go, PcTypes, Sending
    <3>3. Mark(r) => pc'[a] = "mark" BY <1>3, <1>0, <1>d, <2>5 DEF Mark, Go, Sending
    <3>4. Flusher(r) = a BY <1>d
    <3> QED BY <1>3, <2>1, <2>2, <2>3, <2>4, <3>1, <3>2, <3>3, <3>4, FSteps
  <2> QED BY <1>2, <2>5
<1>4. CASE Crash(r)
  <2>1. pc'[a] = "idle" BY <1>4, <1>d, CrashMoves
  <2> QED BY <1>2, <2>1 DEF Sending
<1>5. CASE ~FStep(r) /\ ~Crash(r)
  <2>1. /\ pc'[a] = pc[a] /\ ids'[r] = ids[r] /\ items'[r] = items[r] /\ source'[r] = source[r]
    BY <1>5, <1>d, FlusherPcs, FlushOwn
  <2>2. \A n \in ids[r] : status'[n] = status[n] BY <1>5, TakenStill
  <2>3. pc[a] \in Taking => items[r] \subseteq ids[r] BY <1>a, <1>d DEF IdsFit
  <2> QED BY <1>d, <2>1, <2>2, <2>3 DEF TakenFits
<1> QED BY <1>3, <1>4, <1>5

LEMMA CappedFitsNext ==
    ASSUME Types, Rowwise, Placed, [Next]_vars, NEW n \in Notifications, CappedFits(n)
    PROVE  CappedFits(n)'
<1> USE DEF Types
<1>0. n \in Rows /\ n \in Actors BY NotificationFacts
<1>1. CASE NStep(n)
  <2>1. SUFFICES ASSUME pc'[n] = "bucket", decision'[n] = "capped" PROVE status'[n] = "CAPPED"
    BY DEF CappedFits
  <2>2. CASE Hold(n)
    <3>1. decision' = decision BY <2>2 DEF Hold, event
    <3>2. SetStatus(n, "CAPPED") BY <2>1, <2>2, <3>1, Zenon DEF Hold
    <3> QED BY <1>0, <3>2 DEF SetStatus, RowTypes
  <2>3. CASE Fans(n, n)
    <3>1. pc'[n] \in {"publish", "queue", "done"} BY <1>0, <2>3, FanMoves, NotificationFacts, PcSets DEF Fans, Moves
    <3> QED BY <2>1, <3>1
  <2>4. CASE Route(n) \/ Bucket(n) \/ QuietQueue(n) \/ scheduleRelease(n) \/ EngineThrows(n)
    BY <1>0, <2>1, <2>4 DEF Route, Bucket, QuietQueue, scheduleRelease, EngineThrows, Go, PcTypes
  <2> QED BY <1>1, <2>2, <2>3, <2>4, NSteps
<1>2. CASE ~NStep(n)
  <2>1. SUFFICES ASSUME pc'[n] = "bucket", decision'[n] = "capped" PROVE status'[n] = "CAPPED"
    BY DEF CappedFits
  <2>2. pc[n] = "bucket" BY <1>2, <2>1, ProcessPcs
  <2>3. decision'[n] = decision[n]
    <3>1. ASSUME NEW m \in Notifications, Route(m) PROVE m # n /\ decision'[n] = decision[n]
      <4>1. NStep(m) BY <3>1 DEF NStep, process
      <4> QED BY <1>2, <4>1, NOthers
    <3> QED BY <3>1, DecisionKept
  <2>4. status[n] = "CAPPED" BY <2>1, <2>2, <2>3 DEF CappedFits
  <2>5. OnePlace(n) BY DEF Placed
  <2>6. \A r \in Replicas : n \notin ids[r] BY <2>2, <2>5 DEF OnePlace, Waits, Nowhere
  <2> QED BY <2>4, <2>6, SideStill DEF DigestSide
<1> QED BY <1>1, <1>2

LEMMA OpenCount ==
    ASSUME NEW P \in SUBSET Notifications, NEW Q \in SUBSET Notifications, P \subseteq Q,
           Cardinality(P) >= CappedMinItems
    PROVE  Cardinality(Q) >= CappedMinItems
<1>1. IsFiniteSet(P) /\ IsFiniteSet(Q) BY EngineAssumption, FS_Subset
<1>2. Cardinality(P) <= Cardinality(Q) BY <1>1, FS_Subset
<1>3. Cardinality(P) \in Nat /\ Cardinality(Q) \in Nat BY <1>1, FS_CardinalityType
<1> QED BY <1>2, <1>3, EngineAssumption

\* What the open ones of P were enough for, those of Q are now.
LEMMA TogetherMoves ==
    ASSUME Types, Rowwise, [Next]_vars, NEW P \in SUBSET Notifications, NEW Q \in SUBSET Notifications,
           Together(P), P \subseteq Q, \A m \in P : status'[m] = status[m], NEW n \in P, Stuck(n)'
    PROVE  Cardinality({m \in Q : status'[m] \in Pending}) >= CappedMinItems
<1>1. n \in Notifications OBVIOUS
<1>2. DigestsOf(n)' = {} /\ DigestsOf(n) \subseteq DigestsOf(n)' BY <1>1, DigestsKept DEF Stuck
<1>3. Stuck(n) BY <1>2 DEF Stuck
<1>4. Cardinality(Open(P)) >= CappedMinItems BY <1>3 DEF Together
<1>5. Open(P) \subseteq {m \in Q : status'[m] \in Pending} BY DEF Open
<1>6. Open(P) \in SUBSET Notifications /\ {m \in Q : status'[m] \in Pending} \in SUBSET Notifications BY DEF Open
<1> QED BY <1>4, <1>5, <1>6, OpenCount

\* How the capped bucket changes.
LEMMA CappedMoves ==
    ASSUME Types, [Next]_vars
    PROVE  \/ buckets'["capped"] = buckets["capped"]
           \/ buckets'["capped"] = {}
           \/ \E m \in Notifications : /\ Bucket(m) /\ decision[m] = "capped"
                                       /\ buckets'["capped"] = buckets["capped"] \cup {m}
           \/ \E r \in Replicas : /\ Restore(r) /\ source[r] = "capped"
                                  /\ buckets'["capped"] = buckets["capped"] \cup ids[r]
<1> USE DEF Types
<1>0. "capped" \in Sources /\ buckets \in [Sources -> SUBSET Notifications] BY DEF Sources, SetTypes
<1>1. ASSUME NEW n \in Notifications, NStep(n)
      PROVE  \/ buckets'["capped"] = buckets["capped"]
             \/ Bucket(n) /\ decision[n] = "capped" /\ buckets'["capped"] = buckets["capped"] \cup {n}
  <2>1. CASE Bucket(n) BY <1>0, <2>1 DEF Bucket, add
  <2> QED BY <1>1, <2>1, NFrame
<1>2. ASSUME NEW r \in Replicas, RStep(r) PROVE buckets'["capped"] = buckets["capped"]
  <2>1. CASE DeferBucket(r) BY <1>0, <2>1 DEF DeferBucket, add
  <2> QED BY <1>2, <2>1, RFrame
<1>3. ASSUME NEW r \in Replicas, FStep(r)
      PROVE  \/ buckets'["capped"] = buckets["capped"]
             \/ buckets'["capped"] = {}
             \/ Restore(r) /\ source[r] = "capped" /\ buckets'["capped"] = buckets["capped"] \cup ids[r]
  <2>1. CASE Take(r) BY <1>0, <2>1 DEF Take
  <2>2. CASE Restore(r) BY <1>0, <2>2 DEF Restore
  <2> QED BY <1>3, <2>1, <2>2, FFrame
<1>4. ASSUME NEW r \in Replicas, Crash(r) PROVE buckets'["capped"] = buckets["capped"] BY <1>4, CrashFrame
<1>5. CASE Dawn \/ UNCHANGED vars BY <1>5, DawnFrame, Frozen
<1> QED BY <1>1, <1>2, <1>3, <1>4, <1>5, Steps

LEMMA BucketTogether ==
    ASSUME Types, Rowwise, Placed, Grouped, [Next]_vars
    PROVE  Together(buckets["capped"])'
<1> DEFINE B2 == buckets'["capped"]
<1>0. "capped" \in Sources BY DEF Sources
<1>1. Types' BY TypesNext
<1>2. B2 \in SUBSET Notifications /\ buckets["capped"] \in SUBSET Notifications BY <1>0, <1>1 DEF Types, SetTypes
<1>3. SUFFICES ASSUME NEW n \in B2, Stuck(n)'
               PROVE  Cardinality({m \in B2 : status'[m] \in Pending}) >= CappedMinItems
  BY DEF Together, Open
<1> HIDE DEF B2
<1>4. CASE n \in buckets["capped"]
  <2>1. buckets["capped"] \subseteq B2 BY <1>3, CappedMoves DEF B2
  <2>2. \A m \in buckets["capped"] : status'[m] = status[m] BY <1>0, BucketStill
  <2> QED BY <1>2, <1>3, <1>4, <2>1, <2>2, TogetherMoves DEF Grouped
<1>5. CASE n \notin buckets["capped"]
  <2>1. ASSUME Bucket(n), decision[n] = "capped" PROVE FALSE
    <3>1. n \in Notifications BY <1>2
    <3>2. status'[n] = status[n] /\ pc[n] = "bucket" BY <2>1 DEF Bucket, rows
    <3>3. status[n] = "CAPPED" BY <2>1, <3>1, <3>2 DEF Grouped, CappedFits
    <3> QED BY <1>3, <3>2, <3>3 DEF Stuck
  <2>2. ASSUME NEW r \in Replicas, Restore(r), source[r] = "capped", n \in ids[r], ids[r] \subseteq B2
        PROVE  Cardinality({m \in B2 : status'[m] \in Pending}) >= CappedMinItems
    <3>1. Together(ids[r]) BY <2>2 DEF Grouped
    <3>2. \A m \in ids[r] : status'[m] = status[m] BY <2>2 DEF Restore, rows
    <3>3. ids[r] \in SUBSET Notifications BY DEF Types, FlushTypes
    <3> QED BY <1>2, <1>3, <2>2, <3>1, <3>2, <3>3, TogetherMoves
  <2> QED BY <1>3, <1>5, <2>1, <2>2, CappedMoves DEF B2
<1> QED BY <1>4, <1>5

\* What a flusher that marks has left is in a digest that went out.
LEMMA MarkedGone ==
    ASSUME Types, Rowwise, Marked, Grouped, [Next]_vars, NEW r \in Replicas, Mark(r), NEW n \in ids[r], Stuck(n)'
    PROVE  status'[n] # status[n]
<1>1. pc[Flusher(r)] = "mark" BY DEF Mark
<1>2. n \in items[r] \/ status[n] = "DIGESTED" BY <1>1 DEF Grouped, TakenFits, Sending
<1>3. SUFFICES ASSUME n \in items[r] PROVE FALSE BY <1>2 DEF Stuck
<1>4. SendFits(r) /\ digest[r] \in Digests BY <1>1 DEF Marked, Types, FlushTypes, Sending
<1>5. n \in digestOf[digest[r]] /\ Went(digest[r]) BY <1>1, <1>3, <1>4 DEF SendFits, Sending
<1>6. 1 \in Channels BY EngineAssumption DEF Channels
<1>7. digest[r] \in DigestsOf(n) BY <1>4, <1>5, <1>6 DEF Went, DigestsOf
<1>8. n \in Notifications BY DEF Types, FlushTypes
<1>9. DigestsOf(n) \subseteq DigestsOf(n)' BY <1>8, DigestsKept
<1> QED BY <1>7, <1>9 DEF Stuck

LEMMA TakenTogether ==
    ASSUME Types, Rowwise, Placed, Marked, Grouped, [Next]_vars, NEW r \in Replicas, source'[r] = "capped"
    PROVE  Together(ids[r])'
<1> DEFINE I2 == ids'[r]
<1>1. Types' BY TypesNext
<1>2. I2 \in SUBSET Notifications /\ ids[r] \in SUBSET Notifications BY <1>1 DEF Types, FlushTypes
<1>3. SUFFICES ASSUME NEW n \in I2, Stuck(n)'
               PROVE  Cardinality({m \in I2 : status'[m] \in Pending}) >= CappedMinItems
  BY DEF Together, Open
<1> HIDE DEF I2
<1>a. ids \in [Replicas -> SUBSET Notifications] /\ source \in [Replicas -> Sources \cup {None}] BY DEF Types, FlushTypes
<1>4. CASE I2 = ids[r] /\ source'[r] = source[r]
  <2>1. CASE \A m \in ids[r] : status'[m] = status[m]
    <3>1. Together(ids[r]) BY <1>4 DEF Grouped
    <3> QED BY <1>2, <1>3, <1>4, <2>1, <3>1, TogetherMoves
  <2>2. CASE Uncap(r)
    <3>1. pc[Flusher(r)] = "uncap" BY <2>2 DEF Uncap
    <3>2. Cardinality(items[r]) >= CappedMinItems BY <1>4, <3>1 DEF Grouped, TakenFits
    <3>3. items[r] \subseteq ids[r] BY <3>1 DEF Placed, IdsFit
    <3>4. \A m \in items[r] : status[m] \in Pending BY <3>1 DEF Grouped, TakenFits
    <3>5. \A m \in items[r] : status'[m] \in Pending BY <2>2, <3>3, <3>4, TakenStill DEF Uncap, Mark, Pending
    <3>6. items[r] \subseteq {m \in I2 : status'[m] \in Pending} BY <1>4, <3>3, <3>5
    <3>7. items[r] \in SUBSET Notifications /\ {m \in I2 : status'[m] \in Pending} \in SUBSET Notifications
      BY <1>2, <3>3
    <3> QED BY <3>2, <3>6, <3>7, OpenCount
  <2>3. CASE Mark(r)
    <3>1. status'[n] # status[n] BY <1>3, <1>4, <2>3, MarkedGone
    <3>2. status'[n] = "DIGESTED" BY <1>3, <1>4, <2>3, <3>1, TakenStill DEF Uncap, Mark
    <3> QED BY <1>3, <3>2 DEF Stuck
  <2> QED BY <2>1, <2>2, <2>3, TakenStill
<1>5. CASE FStep(r)
  <2>1. CASE Take(r)
    <3>1. PICK s \in claimed[r] : source' = [source EXCEPT ![r] = s] /\ ids' = [ids EXCEPT ![r] = buckets[s]] /\ status' = status
      BY <2>1 DEF Take, rows
    <3>2. s = "capped" /\ I2 = buckets["capped"] BY <1>a, <3>1 DEF I2
    <3>3. Together(buckets["capped"]) BY DEF Grouped
    <3> QED BY <1>2, <1>3, <3>1, <3>2, <3>3, TogetherMoves
  <2>2. CASE FlushEnds(r)
    <3>1. ids' = ids /\ ids[r] = {} BY <2>2 DEF FlushEnds, Placed, IdsFit
    <3> QED BY <1>3, <3>1 DEF I2
  <2>3. CASE ~Take(r) /\ ~FlushEnds(r)
    <3>1. I2 = ids[r] \/ I2 = {}
      <4>1. CASE Find(r) BY <1>a, <4>1 DEF Find, I2
      <4>2. CASE Mark(r) BY <1>a, <4>2 DEF Mark, I2
      <4>3. CASE Restore(r) BY <1>a, <4>3 DEF Restore, I2
      <4>4. CASE FlushThrows(r) BY <1>a, <4>4 DEF FlushThrows, I2
      <4> QED BY <1>5, <2>3, <4>1, <4>2, <4>3, <4>4, FFrame DEF I2
    <3>2. source' = source BY <1>5, <2>3, FFrame
    <3> QED BY <1>3, <1>4, <3>1, <3>2
  <2> QED BY <2>1, <2>2, <2>3
<1>6. CASE Crash(r)
  <2>1. I2 = {} BY <1>a, <1>6, CrashFrame DEF I2
  <2> QED BY <1>3, <2>1
<1>7. CASE ~FStep(r) /\ ~Crash(r)
  <2>1. I2 = ids[r] /\ source'[r] = source[r] BY <1>7, FlushOwn DEF I2, Types
  <2> QED BY <1>4, <2>1
<1> QED BY <1>5, <1>6, <1>7

\* A capped notification that a failed flush has uncapped never falls back among
\* too few to make a digest.
THEOREM GroupedAlways == Spec => []Grouped
<1>1. Init => Grouped
  <2> SUFFICES ASSUME Init PROVE Grouped
    OBVIOUS
  <2>1. \A r \in Replicas : pc[Flusher(r)] = "idle" /\ ids[r] = {} BY ActorFacts DEF Init
  <2>2. \A n \in Notifications : pc[n] = "route" BY NotificationFacts DEF Init
  <2>3. buckets["capped"] = {} BY DEF Init, Sources
  <2>4. \A r \in Replicas : TakenFits(r) BY <2>1 DEF TakenFits, Sending
  <2>5. \A n \in Notifications : CappedFits(n) BY <2>2 DEF CappedFits
  <2>6. Together({}) BY DEF Together
  <2> QED BY <2>1, <2>3, <2>4, <2>5, <2>6 DEF Grouped
<1>2. (Types /\ Rowwise) /\ Placed /\ Marked /\ Grouped /\ [Next]_vars => Grouped'
  <2> SUFFICES ASSUME Types, Rowwise, Placed, Marked, Grouped, [Next]_vars PROVE Grouped'
    OBVIOUS
  <2>1. \A r \in Replicas : TakenFits(r)' BY TakenFitsNext DEF Grouped
  <2>2. \A n \in Notifications : CappedFits(n)' BY CappedFitsNext DEF Grouped
  <2>3. \A r \in Replicas : source'[r] = "capped" => Together(ids[r])' BY TakenTogether
  <2>4. Together(buckets["capped"])' BY BucketTogether
  <2> QED BY <2>1, <2>2, <2>3, <2>4 DEF Grouped
<1> QED BY <1>1, <1>2, RowwiseAlways, PlacedAlways, MarkedAlways, PTL DEF Spec

-----------------------------------------------------------------------------
(***************************************************************************)
(* What waits for a digest.                                                *)
(***************************************************************************)

Kept(n) ==
    \/ \E s \in Sources : n \in buckets[s]
    \/ DigestsOf(n) # {}
    \/ pc[n] # "done"
    \/ \E r \in Replicas : Holds(r, n)
    \/ \E r \in Replicas : n \in ids[r]

KeptForDigest(n) ==
    /\ status[n] = "DIGEST_PENDING"
    /\ n \notin parked /\ used \cap {"crash", "flushThrow", "releaseThrow"} = {}
    => Kept(n)

\* A flush that finds too few drops nobody that is stuck.
LEMMA NoneDropped ==
    ASSUME Types, Grouped, NEW r \in Replicas, Find(r), pc'[Flusher(r)] = "next", NEW n \in ids[r],
           status[n] = "DIGEST_PENDING"
    PROVE  DigestsOf(n) # {}
<1> DEFINE held == {m \in ids[r] : status[m] \in {"DIGEST_PENDING", "CAPPED"}}
<1> USE DEF Types
<1>0. Flusher(r) \in Actors /\ pc \in [Actors -> AnyPc] BY ActorFacts DEF PcTypes
<1>1. Cardinality(held) < DIGEST_MIN_ITEMS(source[r]) BY <1>0 DEF Find, Go
<1>2. held = Open(ids[r]) BY DEF Open, Pending
<1>3. held \subseteq Notifications /\ n \in held BY DEF FlushTypes
<1>4. IsFiniteSet(held) BY <1>3, EngineAssumption, FS_Subset
<1>5. Cardinality(held) \in Nat BY <1>4, FS_CardinalityType
<1>6. CASE source[r] = "capped"
  <2>1. Together(ids[r]) BY <1>6 DEF Grouped
  <2>2. ~(Cardinality(held) >= CappedMinItems) BY <1>1, <1>5, <1>6, EngineAssumption DEF DIGEST_MIN_ITEMS
  <2>3. ~Stuck(n) BY <1>2, <2>1, <2>2 DEF Together
  <2> QED BY <2>3 DEF Stuck
<1>7. CASE source[r] # "capped"
  <2>1. Cardinality(held) = 0 BY <1>1, <1>5, <1>7 DEF DIGEST_MIN_ITEMS
  <2>2. held = {} BY <1>4, <2>1, FS_EmptySet
  <2> QED BY <1>3, <2>2
<1> QED BY <1>6, <1>7

\* What a step of a flusher leaves of what waits.
LEMMA FlushKeeps ==
    ASSUME Types, Rowwise, Placed, Grouped, [Next]_vars, NEW r \in Replicas, FStep(r), NEW n \in Notifications, KeptForDigest(n)
    PROVE  KeptForDigest(n)'
<1> USE DEF Types
<1>1. SUFFICES ASSUME status'[n] = "DIGEST_PENDING", n \notin parked',
                      used' \cap {"crash", "flushThrow", "releaseThrow"} = {}
               PROVE  Kept(n)'
  BY DEF KeptForDigest
<1>2. n \notin parked /\ used \cap {"crash", "flushThrow", "releaseThrow"} = {} BY <1>1, UsedGrows, ParkedGrows
<1>3. ids \in [Replicas -> SUBSET Notifications] /\ buckets \in [Sources -> SUBSET Notifications]
  BY DEF FlushTypes, SetTypes
<1>a. IdsFit(r) BY DEF Placed
<1>b. ASSUME ids' = ids, n \in items[r], Uncap(r) PROVE Kept(n)'
  <2>1. n \in ids[r] BY <1>a, <1>b DEF IdsFit, Uncap
  <2> QED BY <1>b, <2>1 DEF Kept
<1>4. CASE status'[n] = status[n]
  <2>1. Kept(n) BY <1>1, <1>2, <1>4 DEF KeptForDigest
  <2>2. CASE DigestsOf(n) # {}
    <3>1. DigestsOf(n)' # {} BY <2>2, DigestsKept
    <3> QED BY <3>1 DEF Kept
  <2>3. CASE pc[n] # "done" \/ \E q \in Replicas : Holds(q, n)
    <3>1. pc'[n] = pc[n] /\ cur' = cur /\ \A q \in Replicas : pc'[Releaser(q)] = pc[Releaser(q)] BY FOthers, FFrame
    <3> QED BY <2>3, <3>1 DEF Kept, Holds
  <2>4. ASSUME NEW s \in Sources, n \in buckets[s] PROVE Kept(n)'
    <3>1. CASE Take(r)
      <4>1. PICK t \in claimed[r] : ids' = [ids EXCEPT ![r] = buckets[t]] /\ buckets' = [buckets EXCEPT ![t] = {}]
        BY <3>1 DEF Take
      <4>2. t = s => n \in ids'[r] BY <1>3, <2>4, <4>1
      <4>3. t # s => n \in buckets'[s] BY <1>3, <2>4, <4>1
      <4> QED BY <2>4, <4>2, <4>3 DEF Kept
    <3>2. CASE Restore(r)
      <4>1. n \in buckets'[s] BY <1>3, <2>4, <3>2 DEF Restore
      <4> QED BY <2>4, <4>1 DEF Kept
    <3>3. CASE buckets' = buckets BY <2>4, <3>3 DEF Kept
    <3> QED BY <3>1, <3>2, <3>3, FFrame
  <2>5. ASSUME NEW q \in Replicas, n \in ids[q] PROVE Kept(n)'
    <3>1. CASE ids'[q] = ids[q] BY <2>5, <3>1 DEF Kept
    <3>2. CASE q # r
      <4>1. CASE UNCHANGED ids BY <3>1, <4>1
      <4>2. CASE Take(r) BY <1>3, <3>1, <3>2, <4>2 DEF Take
      <4>3. CASE Find(r) BY <1>3, <3>1, <3>2, <4>3 DEF Find
      <4>4. CASE Mark(r) BY <1>3, <3>1, <3>2, <4>4 DEF Mark
      <4>5. CASE Restore(r) BY <1>3, <3>1, <3>2, <4>5 DEF Restore
      <4>6. CASE FlushThrows(r) BY <1>3, <3>1, <3>2, <4>6 DEF FlushThrows
      <4> QED BY <4>1, <4>2, <4>3, <4>4, <4>5, <4>6, FFrame
    <3>3. CASE q = r
      <4>1. CASE Take(r) BY <1>a, <2>5, <3>3, <4>1 DEF Take, IdsFit
      <4>2. CASE Find(r)
        <5>1. CASE pc'[Flusher(r)] = "next"
          <6>1. DigestsOf(n) # {} BY <1>1, <1>4, <2>5, <3>3, <4>2, <5>1, NoneDropped
          <6> QED BY <2>2, <6>1
        <5>2. CASE pc'[Flusher(r)] # "next"
          <6>1. ids' = ids BY <4>2, <5>2, ActorFacts DEF Find, Go, PcTypes
          <6> QED BY <3>1, <6>1
        <5> QED BY <5>1, <5>2
      <4>3. CASE Mark(r)
        <5>1. CASE items[r] = {}
          <6>1. TakenFits(r) /\ pc[Flusher(r)] = "mark" BY <4>3 DEF Grouped, Mark
          <6>2. status[n] = "DIGESTED" BY <2>5, <3>3, <5>1, <6>1 DEF TakenFits, Sending
          <6> QED BY <1>1, <1>4, <6>2
        <5>2. CASE items[r] # {} BY <3>1, <4>3, <5>2 DEF Mark
        <5> QED BY <5>1, <5>2
      <4>4. CASE Restore(r)
        <5>1. source[r] \in Sources /\ buckets' = [buckets EXCEPT ![source[r]] = @ \cup ids[r]]
          BY <4>4 DEF Restore, FlushTypes, Flushing
        <5>2. n \in buckets'[source[r]] BY <1>3, <2>5, <3>3, <5>1
        <5> QED BY <5>1, <5>2 DEF Kept
      <4>5. CASE FlushThrows(r) BY <1>1, <4>5 DEF FlushThrows, Spend
      <4>6. CASE UNCHANGED ids BY <3>1, <4>6
      <4> QED BY <4>1, <4>2, <4>3, <4>4, <4>5, <4>6, FFrame
    <3> QED BY <3>2, <3>3
  <2> QED BY <2>1, <2>2, <2>3, <2>4, <2>5 DEF Kept
<1>5. CASE status'[n] # status[n]
  <2>1. Uncap(r) /\ n \in items[r] BY <1>1, <1>5, FOthers
  <2>2. ids' = ids BY <2>1 DEF Uncap, flush
  <2> QED BY <1>b, <2>1, <2>2
<1> QED BY <1>4, <1>5

LEMMA KeptForDigestNext ==
    ASSUME Types, Rowwise, Placed, Grouped, [Next]_vars, NEW n \in Notifications, Intact(n), KeptForDigest(n)
    PROVE  KeptForDigest(n)'
<1> USE DEF Types
<1>1. SUFFICES ASSUME status'[n] = "DIGEST_PENDING", n \notin parked',
                      used' \cap {"crash", "flushThrow", "releaseThrow"} = {}
               PROVE  Kept(n)'
  BY DEF KeptForDigest
<1>2. n \notin parked /\ used \cap {"crash", "flushThrow", "releaseThrow"} = {} BY <1>1, UsedGrows, ParkedGrows
<1>3. CASE \E r \in Replicas : FStep(r) BY <1>1, <1>3, FlushKeeps DEF KeptForDigest
<1>4. ASSUME NEW r \in Replicas, Crash(r) PROVE FALSE BY <1>1, <1>4, CrashFrame DEF Spend
<1>5. CASE ids' = ids /\ \A s \in Sources : buckets[s] \subseteq buckets'[s]
  <2>1. CASE Unheld(n)
    <3>1. Kept(n) BY <1>1, <1>2, <2>1 DEF Unheld, KeptForDigest
    <3>2. DigestsOf(n) \subseteq DigestsOf(n)' BY DigestsKept
    <3> QED BY <1>5, <2>1, <3>1, <3>2 DEF Unheld, Kept
  <2>2. CASE NStep(n)
    <3>1. CASE pc'[n] # "done" BY <3>1 DEF Kept
    <3>2. CASE pc'[n] = "done" BY <1>1, <2>2, <3>2, RunEnds DEF Kept, Out
    <3> QED BY <3>1, <3>2
  <2>3. ASSUME NEW r \in Replicas, RStep(r), Holds(r, n) PROVE Kept(n)'
    <3>0. NeverRetried(n) /\ \A q \in Replicas : Holds(q, n) /\ pc[Releaser(q)] \in Deferring => decision[n] = "quiet"
      BY <1>2 DEF Intact
    <3>1. cur' = cur BY <2>3, RFrame DEF Claim, Holds, Releasing
    <3>2. CASE pc'[Releaser(r)] \in Releasing BY <2>3, <3>1, <3>2 DEF Kept, Holds
    <3>3. CASE pc'[Releaser(r)] \notin Releasing
      <4>1. CASE DeferBucket(r)
        <5>1. "quiet" \in Sources /\ n \in buckets'["quiet"] BY <2>3, <4>1 DEF DeferBucket, add, Holds, SetTypes, Sources
        <5> QED BY <5>1 DEF Kept
      <4>2. CASE pc[Releaser(r)] = "defer" /\ status' = status
        <5>1. status[n] = "QUIET" BY <2>3, <3>0, <4>2 DEF NeverRetried, AsHeld, Deferring
        <5> QED BY <1>1, <4>2, <5>1
      <4>3. CASE pc[Releaser(r)] = "resume" /\ status' = status
        <5>1. status[n] \in {"QUIET", "ROUTED"} BY <2>3, <3>0, <4>3 DEF NeverRetried, AsHeld
        <5> QED BY <1>1, <4>3, <5>1
      <4>4. CASE pc[Releaser(r)] = "failed" BY <2>3, <3>0, <4>4 DEF NeverRetried
      <4>5. CASE status'[n] \in Out BY <1>1, <4>5 DEF Out
      <4> QED BY <2>3, <3>3, <4>1, <4>2, <4>3, <4>4, <4>5, HandSteps DEF Releasing
    <3> QED BY <3>2, <3>3
  <2>4. ASSUME NEW r \in Replicas, Holds(r, n)' PROVE Kept(n)' BY <2>4 DEF Kept
  <2> QED BY <1>3, <1>4, <2>1, <2>2, <2>3, <2>4, Alone
<1> QED BY <1>3, <1>4, <1>5, BucketsGrow

Keeping ==
    /\ \A n \in Notifications : KeptForMorning(n) /\ KeptForDigest(n)
    /\ BucketsDue

THEOREM KeepingAlways == Spec => []Keeping
<1>1. Init => Keeping
  <2> SUFFICES ASSUME Init PROVE Keeping
    OBVIOUS
  <2>1. \A n \in Notifications : pc[n] = "route" BY NotificationFacts DEF Init
  <2>2. (\A s \in Sources : buckets[s] = {}) /\ \A r \in Replicas : claimed[r] = {} BY DEF Init
  <2> QED BY <2>1, <2>2 DEF Keeping, KeptForMorning, KeptForDigest, Kept, BucketsDue
<1>2. (Types /\ Rowwise) /\ Placed /\ Grouped /\ (\A n \in Notifications : Intact(n)) /\ Keeping /\ [Next]_vars => Keeping'
  BY KeptForMorningNext, KeptForDigestNext, BucketsDueNext DEF Keeping
<1> QED BY <1>1, <1>2, RowwiseAlways, PlacedAlways, GroupedAlways, IntactAlways, PTL DEF Spec

\* Nothing that is held gets lost between PostgreSQL and Redis: whatever a
\* release, a deferral, a flush or their retries do, a notification waits where
\* a poller will find it, or somebody is working on it.
THEOREM HeldAlwaysKept == Spec => []HeldIsKept
<1>1. Types /\ Keeping => HeldIsKept
  <2> SUFFICES ASSUME Types, Keeping PROVE HeldIsKept
    OBVIOUS
  <2>1. ASSUME NEW n \in Notifications, NEW r \in Replicas, Holds(r, n) PROVE InRelease(n)
    BY <2>1 DEF Holds, InRelease, Releasing
  <2>2. HeldForMorning BY <2>1 DEF HeldForMorning, Keeping, KeptForMorning, Running
  <2>3. ASSUME NEW n \in Notifications, status[n] = "DIGEST_PENDING", n \notin parked,
               used \cap {"crash", "flushThrow", "releaseThrow"} = {}
        PROVE  \/ \E s \in digestDue : n \in buckets[s]
               \/ DigestsOf(n) # {}
               \/ \E r \in Replicas : \E s \in claimed[r] : n \in buckets[s]
               \/ Running(n) \/ InRelease(n) \/ InFlush(n)
    <3>1. Kept(n) BY <2>3 DEF Keeping, KeptForDigest
    <3>2. ASSUME NEW s \in Sources, n \in buckets[s] PROVE s \in digestDue \/ \E r \in Replicas : s \in claimed[r]
      BY <2>3, <3>2 DEF Keeping, BucketsDue
    <3> QED BY <2>1, <3>1, <3>2 DEF Kept, Running, InFlush
  <2>4. HeldForDigest BY <2>3 DEF HeldForDigest
  <2> QED BY <2>2, <2>4 DEF HeldIsKept
<1> QED BY <1>1, RowwiseAlways, KeepingAlways, PTL

-----------------------------------------------------------------------------
(***************************************************************************)
(* What built up overnight.                                                *)
(***************************************************************************)

Solo == \A q, r \in polled : q = r
Calm == used \cap {"releaseThrow", "crash"} = {} /\ Solo

\* What a poller has read or has in hand of the night is due.
BatchFits(r, n) ==
    /\ n \in batch[r] => pc[n] = "done" /\ decision[n] \in {"quiet", "sto"}
    /\ decision[n] = "quiet" /\ (n \in batch[r] \/ Holds(r, n)) => ~night /\ r \in polled

\* Of the pile, a member is still in the batch of a poller that has seen, or
\* is about to see, the whole pile in the quiet queue; or is being deferred.
Waiting(r, n) ==
    /\ n \in scheduled /\ n \in batch[r]
    /\ \/ pc[Releaser(r)] = "depth" /\ pile \subseteq scheduled
       \/ pc[Releaser(r)] \notin {"idle", "depth"} /\ depth[r] > DigestThreshold
Piled(r, n) ==
    \/ status[n] \in DigestSide
    \/ Waiting(r, n)
    \/ Holds(r, n) /\ pc[Releaser(r)] \in {"defer", "deferStatus"}

PileFits(n) ==
    /\ pc[n] = "done" /\ decision[n] = "quiet"
    /\ Calm => (polled = {} => n \in scheduled) /\ \A r \in polled : Piled(r, n)

Overnight ==
    /\ IsFiniteSet(polled)
    /\ night => polled = {} /\ pile = {}
    /\ pile # {} => Cardinality(pile) > DigestThreshold
    /\ \A r \in Replicas, n \in Notifications : BatchFits(r, n)
    /\ \A n \in pile : PileFits(n)

LEMMA DoneKept ==
    ASSUME Types, [Next]_vars, NEW n \in Notifications, pc[n] = "done"
    PROVE  pc'[n] = "done" /\ decision'[n] = decision[n]
<1> USE DEF Types
<1>1. ~NStep(n) BY NOthers
<1>2. pc'[n] = "done" BY <1>1, ProcessPcs
<1>3. ASSUME NEW m \in Notifications, Route(m) PROVE decision'[n] = decision[n]
  <2>1. NStep(m) BY <1>3 DEF NStep, process
  <2> QED BY <1>1, <2>1, NOthers
<1> QED BY <1>2, <1>3, DecisionKept

\* Only a poll adds to who has polled, and only dawn ends the night.
LEMMA NightMoves ==
    ASSUME [Next]_vars
    PROVE  \/ Dawn
           \/ night' = night /\ pile' = pile /\ (polled' = polled \/ \E r \in Replicas : Poll(r) /\ RStep(r))
<1>1. ASSUME NEW n \in Notifications, NStep(n) PROVE night' = night /\ pile' = pile /\ polled' = polled BY <1>1, NFrame
<1>2. ASSUME NEW r \in Replicas, RStep(r) PROVE night' = night /\ pile' = pile /\ (polled' = polled \/ Poll(r))
  BY <1>2, RFrame
<1>3. ASSUME NEW r \in Replicas, FStep(r) PROVE night' = night /\ pile' = pile /\ polled' = polled BY <1>3, FFrame
<1>4. ASSUME NEW r \in Replicas, Crash(r) PROVE night' = night /\ pile' = pile /\ polled' = polled BY <1>4, CrashFrame
<1>5. UNCHANGED vars => night' = night /\ pile' = pile /\ polled' = polled BY Frozen
<1> QED BY <1>1, <1>2, <1>3, <1>4, <1>5, Steps

\* Where the members of a batch come from.
LEMMA BatchBefore ==
    ASSUME Types, [Next]_vars, NEW r \in Replicas, NEW n \in batch'[r]
    PROVE  n \in batch[r] \/ (Poll(r) /\ n \in Due)
<1> USE DEF Types
<1>1. CASE RStep(r)
  <2>1. CASE Poll(r) BY <2>1 DEF Poll, PollTypes
  <2>2. CASE Claim(r)
    <3>1. batch' = batch \/ \E m \in batch[r] : batch' = [batch EXCEPT ![r] = @ \ {m}] BY <2>2, Claims
    <3> QED BY <3>1 DEF PollTypes
  <2> QED BY <1>1, <2>1, <2>2, RFrame
<1>2. CASE Crash(r) BY <1>2, CrashFrame DEF PollTypes
<1> QED BY <1>1, <1>2, PollOwn

LEMMA BatchFitsNext ==
    ASSUME Types, Rowwise, [Next]_vars, NEW r \in Replicas, NEW n \in Notifications, BatchFits(r, n)
    PROVE  BatchFits(r, n)'
<1> USE DEF Types
<1>a. HoldFits(n) BY DEF Rowwise
<1>0. polled \subseteq polled' /\ (night' => night)
  <2>1. Dawn => ~night' /\ polled' = polled BY DEF Dawn
  <2>2. \A q \in Replicas : Poll(q) => polled \subseteq polled' BY DEF Poll
  <2> QED BY <2>1, <2>2, NightMoves
<1>1. CASE n \in batch[r]
  <2>1. pc[n] = "done" /\ decision[n] \in {"quiet", "sto"} /\ (decision[n] = "quiet" => ~night /\ r \in polled)
    BY <1>1 DEF BatchFits
  <2> QED BY <1>0, <2>1, DoneKept DEF BatchFits
<1>2. CASE Holds(r, n)
  <2>1. Held(n) /\ (decision[n] = "quiet" => ~night /\ r \in polled) BY <1>2, <1>a DEF BatchFits, HoldFits
  <2> QED BY <1>0, <2>1, DoneKept DEF BatchFits, Held
<1>3. CASE n \notin batch[r] /\ ~Holds(r, n)
  <2>1. CASE n \in batch'[r]
    <3>1. Poll(r) /\ n \in scheduled /\ (decision[n] = "quiet" => ~night) BY <1>3, <2>1, BatchBefore DEF Due
    <3>2. Held(n) BY <1>a, <3>1 DEF HoldFits
    <3>3. ~night => r \in polled' BY <3>1 DEF Poll
    <3> QED BY <1>0, <3>1, <3>2, <3>3, DoneKept DEF BatchFits, Held
  <2>2. CASE n \notin batch'[r]
    <3>1. ~Holds(r, n)'
      <4>1. CASE RStep(r) BY <1>3, <4>1, HandBefore
      <4>2. CASE Crash(r) BY <4>2, CrashMoves DEF Holds, Releasing
      <4>3. CASE ~RStep(r) /\ ~Crash(r) BY <1>3, <4>3, PollOwn, ReleaserPcs DEF Holds
      <4> QED BY <4>1, <4>2, <4>3
    <3> QED BY <2>2, <3>1 DEF BatchFits
  <2> QED BY <2>1, <2>2
<1> QED BY <1>1, <1>2, <1>3

\* Only the poller that read a member in its batch takes it out of the release set.
LEMMA ScheduledStays ==
    ASSUME Types, Rowwise, [Next]_vars, NEW n \in Notifications, n \in scheduled
    PROVE  n \in scheduled' \/ \E r \in Replicas : RStep(r) /\ Claim(r) /\ n \in batch[r]
<1> USE DEF Types
<1>1. ASSUME NEW m \in Notifications, NStep(m) PROVE n \in scheduled'
  <2>1. CASE scheduleRelease(m) BY <2>1 DEF scheduleRelease
  <2> QED BY <1>1, <2>1, NFrame
<1>2. ASSUME NEW r \in Replicas, RStep(r) PROVE n \in scheduled' \/ (Claim(r) /\ n \in batch[r])
  <2>1. CASE Claim(r)
    <3>1. scheduled' = scheduled \/ \E m \in batch[r] : scheduled' = scheduled \ {m} BY <2>1, Claims
    <3> QED BY <2>1, <3>1
  <2>2. CASE Reschedule(r) BY <2>2 DEF Reschedule
  <2> QED BY <1>2, <2>1, <2>2, RFrame
<1>3. ASSUME NEW r \in Replicas, FStep(r) PROVE n \in scheduled' BY <1>3, FFrame
<1>4. ASSUME NEW r \in Replicas, Crash(r) PROVE n \in scheduled' BY <1>4, CrashFrame
<1>5. CASE Dawn \/ UNCHANGED vars BY <1>5, DawnFrame, Frozen
<1> QED BY <1>1, <1>2, <1>3, <1>4, <1>5, Steps

\* What the others do to what the one poller has of the pile: nothing.
LEMMA OthersPiled ==
    ASSUME Types, Rowwise, Overnight, [Next]_vars, NEW r \in polled, Solo, pile' = pile,
           ~RStep(r), ~Crash(r), NEW n \in pile, Piled(r, n)
    PROVE  Piled(r, n)'
<1> USE DEF Types
<1>0. r \in Replicas /\ n \in Notifications BY DEF HistTypes
<1>1. pc'[Releaser(r)] = pc[Releaser(r)] /\ cur'[r] = cur[r] /\ batch'[r] = batch[r] /\ depth'[r] = depth[r]
  BY <1>0, PollOwn, ReleaserPcs
<1>2. ASSUME NEW m \in pile, m \in scheduled PROVE m \in scheduled'
  <2>1. m \in Notifications /\ decision[m] = "quiet" BY DEF Overnight, PileFits, HistTypes
  <2>2. ASSUME NEW q \in Replicas, RStep(q), m \in batch[q] PROVE FALSE
    <3>1. q \in polled BY <2>1, <2>2 DEF Overnight, BatchFits
    <3> QED BY <2>2, <3>1 DEF Solo
  <2> QED BY <1>2, <2>1, <2>2, ScheduledStays
<1>3. CASE status[n] \in DigestSide BY <1>0, <1>3, SideKept DEF Piled
<1>4. CASE Waiting(r, n)
  <2>1. n \in scheduled' BY <1>2, <1>4 DEF Waiting
  <2>2. pile \subseteq scheduled => pile' \subseteq scheduled' BY <1>2
  <2> QED BY <1>1, <1>4, <2>1, <2>2 DEF Waiting, Piled
<1>5. CASE Holds(r, n) /\ pc[Releaser(r)] \in {"defer", "deferStatus"} BY <1>1, <1>5 DEF Holds, Piled
<1> QED BY <1>3, <1>4, <1>5 DEF Piled

\* The pile is in the quiet queue for whoever reads its depth.
LEMMA PileDeep ==
    ASSUME Types, Overnight, \A n \in Notifications : Intact(n), "releaseThrow" \notin used, pile \subseteq scheduled,
           pile # {}
    PROVE  Cardinality(quietQueue) > DigestThreshold
<1> USE DEF Types
<1>1. pile \subseteq quietQueue
  <2> SUFFICES ASSUME NEW n \in pile PROVE n \in quietQueue
    OBVIOUS
  <2>1. n \in Notifications /\ n \in scheduled /\ decision[n] = "quiet" BY DEF HistTypes, Overnight, PileFits
  <2> QED BY <2>1 DEF Intact, NeverRetried, AsHeld
<1>2. IsFiniteSet(quietQueue) BY EngineAssumption, FS_Subset DEF SetTypes
<1>3. IsFiniteSet(pile) /\ Cardinality(pile) <= Cardinality(quietQueue) BY <1>1, <1>2, FS_Subset
<1>4. Cardinality(pile) \in Nat /\ Cardinality(quietQueue) \in Nat BY <1>2, <1>3, FS_CardinalityType
<1> QED BY <1>3, <1>4, EngineAssumption DEF Overnight

\* The one poller defers what it reads of the pile.
LEMMA OwnPiled ==
    ASSUME Types, Rowwise, Overnight, \A n \in Notifications : Intact(n), [Next]_vars,
           NEW r \in polled, RStep(r), ~Poll(r), "releaseThrow" \notin used', pile' = pile, NEW n \in pile, Piled(r, n)
    PROVE  Piled(r, n)'
<1> DEFINE a == Releaser(r)
<1> USE DEF Types
<1>0. r \in Replicas /\ n \in Notifications /\ decision[n] = "quiet" /\ pc \in [Actors -> AnyPc] /\ a \in Actors
      /\ "releaseThrow" \notin used
  BY ActorFacts, UsedGrows DEF HistTypes, Overnight, PileFits, PcTypes
<1>d. a = Releaser(r) OBVIOUS
<1> HIDE DEF a
<1>1. CASE status[n] \in DigestSide BY <1>0, <1>1, SideKept DEF Piled
<1>2. CASE Holds(r, n) /\ pc[a] \in {"defer", "deferStatus"}
  <2>1. cur' = cur BY <1>0, <1>2, RFrame DEF Claim, Holds, Releasing
  <2>2. pc[a] = "defer" => status[n] = "QUIET" BY <1>0, <1>2, <1>d DEF Intact, NeverRetried, AsHeld
  <2>3. pc'[a] = "deferStatus" \/ status'[n] \in DigestSide
    <3>1. pc'[a] = "deferStatus" \/ status'[n] = "DIGEST_PENDING" \/ Spend("releaseThrow")
      BY <1>0, <1>2, <1>d, <2>2, HandSteps, PcSets
    <3> QED BY <1>0, <3>1 DEF Spend, DigestSide
  <2> QED BY <1>2, <1>d, <2>1, <2>3 DEF Holds, Piled, Releasing
<1>3. CASE Waiting(r, n) /\ pc[a] = "depth"
  <2>1. Depth(r)
    <3>1. ~Claim(r) /\ ~Defer(r) /\ ~DeferStatus(r) /\ ~DeferBucket(r) /\ ~Resume(r) /\ ~ResumeStatus(r)
          /\ ~Reschedule(r) /\ ~ReleaseThrows(r)
      BY <1>3, <1>d DEF Claim, Defer, DeferStatus, DeferBucket, Resume, ResumeStatus, Reschedule, ReleaseThrows
    <3>2. ~FanOutStep(a) /\ ~QueueFails(a) BY <1>3, FanFrame, PcSets
    <3> QED BY <1>d, <3>1, <3>2 DEF RStep, releaseDue
  <2>2. /\ depth'[r] = Cardinality(quietQueue) /\ pc'[a] = "next" /\ scheduled' = scheduled /\ batch' = batch
    BY <1>0, <1>d, <2>1 DEF Depth, Go, zsets, PollTypes
  <2>3. Cardinality(quietQueue) > DigestThreshold BY <1>0, <1>3, <1>d, PileDeep DEF Waiting
  <2> QED BY <1>3, <1>d, <2>2, <2>3 DEF Waiting, Piled
<1>4. CASE Waiting(r, n) /\ pc[a] # "depth"
  <2>1. n \in scheduled /\ n \in batch[r] /\ pc[a] # "idle" /\ depth[r] > DigestThreshold BY <1>4, <1>d DEF Waiting
  <2>2. CASE Claim(r)
    <3>1. PICK m \in batch[r] :
             /\ batch' = [batch EXCEPT ![r] = @ \ {m}]
             /\ \/ m \notin scheduled /\ scheduled' = scheduled /\ pc'[a] = "next" /\ depth' = depth
                \/ /\ m \in scheduled /\ scheduled' = scheduled \ {m} /\ cur'[r] = m /\ depth' = depth
                   /\ pc'[a] = IF decision[m] = "quiet" /\ depth[r] > DigestThreshold THEN "defer" ELSE "resume"
      BY <1>0, <1>d, <2>1, <2>2, Claims
    <3>2. CASE m = n
      <4>1. pc'[a] = "defer" /\ cur'[r] = n BY <1>0, <2>1, <3>1, <3>2
      <4> QED BY <1>d, <4>1 DEF Holds, Releasing, Piled
    <3>3. CASE m # n
      <4>1. n \in batch'[r] /\ n \in scheduled' /\ depth'[r] = depth[r] /\ pc'[a] \notin {"idle", "depth"}
        BY <1>0, <2>1, <3>1, <3>3 DEF PollTypes
      <4> QED BY <1>d, <2>1, <4>1 DEF Waiting, Piled
    <3> QED BY <3>2, <3>3
  <2>3. CASE ~Claim(r)
    <3>1. ~Depth(r) BY <1>4, <1>d DEF Depth
    <3>2. batch' = batch /\ depth' = depth BY <1>0, <2>3, <3>1, RFrame
    <3>3. n \in scheduled'
      <4>1. CASE Reschedule(r) BY <2>1, <4>1 DEF Reschedule
      <4> QED BY <1>0, <2>1, <2>3, <4>1, RFrame
    <3>4. pc'[a] \notin {"idle", "depth"} BY <1>0, <1>d, <2>3, <3>1, RSteps DEF Moves
    <3> QED BY <1>d, <2>1, <3>2, <3>3, <3>4 DEF Waiting, Piled
  <2> QED BY <2>2, <2>3
<1> QED BY <1>d, <1>1, <1>2, <1>3, <1>4 DEF Piled

\* The first poll of the morning reads the whole pile.
LEMMA PollPiled ==
    ASSUME Types, Rowwise, Overnight, [Next]_vars, NEW r \in Replicas, Poll(r), RStep(r), ~night, Calm, Solo',
           pile' = pile, NEW n \in pile
    PROVE  \A q \in polled' : Piled(q, n)'
<1> USE DEF Types
<1>1. polled' = polled \cup {r} /\ scheduled' = scheduled /\ status' = status BY DEF Poll, zsets, rows
<1>2. polled' = {r} BY <1>1 DEF Solo
<1>3. pc[Releaser(r)] = "idle" /\ pc'[Releaser(r)] = "depth" /\ batch'[r] = Due
  BY ActorFacts DEF Poll, Go, PcTypes, PollTypes
<1>4. CASE polled = {}
  <2>1. \A m \in pile : m \in scheduled BY <1>4 DEF Overnight, PileFits
  <2>2. n \in Due BY <2>1 DEF Due
  <2> QED BY <1>1, <1>2, <1>3, <2>1, <2>2 DEF Waiting, Piled
<1>5. CASE r \in polled
  <2>1. Piled(r, n) BY <1>5 DEF Overnight, PileFits
  <2>2. status[n] \in DigestSide BY <1>3, <2>1 DEF Piled, Waiting, Holds, Releasing
  <2> QED BY <1>1, <1>2, <2>2 DEF Piled
<1> QED BY <1>1, <1>2, <1>4, <1>5

LEMMA PileFitsNext ==
    ASSUME Types, Rowwise, Overnight, \A n \in Notifications : Intact(n), [Next]_vars, NEW n \in pile'
    PROVE  PileFits(n)'
<1> USE DEF Types
<1>1. CASE Dawn
  <2>1. polled' = polled /\ scheduled' = scheduled /\ pc' = pc /\ decision' = decision BY <1>1, DawnFrame
  <2>2. polled = {} BY <1>1 DEF Dawn, Overnight
  <2>3. n \in scheduled /\ decision[n] = "quiet" BY <1>1 DEF Dawn
  <2>4. n \in Notifications BY <2>3 DEF SetTypes
  <2>5. pc[n] = "done" BY <2>3, <2>4 DEF Rowwise, HoldFits, Held
  <2> QED BY <2>1, <2>2, <2>3, <2>5 DEF PileFits
<1>2. CASE ~Dawn
  <2>0. /\ night' = night /\ pile' = pile /\ n \in pile /\ n \in Notifications
        /\ polled' = polled \/ \E r \in Replicas : Poll(r) /\ RStep(r)
    BY <1>2, NightMoves DEF HistTypes
  <2>1. pc[n] = "done" /\ decision[n] = "quiet" /\ ~night BY <2>0 DEF Overnight, PileFits
  <2>2. pc'[n] = "done" /\ decision'[n] = "quiet" BY <2>0, <2>1, DoneKept
  <2>3. SUFFICES ASSUME Calm' PROVE (polled' = {} => n \in scheduled') /\ \A r \in polled' : Piled(r, n)'
    BY <2>2 DEF PileFits
  <2>4. polled \subseteq polled' BY <2>0 DEF Poll
  <2>5. used \cap {"releaseThrow", "crash"} = {} /\ Solo BY <2>3, <2>4, UsedGrows DEF Calm, Solo
  <2>6. (polled = {} => n \in scheduled) /\ \A r \in polled : Piled(r, n) BY <2>0, <2>5 DEF Overnight, PileFits, Calm
  <2>7. CASE polled' = polled
    <3>1. ASSUME polled = {} PROVE n \in scheduled'
      <4>1. ASSUME NEW r \in Replicas, n \in batch[r] PROVE FALSE
        BY <2>0, <2>1, <3>1, <4>1 DEF Overnight, BatchFits
      <4> QED BY <2>0, <2>6, <3>1, <4>1, ScheduledStays
    <3>2. ASSUME NEW r \in polled PROVE Piled(r, n)'
      <4>1. r \in Replicas BY DEF HistTypes
      <4>2. ~Crash(r) BY <2>3, <4>1, CrashFrame DEF Calm, Spend
      <4>3. CASE RStep(r) /\ ~Poll(r) BY <2>0, <2>3, <2>6, <4>3, OwnPiled DEF Calm
      <4>4. CASE ~RStep(r) BY <2>0, <2>5, <2>6, <4>2, <4>4, OthersPiled
      <4>5. CASE RStep(r) /\ Poll(r)
        <5>1. \A q \in polled' : Piled(q, n)' BY <2>0, <2>1, <2>3, <2>5, <4>1, <4>5, PollPiled DEF Calm
        <5> QED BY <2>7, <5>1
      <4> QED BY <4>3, <4>4, <4>5
    <3> QED BY <2>7, <3>1, <3>2
  <2>8. ASSUME NEW r \in Replicas, Poll(r), RStep(r)
        PROVE  (polled' = {} => n \in scheduled') /\ \A q \in polled' : Piled(q, n)'
    <3>1. \A q \in polled' : Piled(q, n)' BY <2>0, <2>1, <2>3, <2>5, <2>8, PollPiled DEF Calm
    <3>2. polled' # {} BY <2>1, <2>8 DEF Poll
    <3> QED BY <3>1, <3>2
  <2> QED BY <2>0, <2>7, <2>8
<1> QED BY <1>1, <1>2

LEMMA OvernightNext ==
    ASSUME Types, Rowwise, Overnight, \A n \in Notifications : Intact(n), [Next]_vars
    PROVE  Overnight'
<1>1. IsFiniteSet(polled')
  <2>1. \A r \in Replicas : Poll(r) => polled' = polled \/ polled' = polled \cup {r} BY DEF Poll
  <2>2. \A r \in Replicas : IsFiniteSet(polled \cup {r}) BY FS_AddElement DEF Overnight
  <2>3. Dawn => polled' = polled BY DawnFrame
  <2> QED BY <2>1, <2>2, <2>3, NightMoves DEF Overnight
<1>2. night' => polled' = {} /\ pile' = {}
  <2>1. ~(Dawn /\ night') BY DEF Dawn
  <2>2. \A r \in Replicas : Poll(r) /\ night => polled' = polled BY DEF Poll
  <2> QED BY <2>1, <2>2, NightMoves DEF Overnight
<1>3. pile' # {} => Cardinality(pile') > DigestThreshold
  <2>1. CASE Dawn BY <2>1 DEF Dawn
  <2>2. CASE ~Dawn
    <3>1. pile' = pile BY <2>2, NightMoves
    <3> QED BY <3>1 DEF Overnight
  <2> QED BY <2>1, <2>2
<1>4. \A r \in Replicas, n \in Notifications : BatchFits(r, n)' BY BatchFitsNext DEF Overnight
<1>5. \A n \in pile' : PileFits(n)' BY PileFitsNext
<1> QED BY <1>1, <1>2, <1>3, <1>4, <1>5 DEF Overnight

THEOREM OvernightAlways == Spec => []Overnight
<1>1. Init => Overnight
  <2> SUFFICES ASSUME Init PROVE Overnight
    OBVIOUS
  <2>1. polled = {} /\ pile = {} BY DEF Init
  <2>2. IsFiniteSet(polled) BY <2>1, FS_EmptySet
  <2>3. ASSUME NEW r \in Replicas, NEW n \in Notifications PROVE BatchFits(r, n)
    <3>1. batch[r] = {} /\ pc[Releaser(r)] = "idle" BY ActorFacts DEF Init
    <3> QED BY <3>1 DEF BatchFits, Holds, Releasing
  <2> QED BY <2>1, <2>2, <2>3 DEF Overnight
<1>2. (Types /\ Rowwise) /\ (\A n \in Notifications : Intact(n)) /\ Overnight /\ [Next]_vars => Overnight'
  BY OvernightNext
<1> QED BY <1>1, <1>2, RowwiseAlways, IntactAlways, PTL DEF Spec

LEMMA OneIsSolo ==
    ASSUME IsFiniteSet(polled), Cardinality(polled) <= 1
    PROVE  Solo
<1> SUFFICES ASSUME NEW q \in polled, NEW r \in polled, q # r PROVE FALSE
  BY DEF Solo
<1>1. IsFiniteSet(polled \ {q}) /\ Cardinality(polled \ {q}) = Cardinality(polled) - 1 BY FS_RemoveElement
<1>2. Cardinality(polled) \in Nat /\ Cardinality(polled \ {q}) \in Nat BY <1>1, FS_CardinalityType
<1>3. Cardinality(polled \ {q}) = 0 BY <1>1, <1>2
<1>4. polled \ {q} = {} BY <1>1, <1>3, FS_EmptySet
<1> QED BY <1>4

\* A pile of more than DIGEST_THRESHOLD that built up overnight goes out as a
\* digest, nothing of it alone, when one replica does the releasing and no
\* release is retried.
THEOREM PileAlwaysDigested == Spec => []PileIsDigested
<1>1. (Types /\ Rowwise) /\ (\A n \in Notifications : Intact(n)) /\ Overnight => PileIsDigested
  <2> SUFFICES ASSUME Types, Rowwise, \A n \in Notifications : Intact(n), Overnight,
                      Cardinality(polled) <= 1, used \cap {"releaseThrow", "crash"} = {}, NEW n \in pile
               PROVE  ~Individually(n)
    BY DEF PileIsDigested
  <2>1. n \in Notifications /\ n \in Rows /\ decision[n] = "quiet"
    BY NotificationFacts DEF Types, HistTypes, Overnight, PileFits
  <2>2. Calm BY OneIsSolo DEF Overnight, Calm
  <2>3. NeverRetried(n) BY <2>1 DEF Intact
  <2>4. n \in scheduled => status[n] = "QUIET" BY <2>1, <2>3 DEF NeverRetried, AsHeld
  <2>5. ASSUME NEW r \in polled, Piled(r, n) PROVE status[n] \notin Out
    <3>1. r \in Replicas BY DEF Types, HistTypes
    <3>2. CASE Holds(r, n) /\ pc[Releaser(r)] \in {"defer", "deferStatus"}
      BY <2>1, <2>3, <3>1, <3>2 DEF NeverRetried, AsHeld, Rowwise, HoldFits, Out
    <3> QED BY <2>4, <2>5, <3>2 DEF Piled, Waiting, DigestSide, Out
  <2>6. status[n] \notin Out BY <2>2, <2>4, <2>5 DEF Overnight, PileFits, Out
  <2>7. \A c \in Channels : queued[n][c] = 0 BY <2>1, <2>6 DEF Rowwise, RowFits
  <2> QED BY <2>7 DEF Individually
<1> QED BY <1>1, RowwiseAlways, IntactAlways, OvernightAlways, PTL
=============================================================================
