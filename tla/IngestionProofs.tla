-------------------------- MODULE IngestionProofs --------------------------
(***************************************************************************)
(* What the way in guarantees for any number of requests, consumers, keys  *)
(* and buckets, and any number of faults.                                  *)
(***************************************************************************)
EXTENDS Ingestion, FiniteSetTheorems, TLAPS

-----------------------------------------------------------------------------
(***************************************************************************)
(* Type correctness.  Its strengthening keeps the places in the claim,     *)
(* release and check loops within the slots an event has, and the offset   *)
(* in a consumer's hand within the log.                                    *)
(***************************************************************************)

\* How many slots an event has.
Width(r) == IF KeyOf[r] = None THEN 1 ELSE 2

HttpTypes ==
    /\ redis \in [Slots -> Ids] /\ bucket \in 0..MaxBucket
    /\ hpc \in [Requests -> HttpPc] /\ hidx \in [Requests -> 1..2]
    /\ hbucket \in [Requests -> 0..MaxBucket] /\ existing \in [Requests -> Ids]
    /\ answer \in [Requests -> Answers]
    /\ \A r \in Requests : hidx[r] <= Width(r)

BusTypes ==
    /\ log \in Seq(Requests) /\ committed \in 0..Len(log)
    /\ owner \in Consumers /\ position \in 0..Len(log)
    /\ cpc \in [Consumers -> ConsumerPc] /\ at \in [Consumers -> 0..Len(log)] /\ cidx \in [Consumers -> 1..2]
    /\ \A c \in Consumers : cpc[c] # "idle" =>
          at[c] \in 1..Len(log) /\ cidx[c] <= Width(Message(c))

RowTypes ==
    /\ row \in [Requests -> {"none", "CREATED", "ENRICHED", "settled"}]
    /\ dispatched \in [Requests -> Nat]

OtherTypes == parked \subseteq Requests /\ handled \subseteq 1..Len(log)
UsedTypes == used \in [Faults -> Nat]

Types == HttpTypes /\ BusTypes /\ RowTypes /\ OtherTypes /\ UsedTypes

\* An event's slots are one or two of the slots there are.
LEMMA WantedSlots ==
    ASSUME NEW r \in Requests, NEW b \in 0..MaxBucket
    PROVE  /\ Len(Wanted(r, b)) = Width(r) /\ Width(r) \in 1..2
           /\ \A i \in 1..Width(r) : Wanted(r, b)[i] \in Slots
<1>1. generateEventFingerprint(r, b) \in Slots
  BY DEF generateEventFingerprint, Slots, Entities
<1>2. CASE KeyOf[r] = None
  BY <1>1, <1>2 DEF Wanted, Width
<1>3. CASE KeyOf[r] # None
  <2>1. <<"idempotency", KeyOf[r]>> \in Slots
    BY <1>3 DEF Slots, Keys
  <2>2. Wanted(r, b) = <<<<"idempotency", KeyOf[r]>>, generateEventFingerprint(r, b)>> /\ Width(r) = 2
    BY <1>3 DEF Wanted, Width
  <2> HIDE DEF Slots
  <2> QED BY <1>1, <2>1, <2>2
<1> QED BY <1>2, <1>3

\* The slot a request is at is one of them.
LEMMA SlotIsSlot ==
    ASSUME Types, NEW r \in Requests
    PROVE  /\ Slot(r) \in Slots /\ redis[Slot(r)] \in Ids
           /\ hidx[r] \in 1..2 /\ hidx[r] <= Width(r) /\ Width(r) \in 1..2
           /\ LastSlot(r) <=> hidx[r] = Width(r)
  BY WantedSlots DEF Types, HttpTypes, Slot, LastSlot

\* A consumer under way has a message of the log in hand.
LEMMA InHand ==
    ASSUME Types, NEW c \in Consumers, cpc[c] # "idle"
    PROVE  Message(c) \in Requests /\ at[c] \in 1..Len(log)
  BY DEF Types, BusTypes, Message


\* What each kind of step may touch.
LEMMA HttpFrame ==
    ASSUME NEW r \in Requests, HttpStep(r)
    PROVE  /\ UNCHANGED <<bucket, committed, owner, position, cpc, at, cidx, row, dispatched, parked, handled>>
           /\ log' = log \/ log' = Append(log, r)
           /\ UNCHANGED used \/ Spend("refused") \/ Spend("lostAck") \/ Spend("die")
<1> USE DEF kafka, thread, db
<1>1. CASE Arrive(r) BY <1>1 DEF Arrive
<1>2. CASE claim(r) BY <1>2 DEF claim
<1>3. CASE ReadHolder(r) BY <1>3 DEF ReadHolder
<1>4. CASE Untake(r) BY <1>4 DEF Untake
<1>5. CASE release(r) BY <1>5 DEF release
<1>6. CASE ReleaseDelete(r) BY <1>6 DEF ReleaseDelete
<1>7. CASE HandlerDies(r) BY <1>7 DEF HandlerDies
<1>8. CASE Publish(r) BY <1>8 DEF Publish
<1>9. CASE PublishFails(r) BY <1>9 DEF PublishFails
<1> QED BY <1>1, <1>2, <1>3, <1>4, <1>5, <1>6, <1>7, <1>8, <1>9 DEF HttpStep

\* What a consumer does on its way through a message.
Handler(c) == ConsumerStep(c) \/ EngineThrows(c) \/ ParkFails(c)

LEMMA HandlerFrame ==
    ASSUME NEW c \in Consumers, Handler(c)
    PROVE  /\ UNCHANGED <<bucket, hpc, hidx, hbucket, existing, answer, log, owner>>
           /\ UNCHANGED redis \/ register(c)
           /\ UNCHANGED <<row, dispatched>> \/ CreateRow(c) \/ EnrichWrite(c) \/ Settle(c)
           /\ UNCHANGED parked \/ Park(c)
           /\ UNCHANGED <<committed, handled>> \/ Commit(c)
           /\ UNCHANGED position \/ Fetch(c)
           /\ UNCHANGED used \/ Spend("throw") \/ (ParkFails(c) /\ Spend("parkFail"))
<1> USE DEF http, kafka, thread, db
<1>1. CASE Fetch(c) BY <1>1 DEF Fetch
<1>2. CASE check(c) BY <1>2 DEF check
<1>3. CASE FindRow(c) BY <1>3 DEF FindRow
<1>4. CASE CreateRow(c) BY <1>4 DEF CreateRow
<1>5. CASE register(c) BY <1>5 DEF register
<1>6. CASE EnrichCheck(c) BY <1>6 DEF EnrichCheck
<1>7. CASE EnrichWrite(c) BY <1>7 DEF EnrichWrite
<1>8. CASE Settle(c) BY <1>8 DEF Settle
<1>9. CASE Park(c) BY <1>9 DEF Park
<1>10. CASE Commit(c) BY <1>10 DEF Commit
<1>11. CASE EngineThrows(c) BY <1>11 DEF EngineThrows
<1>12. CASE ParkFails(c) BY <1>12 DEF ParkFails
<1> QED BY <1>1, <1>2, <1>3, <1>4, <1>5, <1>6, <1>7, <1>8, <1>9, <1>10, <1>11, <1>12
        DEF Handler, ConsumerStep

\* Where the partition goes to another owner, or a replica without it dies.
Moved(d) == (\E c \in Consumers : ConsumerCrashes(c, d)) \/ Rebalance(d)

LEMMA MovedFrame ==
    ASSUME NEW d \in Consumers, Moved(d)
    PROVE  /\ UNCHANGED <<bucket, hpc, hidx, hbucket, existing, answer, log, committed, at, cidx>>
           /\ UNCHANGED <<redis, row, dispatched, parked, handled>>
           /\ cpc' = cpc \/ \E c \in Consumers : cpc' = [cpc EXCEPT ![c] = "idle"]
           /\ \/ /\ owner' = d /\ position' = committed
                 /\ cpc[d] = "idle" \/ cpc' = [cpc EXCEPT ![d] = "idle"]
              \/ UNCHANGED <<owner, position>> /\ cpc' = [cpc EXCEPT ![d] = "idle"] /\ owner # d
           /\ Spend("crash") \/ (Spend("rebalance") /\ UNCHANGED cpc)
  BY DEF Moved, ConsumerCrashes, Rebalance, http, kafka, thread, db

LEMMA Steps ==
    ASSUME Next
    PROVE  \/ \E r \in Requests : HttpStep(r)
           \/ NextBucket
           \/ \E c \in Consumers : Handler(c)
           \/ \E d \in Consumers : Moved(d)
  BY DEF Next, Handler, Moved

LEMMA Frozen ==
    ASSUME UNCHANGED vars
    PROVE  UNCHANGED <<redis, bucket, hpc, hidx, hbucket, existing, answer, log, committed, owner, position,
                       cpc, at, cidx, row, dispatched, parked, handled, used>>
  BY DEF vars, http, kafka, thread, db

\* Faults are only ever counted up.
LEMMA Spent ==
    ASSUME UsedTypes, NEW f \in Faults, Spend(f)
    PROVE  UsedTypes' /\ used'[f] = used[f] + 1 /\ \A g \in Faults \ {f} : used'[g] = used[g]
  BY DEF UsedTypes, Spend

LEMMA UsedNext ==
    ASSUME UsedTypes, [Next]_vars
    PROVE  UsedTypes' /\ \A f \in Faults : used'[f] >= used[f]
<1>0. ASSUME NEW f \in {"refused", "lostAck", "die", "crash", "rebalance", "throw", "parkFail"}, Spend(f)
      PROVE  UsedTypes' /\ \A g \in Faults : used'[g] >= used[g]
  <2>1. f \in Faults BY DEF Faults
  <2> QED BY <1>0, <2>1, Spent DEF UsedTypes
<1>1. ASSUME UNCHANGED used PROVE UsedTypes' /\ \A f \in Faults : used'[f] >= used[f]
  BY <1>1 DEF UsedTypes
<1>2. CASE \E r \in Requests : HttpStep(r) BY <1>0, <1>1, <1>2, HttpFrame
<1>3. CASE NextBucket BY <1>1, <1>3 DEF NextBucket
<1>4. CASE \E c \in Consumers : Handler(c) BY <1>0, <1>1, <1>4, HandlerFrame
<1>5. CASE \E d \in Consumers : Moved(d) BY <1>0, <1>5, MovedFrame
<1>6. CASE UNCHANGED vars BY <1>1, <1>6, Frozen
<1> QED BY <1>2, <1>3, <1>4, <1>5, <1>6, Steps

\* A request's own step keeps its side in type.
LEMMA HttpTypesStep ==
    ASSUME Types, NEW r \in Requests, HttpStep(r)
    PROVE  HttpTypes'
<1>0. /\ Slot(r) \in Slots /\ redis[Slot(r)] \in Ids /\ r \in Ids /\ None \in Ids
      /\ hidx[r] \in 1..2 /\ hidx[r] <= Width(r) /\ Width(r) \in 1..2
      /\ LastSlot(r) <=> hidx[r] = Width(r)
  BY SlotIsSlot DEF Ids
<1>a. HttpTypes BY DEF Types
<1>b. Ids \subseteq Answers /\ "unavailable" \in Answers /\ "died" \in Answers BY DEF Answers
<1>c. \A x \in Requests : Width(x) \in 1..2 BY DEF Width
<1>1. CASE Arrive(r)
  BY <1>a, <1>1 DEF Arrive, Http, HttpTypes, HttpPc
<1>2. CASE claim(r)
  <2>1. redis' \in [Slots -> Ids]
    BY <1>0, <1>a, <1>2 DEF claim, HttpTypes
  <2>2. hpc' \in [Requests -> HttpPc]
    BY <1>a, <1>2 DEF claim, Http, HttpTypes, HttpPc
  <2>3. hidx' \in [Requests -> 1..2] /\ \A x \in Requests : hidx'[x] <= Width(x)
    BY <1>0, <1>a, <1>c, <1>2 DEF claim, HttpTypes
  <2> QED BY <1>a, <1>2, <2>1, <2>2, <2>3 DEF claim, HttpTypes
<1>3. CASE ReadHolder(r)
  <2>1. hpc' \in [Requests -> HttpPc]
    BY <1>a, <1>3 DEF ReadHolder, Conclude, Answer, Http, HttpTypes, HttpPc
  <2>2. answer' \in [Requests -> Answers] /\ existing' \in [Requests -> Ids]
    BY <1>0, <1>a, <1>b, <1>3 DEF ReadHolder, Conclude, Answer, HttpTypes
  <2> QED BY <1>a, <1>3, <2>1, <2>2 DEF ReadHolder, HttpTypes
<1>4. CASE Untake(r)
  <2>1. hpc' \in [Requests -> HttpPc]
    BY <1>a, <1>4 DEF Untake, Conclude, Answer, Http, HttpTypes, HttpPc
  <2>2. answer' \in [Requests -> Answers]
    BY <1>a, <1>b, <1>4 DEF Untake, Conclude, Answer, HttpTypes
  <2>3. redis' \in [Slots -> Ids]
    BY <1>0, <1>a, <1>4 DEF Untake, HttpTypes
  <2> QED BY <1>a, <1>4, <2>1, <2>2, <2>3 DEF Untake, HttpTypes
<1>5. ASSUME NextRelease(r)
      PROVE  /\ hpc' \in [Requests -> HttpPc] /\ answer' \in [Requests -> Answers]
             /\ hidx' \in [Requests -> 1..2] /\ \A x \in Requests : hidx'[x] <= Width(x)
  <2>1. hpc' \in [Requests -> HttpPc]
    BY <1>a, <1>5 DEF NextRelease, Answer, Http, HttpTypes, HttpPc
  <2>2. answer' \in [Requests -> Answers]
    BY <1>a, <1>b, <1>5 DEF NextRelease, Answer, HttpTypes
  <2>3. hidx' \in [Requests -> 1..2] /\ \A x \in Requests : hidx'[x] <= Width(x)
    BY <1>0, <1>a, <1>c, <1>5 DEF NextRelease, HttpTypes
  <2> QED BY <2>1, <2>2, <2>3
<1>6. CASE release(r)
  <2>1. CASE NextRelease(r)
    BY <1>a, <1>5, <1>6, <2>1 DEF release, HttpTypes
  <2>2. CASE Http(r, "delete") /\ UNCHANGED <<hidx, answer>>
    BY <1>a, <1>6, <2>2 DEF release, Http, HttpTypes, HttpPc
  <2> QED BY <1>6, <2>1, <2>2 DEF release
<1>7. CASE ReleaseDelete(r)
  <2>1. redis' \in [Slots -> Ids]
    BY <1>0, <1>a, <1>7 DEF ReleaseDelete, HttpTypes
  <2>2. NextRelease(r) /\ UNCHANGED <<bucket, hbucket, existing>>
    BY <1>7 DEF ReleaseDelete
  <2> QED BY <1>a, <1>5, <2>1, <2>2 DEF HttpTypes
<1>8. CASE HandlerDies(r)
  <2>1. hpc' \in [Requests -> HttpPc] /\ answer' \in [Requests -> Answers]
    BY <1>a, <1>b, <1>8 DEF HandlerDies, Answer, Http, HttpTypes, HttpPc
  <2> QED BY <1>a, <1>8, <2>1 DEF HandlerDies, HttpTypes
<1>9. CASE Publish(r)
  <2>1. hpc' \in [Requests -> HttpPc] /\ answer' \in [Requests -> Answers]
    BY <1>0, <1>a, <1>b, <1>9 DEF Publish, Answer, Http, HttpTypes, HttpPc
  <2> QED BY <1>a, <1>9, <2>1 DEF Publish, HttpTypes
<1>10. CASE PublishFails(r)
  <2>1. hpc' \in [Requests -> HttpPc]
    BY <1>a, <1>10 DEF PublishFails, Http, HttpTypes, HttpPc
  <2>2. hidx' \in [Requests -> 1..2] /\ \A x \in Requests : hidx'[x] <= Width(x)
    BY <1>0, <1>a, <1>c, <1>10 DEF PublishFails, HttpTypes
  <2>3. hbucket' \in [Requests -> 0..MaxBucket] /\ UNCHANGED <<redis, bucket, existing, answer>>
    BY <1>a, <1>10 DEF PublishFails, HttpTypes
  <2> QED BY <1>a, <2>1, <2>2, <2>3 DEF HttpTypes
<1> QED BY <1>1, <1>2, <1>3, <1>4, <1>6, <1>7, <1>8, <1>9, <1>10 DEF HttpStep

\* It leaves the bus in type: the log only grows.
LEMMA LogGrows ==
    ASSUME BusTypes, NEW r \in Requests, log' = log \/ log' = Append(log, r)
    PROVE  /\ log' \in Seq(Requests) /\ Len(log') \in Nat /\ Len(log) \in Nat /\ Len(log) <= Len(log')
           /\ \A i \in 1..Len(log) : i \in 1..Len(log') /\ log'[i] = log[i]
<1>1. log \in Seq(Requests) /\ Len(log) \in Nat BY DEF BusTypes
<1>2. CASE log' = log BY <1>1, <1>2
<1>3. CASE log' = Append(log, r)
  <2>1. log' \in Seq(Requests) /\ Len(log') = Len(log) + 1 BY <1>1, <1>3
  <2>2. \A i \in 1..Len(log) : log'[i] = log[i] BY <1>1, <1>3
  <2> QED BY <1>1, <2>1, <2>2
<1> QED BY <1>2, <1>3

LEMMA BusTypesHttp ==
    ASSUME Types, NEW r \in Requests, HttpStep(r)
    PROVE  BusTypes' /\ OtherTypes' /\ RowTypes'
<1>1. /\ UNCHANGED <<committed, owner, position, cpc, at, cidx, row, dispatched, parked, handled>>
      /\ log' = log \/ log' = Append(log, r)
  BY HttpFrame
<1>2. BusTypes /\ OtherTypes /\ RowTypes BY DEF Types
<1>3. /\ log' \in Seq(Requests) /\ Len(log') \in Nat /\ Len(log) \in Nat /\ Len(log) <= Len(log')
      /\ \A i \in 1..Len(log) : i \in 1..Len(log') /\ log'[i] = log[i]
  BY <1>1, <1>2, LogGrows
<1>4. OtherTypes' /\ RowTypes'
  BY <1>1, <1>2, <1>3 DEF OtherTypes, RowTypes
<1>5. /\ committed' \in 0..Len(log') /\ position' \in 0..Len(log')
      /\ at' \in [Consumers -> 0..Len(log')]
  BY <1>1, <1>2, <1>3 DEF BusTypes
<1>6. ASSUME NEW c \in Consumers, cpc'[c] # "idle"
      PROVE  at'[c] \in 1..Len(log') /\ cidx'[c] <= Width(log'[at'[c]])
  BY <1>1, <1>2, <1>3, <1>6 DEF BusTypes, Message
<1>7. UNCHANGED <<owner, cpc, cidx>> BY <1>1
<1> QED BY <1>2, <1>3, <1>4, <1>5, <1>6, <1>7 DEF BusTypes, Message

\* A consumer's place: where its program counter goes, what it has in hand.
LEMMA BusTypesHandler ==
    ASSUME Types, NEW c \in Consumers, Handler(c)
    PROVE  BusTypes'
<1>0. BusTypes /\ bucket \in 0..MaxBucket BY DEF Types, HttpTypes
<1>1. UNCHANGED <<log, owner>> BY HandlerFrame
<1>2. ASSUME cpc[c] # "idle", NEW p \in ConsumerPc, cpc' = [cpc EXCEPT ![c] = p], UNCHANGED <<at, cidx>>
      PROVE  /\ cpc' \in [Consumers -> ConsumerPc] /\ at' \in [Consumers -> 0..Len(log')]
             /\ cidx' \in [Consumers -> 1..2]
             /\ \A x \in Consumers : cpc'[x] # "idle" => at'[x] \in 1..Len(log') /\ cidx'[x] <= Width(log'[at'[x]])
  BY <1>0, <1>1, <1>2 DEF BusTypes, Message
<1>3. ASSUME cpc[c] # "idle", NEW p \in ConsumerPc, Pc(c, p), UNCHANGED position,
             committed' \in 0..Len(log)
      PROVE  BusTypes'
  <2>1. cpc' = [cpc EXCEPT ![c] = p] /\ UNCHANGED <<at, cidx>> BY <1>3 DEF Pc
  <2> QED BY <1>0, <1>1, <1>2, <1>3, <2>1 DEF BusTypes, Message
<1>4. /\ {"check", "find", "create", "register", "enrich", "write", "settle"} \subseteq ConsumerPc
      /\ {"idle", "park", "commit"} \subseteq ConsumerPc
  BY DEF ConsumerPc, EnginePc
<1>5. committed \in 0..Len(log) /\ at[c] \in 0..Len(log) BY <1>0 DEF BusTypes
<1>6. CASE Fetch(c)
  <2>1. /\ position' = position + 1 /\ at' = [at EXCEPT ![c] = position + 1] /\ UNCHANGED <<log, committed, owner>>
        /\ cidx' = [cidx EXCEPT ![c] = 1] /\ cpc' = [cpc EXCEPT ![c] = "check"] /\ position < Len(log)
    BY <1>6 DEF Fetch
  <2>2. position' \in 0..Len(log) /\ position' \in 1..Len(log) BY <1>0, <2>1 DEF BusTypes
  <2>3. at' \in [Consumers -> 0..Len(log)] /\ cidx' \in [Consumers -> 1..2] /\ cpc' \in [Consumers -> ConsumerPc]
    BY <1>0, <1>4, <2>1, <2>2 DEF BusTypes
  <2>4. \A x \in Consumers : Width(log[at'[x]]) \in 1..2 BY DEF Width
  <2>5. ASSUME NEW x \in Consumers, cpc'[x] # "idle"
        PROVE  at'[x] \in 1..Len(log') /\ cidx'[x] <= Width(log'[at'[x]])
    <3>1. CASE x = c
      <4>1. at'[x] = position' /\ cidx'[x] = 1 BY <1>0, <2>1, <3>1 DEF BusTypes
      <4>2. 1 <= Width(log[at'[x]]) BY <2>4
      <4> QED BY <2>1, <2>2, <4>1, <4>2
    <3>2. CASE x # c BY <1>0, <2>5, <3>2, <2>1 DEF BusTypes, Message
    <3> QED BY <3>1, <3>2
  <2> QED BY <1>0, <2>1, <2>2, <2>3, <2>5 DEF BusTypes, Message
<1>7. CASE check(c)
  <2>1. cpc[c] # "idle" /\ UNCHANGED <<committed, position>> BY <1>7 DEF check, kafka
  <2>2. CASE Pc(c, "commit") \/ Pc(c, "find")
    BY <1>3, <1>4, <1>5, <2>1, <2>2
  <2>3. CASE /\ cidx' = [cidx EXCEPT ![c] = @ + 1] /\ UNCHANGED <<cpc, at>>
             /\ cidx[c] # Len(Wanted(Message(c), bucket))
    <3>1. Message(c) \in Requests BY <2>1, InHand
    <3>2. cidx[c] # Width(Message(c)) /\ Width(Message(c)) \in 1..2 BY <1>0, <2>3, <3>1, WantedSlots
    <3>3. cidx[c] \in 1..2 /\ cidx[c] <= Width(Message(c)) BY <1>0, <2>1 DEF BusTypes
    <3>4. cidx[c] + 1 \in 1..2 /\ cidx[c] + 1 <= Width(Message(c)) BY <3>2, <3>3
    <3>5. ASSUME NEW x \in Consumers, cpc'[x] # "idle"
          PROVE  at'[x] \in 1..Len(log') /\ cidx'[x] <= Width(log'[at'[x]])
      <4>1. CASE x = c BY <1>0, <1>1, <2>1, <2>3, <3>4, <4>1 DEF BusTypes, Message
      <4>2. CASE x # c BY <1>0, <1>1, <2>3, <3>5, <4>2 DEF BusTypes, Message
      <4> QED BY <4>1, <4>2
    <3>6. cidx' \in [Consumers -> 1..2] BY <1>0, <2>3, <3>4 DEF BusTypes
    <3> QED BY <1>0, <1>1, <2>1, <2>3, <3>5, <3>6 DEF BusTypes, Message
  <2> QED BY <1>7, <2>2, <2>3 DEF check
<1>8. CASE FindRow(c)
  <2>1. cpc[c] # "idle" /\ UNCHANGED <<committed, position>> BY <1>8 DEF FindRow, kafka
  <2>2. Pc(c, "create") \/ Pc(c, "enrich") \/ Pc(c, "commit") BY <1>8 DEF FindRow
  <2> QED BY <1>3, <1>4, <1>5, <2>1, <2>2
<1>9. CASE CreateRow(c)
  <2>1. cpc[c] # "idle" /\ UNCHANGED <<committed, position>> BY <1>9 DEF CreateRow, kafka
  <2>2. Pc(c, "register") \/ Pc(c, "park") BY <1>9 DEF CreateRow
  <2> QED BY <1>3, <1>4, <1>5, <2>1, <2>2
<1>10. CASE register(c)
  BY <1>3, <1>4, <1>5, <1>10 DEF register, kafka
<1>11. CASE EnrichCheck(c)
  <2>1. cpc[c] # "idle" /\ UNCHANGED <<committed, position>> BY <1>11 DEF EnrichCheck, kafka
  <2>2. Pc(c, "write") \/ Pc(c, "park") BY <1>11 DEF EnrichCheck
  <2> QED BY <1>3, <1>4, <1>5, <2>1, <2>2
<1>12. CASE EnrichWrite(c)
  BY <1>3, <1>4, <1>5, <1>12 DEF EnrichWrite, kafka
<1>13. CASE Settle(c)
  BY <1>3, <1>4, <1>5, <1>13 DEF Settle, kafka
<1>14. CASE Park(c)
  BY <1>3, <1>4, <1>5, <1>14 DEF Park, kafka
<1>15. CASE Commit(c)
  BY <1>3, <1>4, <1>5, <1>15 DEF Commit
<1>16. CASE EngineThrows(c)
  BY <1>3, <1>4, <1>5, <1>16 DEF EngineThrows, EnginePc, kafka
<1>17. CASE ParkFails(c)
  BY <1>3, <1>4, <1>5, <1>17 DEF ParkFails, kafka
<1> QED BY <1>6, <1>7, <1>8, <1>9, <1>10, <1>11, <1>12, <1>13, <1>14, <1>15, <1>16, <1>17
        DEF Handler, ConsumerStep

LEMMA RowTypesHandler ==
    ASSUME Types, NEW c \in Consumers, Handler(c)
    PROVE  RowTypes' /\ OtherTypes'
<1>1. UNCHANGED log /\ (UNCHANGED parked \/ Park(c)) /\ (UNCHANGED <<committed, handled>> \/ Commit(c))
      /\ (UNCHANGED <<row, dispatched>> \/ CreateRow(c) \/ EnrichWrite(c) \/ Settle(c))
  BY HandlerFrame
<1>2. RowTypes /\ OtherTypes BY DEF Types
<1>3. RowTypes'
  <2>1. CASE UNCHANGED <<row, dispatched>> BY <1>2, <2>1 DEF RowTypes
  <2>2. CASE CreateRow(c) BY <1>2, <2>2 DEF CreateRow, RowTypes
  <2>3. CASE EnrichWrite(c) BY <1>2, <2>3 DEF EnrichWrite, RowTypes
  <2>4. CASE Settle(c)
    <3>1. row' = [row EXCEPT ![Message(c)] = "settled"] /\ dispatched' = [dispatched EXCEPT ![Message(c)] = @ + 1]
          /\ Message(c) \in Requests
      BY <2>4, InHand DEF Settle
    <3>2. dispatched' \in [Requests -> Nat] BY <1>2, <3>1 DEF RowTypes
    <3> QED BY <1>2, <3>1, <3>2 DEF RowTypes
  <2> QED BY <1>1, <2>1, <2>2, <2>3, <2>4
<1>4. parked' \subseteq Requests
  <2>1. CASE UNCHANGED parked BY <1>2, <2>1 DEF OtherTypes
  <2>2. CASE Park(c)
    <3>1. Message(c) \in Requests BY <2>2, InHand DEF Park
    <3> QED BY <1>2, <2>2, <3>1 DEF Park, OtherTypes
  <2> QED BY <1>1, <2>1, <2>2
<1>5. handled' \subseteq 1..Len(log')
  <2>1. CASE UNCHANGED handled BY <1>1, <1>2, <2>1 DEF OtherTypes
  <2>2. CASE Commit(c)
    <3>1. at[c] \in 1..Len(log) BY <2>2, InHand DEF Commit
    <3> QED BY <1>1, <1>2, <2>2, <3>1 DEF Commit, OtherTypes
  <2> QED BY <1>1, <2>1, <2>2
<1> QED BY <1>3, <1>4, <1>5 DEF OtherTypes

LEMMA HttpTypesHandler ==
    ASSUME Types, NEW c \in Consumers, Handler(c)
    PROVE  HttpTypes'
<1>1. UNCHANGED <<bucket, hpc, hidx, hbucket, existing, answer, log, owner>> /\ (UNCHANGED redis \/ register(c))
  BY HandlerFrame
<1>2. redis' \in [Slots -> Ids]
  <2>1. CASE UNCHANGED redis BY <2>1 DEF Types, HttpTypes
  <2>2. CASE register(c)
    <3>1. Message(c) \in Ids BY <2>2, InHand DEF register, Ids
    <3>2. redis \in [Slots -> Ids] BY DEF Types, HttpTypes
    <3> QED BY <2>2, <3>1, <3>2 DEF register
  <2> QED BY <1>1, <2>1, <2>2
<1>3. HttpTypes BY DEF Types
<1> QED BY <1>1, <1>2, <1>3 DEF HttpTypes

LEMMA TypesMoved ==
    ASSUME Types, NEW d \in Consumers, Moved(d)
    PROVE  HttpTypes' /\ BusTypes' /\ RowTypes' /\ OtherTypes'
<1>1. HttpTypes /\ BusTypes /\ RowTypes /\ OtherTypes BY DEF Types
<1>2. HttpTypes' BY <1>1, MovedFrame DEF HttpTypes
<1>3. RowTypes' /\ OtherTypes' BY <1>1, MovedFrame DEF RowTypes, OtherTypes
<1>4. /\ UNCHANGED <<log, committed, at, cidx>>
      /\ (owner' = d /\ position' = committed) \/ UNCHANGED <<owner, position>>
      /\ cpc' = cpc \/ \E c \in Consumers : cpc' = [cpc EXCEPT ![c] = "idle"]
  BY MovedFrame
<1>5. cpc' \in [Consumers -> ConsumerPc] /\ \A x \in Consumers : cpc'[x] # "idle" => cpc[x] # "idle"
  BY <1>1, <1>4 DEF BusTypes, ConsumerPc
<1> QED BY <1>1, <1>2, <1>3, <1>4, <1>5 DEF BusTypes, Message

LEMMA TypesInit == Init => Types
<1> SUFFICES ASSUME Init PROVE Types OBVIOUS
<1>1. HttpTypes
  BY IngestionAssumption DEF Init, HttpTypes, Ids, Answers, HttpPc, Width
<1>2. owner \in Consumers BY IngestionAssumption DEF Init
<1>3. log \in Seq(Requests) /\ Len(log) = 0 BY DEF Init
<1>4. BusTypes BY <1>2, <1>3 DEF Init, BusTypes, ConsumerPc
<1>5. RowTypes /\ OtherTypes BY <1>3 DEF Init, RowTypes, OtherTypes
<1>6. UsedTypes BY DEF Init, UsedTypes
<1> QED BY <1>1, <1>4, <1>5, <1>6 DEF Types

LEMMA TypesNext == Types /\ [Next]_vars => Types'
<1> SUFFICES ASSUME Types, [Next]_vars PROVE Types' OBVIOUS
<1>1. UsedTypes' BY UsedNext DEF Types
<1>2. CASE \E r \in Requests : HttpStep(r)
  BY <1>1, <1>2, HttpTypesStep, BusTypesHttp DEF Types
<1>3. CASE NextBucket
  <2>1. UNCHANGED <<redis, hpc, hidx, hbucket, existing, answer, log, committed, owner, position,
                    cpc, at, cidx, row, dispatched, parked, handled>>
    BY <1>3 DEF NextBucket, http, kafka, thread, db
  <2>2. bucket' \in 0..MaxBucket
    BY <1>3, IngestionAssumption DEF NextBucket, Types, HttpTypes
  <2>3. HttpTypes' BY <2>1, <2>2 DEF Types, HttpTypes
  <2>4. BusTypes' BY <2>1 DEF Types, BusTypes, Message
  <2>5. RowTypes' /\ OtherTypes' BY <2>1 DEF Types, RowTypes, OtherTypes
  <2> QED BY <1>1, <2>3, <2>4, <2>5 DEF Types
<1>4. CASE \E c \in Consumers : Handler(c)
  BY <1>1, <1>4, HttpTypesHandler, BusTypesHandler, RowTypesHandler DEF Types
<1>5. CASE \E d \in Consumers : Moved(d)
  BY <1>1, <1>5, TypesMoved DEF Types
<1>6. CASE UNCHANGED vars
  <2>1. HttpTypes' BY <1>6, Frozen DEF Types, HttpTypes
  <2>2. BusTypes' BY <1>6, Frozen DEF Types, BusTypes, Message
  <2>3. RowTypes' /\ OtherTypes' BY <1>6, Frozen DEF Types, RowTypes, OtherTypes
  <2> QED BY <1>1, <2>1, <2>2, <2>3 DEF Types
<1> QED BY <1>2, <1>3, <1>4, <1>5, <1>6, Steps

LEMMA TypesAlways == Spec => []Types
<1>1. Init => Types BY TypesInit
<1>2. Types /\ [Next]_vars => Types' BY TypesNext
<1> QED BY <1>1, <1>2, PTL DEF Spec

\* Redis, the requests, the bus and the rows keep the types the code gives
\* them, for any number of requests, replicas and faults; in particular no
\* claim, release or check loop runs past the slots an event has, and no
\* replica holds an offset beyond the log.
THEOREM TypeCorrect == Spec => []TypeOK
<1>1. Types => TypeOK
  BY DEF Types, HttpTypes, BusTypes, RowTypes, OtherTypes, UsedTypes, TypeOK
<1> QED BY <1>1, TypesAlways, PTL

-----------------------------------------------------------------------------
(***************************************************************************)
(* At-least-once, as far as it goes.  The offsets the owner has gone past  *)
(* are those before its position, less the one in its hands; the committed *)
(* offset is one of them, and those without a returned handler number at   *)
(* most the messages that could not be parked.                             *)
(***************************************************************************)

Passed == IF cpc[owner] = "idle" THEN position ELSE position - 1

Skips ==
    /\ cpc[owner] # "idle" => at[owner] = position
    /\ committed <= Passed
    /\ Cardinality((1..Passed) \ handled) <= used["parkFail"]

\* Fewer offsets passed and more handled leave fewer unhandled.
LEMMA FewerSkipped ==
    ASSUME NEW p \in Nat, NEW q, NEW S, NEW T, (1..q) \ T \subseteq (1..p) \ S
    PROVE  /\ IsFiniteSet((1..q) \ T) /\ Cardinality((1..q) \ T) <= Cardinality((1..p) \ S)
           /\ Cardinality((1..q) \ T) \in Nat /\ Cardinality((1..p) \ S) \in Nat
<1>1. IsFiniteSet(1..p) BY FS_Interval
<1>2. IsFiniteSet((1..p) \ S) BY <1>1, FS_Difference
<1> QED BY <1>2, FS_Subset, FS_CardinalityType

\* Going past one more offset leaves at most one more unhandled.
LEMMA OneMoreSkipped ==
    ASSUME NEW p \in Nat, NEW S
    PROVE  Cardinality((1..(p+1)) \ S) <= Cardinality((1..p) \ S) + 1
<1>1. IsFiniteSet((1..p) \ S)
  <2>1. IsFiniteSet(1..p) BY FS_Interval
  <2> QED BY <2>1, FS_Difference
<1>2. (1..(p+1)) \ S \subseteq ((1..p) \ S) \cup {p+1} OBVIOUS
<1>3. IsFiniteSet(((1..p) \ S) \cup {p+1})
      /\ (Cardinality(((1..p) \ S) \cup {p+1}) = Cardinality((1..p) \ S)
          \/ Cardinality(((1..p) \ S) \cup {p+1}) = Cardinality((1..p) \ S) + 1)
  BY <1>1, FS_AddElement, Zenon
<1>4. Cardinality((1..(p+1)) \ S) <= Cardinality(((1..p) \ S) \cup {p+1})
  BY <1>2, <1>3, FS_Subset
<1>5. Cardinality((1..(p+1)) \ S) \in Nat /\ Cardinality((1..p) \ S) \in Nat
  BY <1>1, <1>2, <1>3, FS_Subset, FS_CardinalityType
<1> QED BY <1>3, <1>4, <1>5

LEMMA SkipsInit == Init => Skips
<1> SUFFICES ASSUME Init PROVE Skips OBVIOUS
<1>1. owner \in Consumers BY IngestionAssumption DEF Init
<1>2. cpc[owner] = "idle" /\ position = 0 /\ committed = 0 /\ used["parkFail"] = 0
  BY <1>1 DEF Init, Faults
<1>3. (1..0) \ handled = {} OBVIOUS
<1>4. Passed = 0 BY <1>2 DEF Passed
<1> QED BY <1>2, <1>3, <1>4, FS_EmptySet DEF Skips

LEMMA SkipTypes ==
    ASSUME Types, Skips
    PROVE  /\ owner \in Consumers /\ cpc \in [Consumers -> ConsumerPc] /\ at \in [Consumers -> 0..Len(log)]
           /\ Passed \in Nat /\ position \in Nat /\ committed \in Nat /\ Passed <= position
           /\ used["parkFail"] \in Nat
<1>1. /\ owner \in Consumers /\ cpc \in [Consumers -> ConsumerPc] /\ at \in [Consumers -> 0..Len(log)]
      /\ position \in 0..Len(log) /\ committed \in 0..Len(log) /\ Len(log) \in Nat
  BY DEF Types, BusTypes
<1>2. cpc[owner] # "idle" => at[owner] \in 1..Len(log) BY <1>1 DEF Types, BusTypes
<1>3. Passed \in Nat /\ Passed <= position BY <1>1, <1>2 DEF Skips, Passed
<1>4. used["parkFail"] \in Nat BY DEF Types, UsedTypes, Faults
<1> QED BY <1>1, <1>3, <1>4

\* Nothing about the passed offsets changes, but handlers of lost partitions may return.
LEMMA SkipsKept ==
    ASSUME Types, Skips, UNCHANGED <<committed, owner, Passed>>, cpc'[owner] # "idle" => at'[owner] = position',
           handled \subseteq handled', used'["parkFail"] \in Nat, used'["parkFail"] >= used["parkFail"]
    PROVE  Skips'
<1>1. (1..Passed') \ handled' \subseteq (1..Passed) \ handled OBVIOUS
<1>2. Cardinality((1..Passed') \ handled') <= Cardinality((1..Passed) \ handled)
      /\ Cardinality((1..Passed') \ handled') \in Nat /\ Cardinality((1..Passed) \ handled) \in Nat
  BY <1>1, SkipTypes, FewerSkipped, Zenon
<1> QED BY <1>2, SkipTypes DEF Skips

LEMMA SkipsHandler ==
    ASSUME Types, Types', Skips, NEW c \in Consumers, Handler(c)
    PROVE  Skips'
<1>0. /\ owner \in Consumers /\ cpc \in [Consumers -> ConsumerPc] /\ at \in [Consumers -> 0..Len(log)]
      /\ Passed \in Nat /\ position \in Nat /\ committed \in Nat /\ Passed <= position
      /\ used["parkFail"] \in Nat
  BY SkipTypes
<1>1. used'["parkFail"] \in Nat /\ used'["parkFail"] >= used["parkFail"]
  <2>1. "parkFail" \in Faults BY DEF Faults
  <2>2. UsedTypes' /\ [Next]_vars BY DEF Types, Handler, Next
  <2> QED BY <2>1, <2>2, UsedNext DEF Types, UsedTypes
<1>2. UNCHANGED <<log, owner>> BY HandlerFrame
<1>3. handled \subseteq handled'
  BY HandlerFrame DEF Commit
<1>4. CASE Fetch(c)
  <2>1. /\ cpc[c] = "idle" /\ owner = c /\ position' = position + 1 /\ UNCHANGED committed
        /\ at' = [at EXCEPT ![c] = position + 1] /\ cpc' = [cpc EXCEPT ![c] = "check"]
    BY <1>4 DEF Fetch
  <2>2. cpc'[owner] = "check" /\ at'[owner] = position' BY <1>0, <2>1
  <2>3. Passed' = Passed BY <1>0, <1>2, <2>1, <2>2 DEF Passed
  <2> QED BY <1>1, <1>2, <1>3, <2>1, <2>2, <2>3, SkipsKept
<1>5. ASSUME NEW p \in ConsumerPc, p # "idle", Pc(c, p), UNCHANGED <<position, committed>>, cpc[c] # "idle"
      PROVE  Skips'
  <2>1. cpc' = [cpc EXCEPT ![c] = p] /\ UNCHANGED at BY <1>5 DEF Pc
  <2>2. cpc'[owner] = "idle" <=> cpc[owner] = "idle" BY <1>0, <1>5, <2>1
  <2>3. Passed' = Passed BY <1>2, <1>5, <2>2 DEF Passed
  <2>4. cpc'[owner] # "idle" => at'[owner] = position' BY <1>5, <2>1, <2>2 DEF Skips
  <2> QED BY <1>1, <1>2, <1>3, <1>5, <2>3, <2>4, SkipsKept
<1>6. ASSUME Pc(c, "idle"), UNCHANGED <<position, committed>>, cpc[c] # "idle", owner # c
      PROVE  Skips'
  <2>1. cpc' = [cpc EXCEPT ![c] = "idle"] /\ UNCHANGED at BY <1>6 DEF Pc
  <2>2. cpc'[owner] = cpc[owner] BY <1>0, <1>6, <2>1
  <2>3. Passed' = Passed BY <1>2, <1>6, <2>2 DEF Passed
  <2>4. cpc'[owner] # "idle" => at'[owner] = position' BY <1>6, <2>1, <2>2 DEF Skips
  <2> QED BY <1>1, <1>2, <1>3, <1>6, <2>3, <2>4, SkipsKept
<1>7. ASSUME Pc(c, "idle"), UNCHANGED position, cpc[c] # "idle", owner = c
      PROVE  Passed' = position /\ Passed = position - 1 /\ at[c] = position /\ cpc'[owner'] = "idle"
  <2>1. cpc' = [cpc EXCEPT ![c] = "idle"] BY <1>7 DEF Pc
  <2>2. cpc'[owner'] = "idle" BY <1>0, <1>2, <1>7, <2>1
  <2> QED BY <1>2, <1>7, <2>2 DEF Passed, Skips
<1>a. /\ {"check", "find", "create", "register", "enrich", "write", "settle"} \subseteq ConsumerPc
      /\ {"idle", "park", "commit"} \subseteq ConsumerPc
  BY DEF ConsumerPc, EnginePc
<1>8. CASE check(c)
  <2>1. cpc[c] # "idle" /\ UNCHANGED <<committed, position>> BY <1>8 DEF check, kafka
  <2>2. CASE Pc(c, "commit") \/ Pc(c, "find") BY <1>5, <1>a, <2>1, <2>2
  <2>3. CASE UNCHANGED <<cpc, at>>
    <3>1. Passed' = Passed BY <1>2, <2>1, <2>3 DEF Passed
    <3> QED BY <1>1, <1>2, <1>3, <2>1, <2>3, <3>1, SkipsKept DEF Skips
  <2> QED BY <1>8, <2>2, <2>3 DEF check
<1>9. CASE FindRow(c)
  <2>1. cpc[c] # "idle" /\ UNCHANGED <<committed, position>> BY <1>9 DEF FindRow, kafka
  <2>2. Pc(c, "create") \/ Pc(c, "enrich") \/ Pc(c, "commit") BY <1>9 DEF FindRow
  <2> QED BY <1>5, <1>a, <2>1, <2>2
<1>10. CASE CreateRow(c)
  <2>1. cpc[c] # "idle" /\ UNCHANGED <<committed, position>> BY <1>10 DEF CreateRow, kafka
  <2>2. Pc(c, "register") \/ Pc(c, "park") BY <1>10 DEF CreateRow
  <2> QED BY <1>5, <1>a, <2>1, <2>2
<1>11. CASE register(c) BY <1>5, <1>a, <1>11 DEF register, kafka
<1>12. CASE EnrichCheck(c)
  <2>1. cpc[c] # "idle" /\ UNCHANGED <<committed, position>> BY <1>12 DEF EnrichCheck, kafka
  <2>2. Pc(c, "write") \/ Pc(c, "park") BY <1>12 DEF EnrichCheck
  <2> QED BY <1>5, <1>a, <2>1, <2>2
<1>13. CASE EnrichWrite(c) BY <1>5, <1>a, <1>13 DEF EnrichWrite, kafka
<1>14. CASE Settle(c) BY <1>5, <1>a, <1>14 DEF Settle, kafka
<1>15. CASE Park(c) BY <1>5, <1>a, <1>15 DEF Park, kafka
<1>16. CASE EngineThrows(c) BY <1>5, <1>a, <1>16 DEF EngineThrows, EnginePc, kafka
<1>17. CASE Commit(c)
  <2>1. /\ cpc[c] # "idle" /\ Pc(c, "idle") /\ UNCHANGED position
        /\ committed' = (IF owner = c THEN at[c] ELSE committed) /\ handled' = handled \cup {at[c]}
    BY <1>17 DEF Commit
  <2>2. CASE owner # c BY <1>6, <2>1, <2>2
  <2>3. CASE owner = c
    <3>1. Passed' = position /\ Passed = position - 1 /\ at[c] = position /\ cpc'[owner'] = "idle"
      BY <1>7, <2>1, <2>3
    <3>2. (1..Passed') \ handled' \subseteq (1..Passed) \ handled BY <1>0, <2>1, <3>1
    <3>3. Cardinality((1..Passed') \ handled') <= Cardinality((1..Passed) \ handled)
          /\ Cardinality((1..Passed') \ handled') \in Nat /\ Cardinality((1..Passed) \ handled) \in Nat
      BY <1>0, <3>2, FewerSkipped, Zenon
    <3>4. committed' <= Passed' BY <1>0, <2>1, <2>3, <3>1
    <3> QED BY <1>0, <1>1, <3>1, <3>3, <3>4 DEF Skips
  <2> QED BY <2>2, <2>3
<1>18. CASE ParkFails(c)
  <2>1. cpc[c] # "idle" /\ Pc(c, "idle") /\ UNCHANGED <<position, committed, handled>> /\ Spend("parkFail")
    BY <1>18 DEF ParkFails, kafka
  <2>2. CASE owner # c BY <1>6, <2>1, <2>2
  <2>3. CASE owner = c
    <3>1. Passed' = position /\ Passed = position - 1 /\ at[c] = position /\ cpc'[owner'] = "idle"
      BY <1>7, <2>1, <2>3
    <3>2. used'["parkFail"] = used["parkFail"] + 1
      BY <2>1, Spent DEF Types, Faults
    <3>3. Passed' = Passed + 1 BY <1>0, <3>1
    <3>4. Cardinality((1..Passed') \ handled') <= Cardinality((1..Passed) \ handled) + 1
          /\ Cardinality((1..Passed') \ handled') \in Nat /\ Cardinality((1..Passed) \ handled) \in Nat
      <4>1. (1..Passed') \ handled' = (1..(Passed + 1)) \ handled BY <2>1, <3>3
      <4>2. Cardinality((1..(Passed + 1)) \ handled) <= Cardinality((1..Passed) \ handled) + 1
        BY <1>0, OneMoreSkipped
      <4>3. Cardinality((1..Passed) \ handled) \in Nat BY <1>0, FewerSkipped, Zenon
      <4>4. Cardinality((1..(Passed + 1)) \ handled) \in Nat
        <5>1. Passed + 1 \in Nat BY <1>0
        <5> QED BY <5>1, FewerSkipped, Zenon
      <4> QED BY <4>1, <4>2, <4>3, <4>4
    <3>5. committed' <= Passed' BY <1>0, <2>1, <3>1 DEF Skips
    <3> QED BY <1>0, <3>1, <3>2, <3>4, <3>5 DEF Skips
  <2> QED BY <2>2, <2>3
<1> QED BY <1>4, <1>8, <1>9, <1>10, <1>11, <1>12, <1>13, <1>14, <1>15, <1>16, <1>17, <1>18
        DEF Handler, ConsumerStep

LEMMA SkipsMoved ==
    ASSUME Types, Types', Skips, NEW d \in Consumers, Moved(d)
    PROVE  Skips'
<1>0. /\ cpc \in [Consumers -> ConsumerPc] /\ Passed \in Nat /\ position \in Nat /\ committed \in Nat
      /\ used["parkFail"] \in Nat
  BY SkipTypes
<1>1. used'["parkFail"] \in Nat /\ used'["parkFail"] >= used["parkFail"]
  <2>1. "parkFail" \in Faults BY DEF Faults
  <2>2. UsedTypes' /\ [Next]_vars BY DEF Types, Moved, Next
  <2> QED BY <2>1, <2>2, UsedNext DEF Types, UsedTypes
<1>2. /\ UNCHANGED <<committed, at, handled>>
      /\ cpc' = cpc \/ \E c \in Consumers : cpc' = [cpc EXCEPT ![c] = "idle"]
      /\ \/ /\ owner' = d /\ position' = committed
            /\ cpc[d] = "idle" \/ cpc' = [cpc EXCEPT ![d] = "idle"]
         \/ UNCHANGED <<owner, position>> /\ cpc' = [cpc EXCEPT ![d] = "idle"] /\ owner # d
  BY MovedFrame
<1>3. CASE UNCHANGED <<owner, position>> /\ cpc' = [cpc EXCEPT ![d] = "idle"] /\ owner # d
  <2>1. owner \in Consumers /\ cpc'[owner'] = cpc[owner] BY <1>0, <1>3 DEF Types, BusTypes
  <2>2. Passed' = Passed BY <1>3, <2>1 DEF Passed
  <2> QED BY <1>1, <1>2, <1>3, <2>1, <2>2, SkipsKept DEF Skips
<1>4. CASE owner' = d /\ position' = committed /\ (cpc[d] = "idle" \/ cpc' = [cpc EXCEPT ![d] = "idle"])
  <2>1. cpc'[owner'] = "idle" BY <1>0, <1>2, <1>4
  <2>2. Passed' = committed BY <1>2, <1>4, <2>1 DEF Passed
  <2>3. (1..committed) \ handled \subseteq (1..Passed) \ handled BY <1>0 DEF Skips
  <2>4. Cardinality((1..committed) \ handled) <= Cardinality((1..Passed) \ handled)
        /\ Cardinality((1..committed) \ handled) \in Nat /\ Cardinality((1..Passed) \ handled) \in Nat
    BY <1>0, <2>3, FewerSkipped, Zenon
  <2> QED BY <1>0, <1>1, <1>2, <2>1, <2>2, <2>4 DEF Skips
<1> QED BY <1>2, <1>3, <1>4

LEMMA SkipsNext == Types /\ Types' /\ Skips /\ [Next]_vars => Skips'
<1> SUFFICES ASSUME Types, Types', Skips, [Next]_vars PROVE Skips' OBVIOUS
<1>1. "parkFail" \in Faults BY DEF Faults
<1>2. used'["parkFail"] \in Nat /\ used'["parkFail"] >= used["parkFail"]
  BY <1>1, UsedNext DEF Types, UsedTypes
<1>3. ASSUME UNCHANGED <<committed, owner, position, cpc, at, handled>> PROVE Skips'
  <2>1. Passed' = Passed BY <1>3 DEF Passed
  <2> QED BY <1>2, <1>3, <2>1, SkipsKept DEF Skips
<1>4. CASE \E r \in Requests : HttpStep(r) BY <1>3, <1>4, HttpFrame
<1>5. CASE NextBucket BY <1>3, <1>5 DEF NextBucket, kafka, thread
<1>6. CASE \E c \in Consumers : Handler(c) BY <1>6, SkipsHandler
<1>7. CASE \E d \in Consumers : Moved(d) BY <1>7, SkipsMoved
<1>8. CASE UNCHANGED vars BY <1>3, <1>8, Frozen
<1> QED BY <1>4, <1>5, <1>6, <1>7, <1>8, Steps

\* The committed offset never lies beyond more messages without a returned
\* handler than there were messages the DLQ topic refused, however often
\* replicas crash and the partition moves: KafkaService commits after the
\* handler, and only the owner's commit counts.
THEOREM OnlyUnparkedSkipped == Spec => []SkippedOnlyUnparked
<1>1. Types /\ Skips => SkippedOnlyUnparked
  <2> SUFFICES ASSUME Types, Skips PROVE SkippedOnlyUnparked OBVIOUS
  <2>1. Passed \in Nat /\ committed \in Nat /\ committed <= Passed /\ used["parkFail"] \in Nat
    BY SkipTypes DEF Skips
  <2>2. (1..committed) \ handled \subseteq (1..Passed) \ handled BY <2>1
  <2>3. Cardinality((1..committed) \ handled) <= Cardinality((1..Passed) \ handled)
        /\ Cardinality((1..committed) \ handled) \in Nat /\ Cardinality((1..Passed) \ handled) \in Nat
    BY <2>1, <2>2, FewerSkipped, Zenon
  <2> QED BY <2>1, <2>3 DEF Skips, SkippedOnlyUnparked
<1>2. Init => Skips BY SkipsInit
<1>3. Types /\ Types' /\ Skips /\ [Next]_vars => Skips' BY SkipsNext
<1> QED BY <1>1, <1>2, <1>3, TypesAlways, PTL DEF Spec

-----------------------------------------------------------------------------
(***************************************************************************)
(* A refusal holds nothing.  The invariant says what an event that is not  *)
(* on the bus may hold while its request is under way: its idempotency key *)
(* until the release loop is past it, and fingerprints of the bucket it    *)
(* was last fingerprinted in or earlier; once it was refused, only earlier *)
(* ones, which nobody looks up any more.                                   *)
(***************************************************************************)

KeySlot(r) == <<"idempotency", KeyOf[r]>>

MayHold(r, s) ==
    \/ /\ KeyOf[r] # None /\ s = KeySlot(r) /\ answer[r] # "unavailable"
       /\ hpc[r] \in {"release", "delete"} => hidx[r] = 1
    \/ \E b \in 0..hbucket[r] :
          s = generateEventFingerprint(r, b) /\ (answer[r] = "unavailable" => b < hbucket[r])

Marked(r) == hbucket[r] <= bucket /\ (answer[r] = "unavailable" => hpc[r] = "done")
HoldsOwn(r) == \A s \in Slots : redis[s] = r => hpc[r] # "idle" /\ MayHold(r, s)

Holding == \A r \in Requests : Marked(r) /\ (r \notin Published => HoldsOwn(r))

\* The two kinds of slot are told apart, and fingerprints by their bucket.
LEMMA SlotKinds ==
    ASSUME NEW r, NEW b, NEW d
    PROVE  /\ KeySlot(r) # generateEventFingerprint(r, b)
           /\ generateEventFingerprint(r, b) = generateEventFingerprint(r, d) => b = d
<1>1. KeySlot(r)[1] = "idempotency" /\ generateEventFingerprint(r, b)[1] = "dedup"
      /\ generateEventFingerprint(r, b)[3] = b /\ generateEventFingerprint(r, d)[3] = d
  BY DEF KeySlot, generateEventFingerprint
<1> QED BY <1>1

LEMMA SlotForm ==
    ASSUME Types, NEW r \in Requests
    PROVE  /\ LastSlot(r) => Slot(r) = generateEventFingerprint(r, hbucket[r])
           /\ LastSlot(r) => hidx[r] = Width(r)
           /\ ~LastSlot(r) => Slot(r) = KeySlot(r) /\ KeyOf[r] # None /\ hidx[r] = 1
<1>1. hidx[r] \in 1..2 /\ hidx[r] <= Width(r) BY SlotIsSlot
<1>2. CASE KeyOf[r] = None
  <2>1. Wanted(r, hbucket[r]) = <<generateEventFingerprint(r, hbucket[r])>> /\ Width(r) = 1
    BY <1>2 DEF Wanted, Width
  <2> QED BY <1>1, <2>1 DEF Slot, LastSlot
<1>3. CASE KeyOf[r] # None
  <2>1. Wanted(r, hbucket[r]) = <<KeySlot(r), generateEventFingerprint(r, hbucket[r])>> /\ Width(r) = 2
    BY <1>3 DEF Wanted, Width, KeySlot
  <2> QED BY <1>1, <1>3, <2>1 DEF Slot, LastSlot
<1> QED BY <1>2, <1>3

\* Requests do not touch each other's place, nor take a slot for another.
LEMMA HttpOthers ==
    ASSUME Types, NEW r \in Requests, HttpStep(r), NEW x \in Requests, x # r
    PROVE  hpc'[x] = hpc[x] /\ hidx'[x] = hidx[x] /\ hbucket'[x] = hbucket[x] /\ answer'[x] = answer[x]
<1>0. HttpTypes BY DEF Types
<1> USE DEF Http, Answer
<1>1. CASE Arrive(r) BY <1>0, <1>1 DEF Arrive, HttpTypes
<1>2. CASE claim(r) BY <1>0, <1>2 DEF claim, HttpTypes
<1>3. CASE ReadHolder(r) BY <1>0, <1>3 DEF ReadHolder, Conclude, HttpTypes
<1>4. CASE Untake(r)
  <2>1. Conclude(r, existing[r]) /\ UNCHANGED <<hidx, hbucket>> BY <1>4 DEF Untake
  <2> QED BY <1>0, <2>1 DEF Conclude, HttpTypes
<1>5. CASE release(r) BY <1>0, <1>5 DEF release, NextRelease, HttpTypes
<1>6. CASE ReleaseDelete(r)
  <2>1. NextRelease(r) /\ UNCHANGED <<hbucket>> BY <1>6 DEF ReleaseDelete
  <2> QED BY <1>0, <2>1 DEF NextRelease, HttpTypes
<1>7. CASE HandlerDies(r) BY <1>0, <1>7 DEF HandlerDies, HttpTypes
<1>8. CASE Publish(r) BY <1>0, <1>8 DEF Publish, HttpTypes
<1>9. CASE PublishFails(r) BY <1>0, <1>9 DEF PublishFails, HttpTypes
<1> QED BY <1>1, <1>2, <1>3, <1>4, <1>5, <1>6, <1>7, <1>8, <1>9 DEF HttpStep

LEMMA HttpTakes ==
    ASSUME Types, NEW r \in Requests, HttpStep(r), NEW s \in Slots
    PROVE  redis'[s] = redis[s] \/ redis'[s] = None \/ (claim(r) /\ s = Slot(r) /\ redis'[s] = r)
<1>0. redis \in [Slots -> Ids] BY DEF Types, HttpTypes
<1>1. CASE Arrive(r) BY <1>1 DEF Arrive
<1>2. CASE claim(r) BY <1>0, <1>2 DEF claim
<1>3. CASE ReadHolder(r) BY <1>3 DEF ReadHolder
<1>4. CASE Untake(r) BY <1>0, <1>4 DEF Untake
<1>5. CASE release(r) BY <1>5 DEF release
<1>6. CASE ReleaseDelete(r) BY <1>0, <1>6 DEF ReleaseDelete
<1>7. CASE HandlerDies(r) BY <1>7 DEF HandlerDies
<1>8. CASE Publish(r) BY <1>8 DEF Publish
<1>9. CASE PublishFails(r) BY <1>9 DEF PublishFails
<1> QED BY <1>1, <1>2, <1>3, <1>4, <1>5, <1>6, <1>7, <1>8, <1>9 DEF HttpStep

\* What is on the bus stays there.
LEMMA PublishedGrows ==
    ASSUME BusTypes, NEW r \in Requests, log' = log \/ log' = Append(log, r)
    PROVE  Published \subseteq Published'
  BY LogGrows DEF Published

\* A request's own step and what it holds.
LEMMA OwnStep ==
    ASSUME Types, Types', NEW r \in Requests, HttpStep(r), Marked(r), r \notin Published => HoldsOwn(r)
    PROVE  Marked(r)' /\ (r \notin Published' => HoldsOwn(r)')
<1>0. /\ hpc \in [Requests -> HttpPc] /\ hidx \in [Requests -> 1..2] /\ redis \in [Slots -> Ids]
      /\ hbucket \in [Requests -> 0..MaxBucket] /\ answer \in [Requests -> Answers] /\ bucket \in 0..MaxBucket
      /\ Slot(r) \in Slots /\ redis[Slot(r)] \in Ids /\ existing[r] \in Ids /\ MaxBucket \in Nat
  BY SlotIsSlot, IngestionAssumption DEF Types, HttpTypes
<1>a. "unavailable" \notin Ids /\ None # r /\ None \in Ids /\ hbucket[r] \in Nat /\ bucket \in Nat
      /\ "unavailable" # "died" /\ hbucket[r] <= bucket /\ (answer[r] = "unavailable" => hpc[r] = "done")
  BY <1>0, IngestionAssumption DEF Ids, Marked
<1>b. bucket' = bucket /\ (r \notin Published' => r \notin Published)
  BY HttpFrame, PublishedGrows DEF Types
\* Nothing new is taken, and the place only moves where the old slots may still be held.
<1>c. ASSUME hpc'[r] \notin {"idle", "release", "delete"}, hbucket'[r] = hbucket[r], answer'[r] # "unavailable",
             \A s \in Slots : redis'[s] = r => redis[s] = r
      PROVE  Marked(r)' /\ (r \notin Published' => HoldsOwn(r)')
  <2>1. Marked(r)' BY <1>a, <1>b, <1>c DEF Marked
  <2>2. ASSUME r \notin Published', NEW s \in Slots, redis'[s] = r PROVE hpc'[r] # "idle" /\ MayHold(r, s)'
    <3>1. MayHold(r, s) BY <1>b, <1>c, <2>2 DEF HoldsOwn
    <3> QED BY <1>c, <3>1 DEF MayHold, KeySlot, generateEventFingerprint
  <2> QED BY <2>1, <2>2 DEF HoldsOwn
<1>1. CASE Arrive(r)
  <2>1. /\ hpc[r] = "idle" /\ hpc'[r] = "claim" /\ hbucket'[r] = bucket /\ UNCHANGED <<redis, answer>>
    BY <1>0, <1>1 DEF Arrive, Http
  <2>2. Marked(r)' BY <1>a, <1>b, <2>1 DEF Marked
  <2>3. r \notin Published' => \A s \in Slots : redis'[s] # r BY <1>b, <2>1 DEF HoldsOwn
  <2> QED BY <2>2, <2>3 DEF HoldsOwn
<1>2. CASE claim(r)
  <2>1. /\ hpc[r] = "claim" /\ hpc'[r] \in {"claim", "holder", "publish"} /\ UNCHANGED <<hbucket, answer>>
    BY <1>0, <1>2 DEF claim, Http
  <2>2. CASE UNCHANGED redis BY <1>a, <1>c, <2>1, <2>2
  <2>3. CASE redis' = [redis EXCEPT ![Slot(r)] = r]
    <3>1. Marked(r)' BY <1>a, <1>b, <2>1 DEF Marked
    <3>2. ASSUME r \notin Published', NEW s \in Slots, redis'[s] = r PROVE hpc'[r] # "idle" /\ MayHold(r, s)'
      <4>1. CASE s = Slot(r)
        <5>1. (s = KeySlot(r) /\ KeyOf[r] # None) \/ s = generateEventFingerprint(r, hbucket[r])
          BY <4>1, SlotForm
        <5>2. hbucket[r] \in 0..hbucket[r] BY <1>a
        <5> QED BY <1>a, <2>1, <5>1, <5>2 DEF MayHold, KeySlot, generateEventFingerprint
      <4>2. CASE s # Slot(r)
        <5>1. MayHold(r, s) BY <1>0, <1>b, <2>3, <3>2, <4>2 DEF HoldsOwn
        <5> QED BY <2>1, <5>1 DEF MayHold, KeySlot, generateEventFingerprint
      <4> QED BY <4>1, <4>2
    <3> QED BY <3>1, <3>2 DEF HoldsOwn
  <2> QED BY <1>2, <2>2, <2>3 DEF claim
<1>d. ASSUME NEW h \in Ids, Conclude(r, h), hpc[r] # "done"
      PROVE  hpc'[r] \in {"publish", "done"} /\ answer'[r] # "unavailable"
  BY <1>0, <1>a, <1>d DEF Conclude, Answer, Http
<1>3. CASE ReadHolder(r)
  <2>1. hpc[r] = "holder" /\ UNCHANGED <<redis, hbucket>> BY <1>3 DEF ReadHolder
  <2>2. hpc'[r] \in {"untake", "publish", "done"} /\ answer'[r] # "unavailable"
    <3>1. CASE Conclude(r, redis[Slot(r)]) BY <1>0, <1>d, <2>1, <3>1
    <3>2. CASE Http(r, "untake") /\ UNCHANGED answer BY <1>0, <1>a, <2>1, <3>2 DEF Http
    <3> QED BY <1>3, <3>1, <3>2 DEF ReadHolder
  <2> QED BY <1>c, <2>1, <2>2
<1>4. CASE Untake(r)
  <2>1. hpc[r] = "untake" /\ UNCHANGED <<hbucket>> /\ Conclude(r, existing[r]) BY <1>4 DEF Untake
  <2>2. hpc'[r] \in {"publish", "done"} /\ answer'[r] # "unavailable" BY <1>0, <1>d, <2>1
  <2>3. \A s \in Slots : redis'[s] = r => redis[s] = r BY <1>a, <1>0, <1>4 DEF Untake
  <2> QED BY <1>c, <2>1, <2>2, <2>3
<1>5. CASE Publish(r)
  <2>1. hpc'[r] = "done" /\ UNCHANGED <<hbucket, redis>> /\ answer'[r] = r
    BY <1>0, <1>5 DEF Publish, Answer, Http
  <2>2. answer'[r] # "unavailable" BY <1>a, <2>1 DEF Ids
  <2> QED BY <1>c, <2>1, <2>2
<1>6. CASE HandlerDies(r)
  <2>1. hpc'[r] = "done" /\ UNCHANGED <<hbucket, redis>> /\ answer'[r] = "died"
    BY <1>0, <1>6 DEF HandlerDies, Answer, Http
  <2> QED BY <1>c, <2>1
<1>7. CASE PublishFails(r)
  <2>1. /\ hpc[r] = "publish" /\ hpc'[r] = "release" /\ hidx'[r] = 1 /\ hbucket'[r] = bucket
        /\ UNCHANGED <<redis, answer>>
    BY <1>0, <1>7 DEF PublishFails, Http
  <2>2. answer[r] # "unavailable" BY <1>a, <2>1
  <2>3. Marked(r)' BY <1>a, <1>b, <2>1, <2>2 DEF Marked
  <2>4. ASSUME r \notin Published', NEW s \in Slots, redis'[s] = r PROVE hpc'[r] # "idle" /\ MayHold(r, s)'
    <3>1. MayHold(r, s) BY <1>b, <2>1, <2>4 DEF HoldsOwn
    <3>2. \A b \in 0..hbucket[r] : b \in 0..hbucket'[r] BY <1>a, <2>1
    <3> QED BY <2>1, <2>2, <3>1, <3>2 DEF MayHold, KeySlot, generateEventFingerprint
  <2> QED BY <2>3, <2>4 DEF HoldsOwn
\* The release loop moves on from a slot it does not hold.
<1>8. ASSUME NextRelease(r), hpc[r] \in {"release", "delete"}, UNCHANGED hbucket, redis'[Slot(r)] # r,
             \A s \in Slots : redis'[s] = r => redis[s] = r
      PROVE  Marked(r)' /\ (r \notin Published' => HoldsOwn(r)')
  <2>1. ASSUME r \notin Published', NEW s \in Slots, redis'[s] = r PROVE MayHold(r, s) /\ s # Slot(r)
    BY <1>8, <1>b, <2>1 DEF HoldsOwn
  <2>2. CASE LastSlot(r)
    <3>1. hpc'[r] = "done" /\ answer'[r] = "unavailable"
      BY <1>0, <1>8, <2>2 DEF NextRelease, Answer, Http
    <3>2. Marked(r)' BY <1>a, <1>b, <1>8, <3>1 DEF Marked
    <3>3. ASSUME r \notin Published', NEW s \in Slots, redis'[s] = r PROVE hpc'[r] # "idle" /\ MayHold(r, s)'
      <4>1. MayHold(r, s) /\ s # generateEventFingerprint(r, hbucket[r])
        BY <2>1, <2>2, <3>3, SlotForm
      <4>2. ~(KeyOf[r] # None /\ s = KeySlot(r) /\ hidx[r] = 1)
        BY <2>2, SlotForm DEF Width
      <4>3. PICK b \in 0..hbucket[r] : s = generateEventFingerprint(r, b) /\ (answer[r] = "unavailable" => b < hbucket[r])
        BY <1>8, <4>1, <4>2 DEF MayHold
      <4>4. b < hbucket[r] BY <1>a, <4>1, <4>3
      <4>5. b \in 0..hbucket'[r] /\ b < hbucket'[r] BY <1>8, <4>4, <4>3
      <4> QED BY <3>1, <4>3, <4>5 DEF MayHold, generateEventFingerprint
    <3> QED BY <3>2, <3>3 DEF HoldsOwn
  <2>3. CASE ~LastSlot(r)
    <3>1. hpc'[r] = "release" /\ answer'[r] = answer[r] /\ Slot(r) = KeySlot(r) /\ answer[r] # "unavailable"
      BY <1>0, <1>a, <1>8, <2>3, SlotForm DEF NextRelease, Http
    <3>2. Marked(r)' BY <1>a, <1>b, <1>8, <3>1 DEF Marked
    <3>3. ASSUME r \notin Published', NEW s \in Slots, redis'[s] = r PROVE hpc'[r] # "idle" /\ MayHold(r, s)'
      <4>1. MayHold(r, s) /\ s # KeySlot(r) BY <2>1, <3>1, <3>3
      <4> QED BY <1>8, <3>1, <4>1 DEF MayHold, KeySlot, generateEventFingerprint
    <3> QED BY <3>2, <3>3 DEF HoldsOwn
  <2> QED BY <2>2, <2>3
<1>9. CASE release(r)
  <2>1. hpc[r] = "release" /\ UNCHANGED <<hbucket, redis>> BY <1>9 DEF release
  <2>2. CASE redis[Slot(r)] # r /\ NextRelease(r) BY <1>8, <2>1, <2>2
  <2>3. CASE Http(r, "delete") /\ UNCHANGED <<hidx, answer>>
    <3>1. hpc'[r] = "delete" BY <1>0, <2>3 DEF Http
    <3>2. Marked(r)' BY <1>a, <1>b, <2>1, <2>3 DEF Marked
    <3>3. ASSUME r \notin Published', NEW s \in Slots, redis'[s] = r PROVE hpc'[r] # "idle" /\ MayHold(r, s)'
      <4>1. MayHold(r, s) BY <1>b, <2>1, <3>3 DEF HoldsOwn
      <4> QED BY <2>1, <2>3, <3>1, <4>1 DEF MayHold, KeySlot, generateEventFingerprint
    <3> QED BY <3>2, <3>3 DEF HoldsOwn
  <2> QED BY <1>9, <2>2, <2>3 DEF release
<1>10. CASE ReleaseDelete(r)
  <2>1. hpc[r] = "delete" /\ UNCHANGED <<hbucket>> /\ NextRelease(r) /\ redis' = [redis EXCEPT ![Slot(r)] = None]
    BY <1>10 DEF ReleaseDelete
  <2>2. redis'[Slot(r)] # r /\ \A s \in Slots : redis'[s] = r => redis[s] = r BY <1>0, <1>a, <2>1
  <2> QED BY <1>8, <2>1, <2>2
<1> QED BY <1>1, <1>2, <1>3, <1>4, <1>5, <1>6, <1>7, <1>9, <1>10 DEF HttpStep

\* A step of another actor: it takes no slot in the request's name.
LEMMA OthersStep ==
    ASSUME Types, NEW x \in Requests, Marked(x), x \notin Published => HoldsOwn(x), bucket \in Nat, hbucket[x] \in Nat,
           hpc'[x] = hpc[x], hidx'[x] = hidx[x], hbucket'[x] = hbucket[x], answer'[x] = answer[x],
           bucket' = bucket \/ bucket' = bucket + 1,
           x \notin Published' => x \notin Published /\ \A s \in Slots : redis'[s] = x => redis[s] = x
    PROVE  Marked(x)' /\ (x \notin Published' => HoldsOwn(x)')
<1>1. Marked(x)' BY DEF Marked
<1>2. ASSUME x \notin Published', NEW s \in Slots, redis'[s] = x PROVE hpc'[x] # "idle" /\ MayHold(x, s)'
  <2>1. hpc[x] # "idle" /\ MayHold(x, s) BY <1>2 DEF HoldsOwn
  <2> QED BY <2>1 DEF MayHold, KeySlot, generateEventFingerprint
<1> QED BY <1>1, <1>2 DEF HoldsOwn

LEMMA HoldingNext == Types /\ Types' /\ Holding /\ [Next]_vars => Holding'
<1> SUFFICES ASSUME Types, Types', Holding, [Next]_vars, NEW x \in Requests
             PROVE  Marked(x)' /\ (x \notin Published' => HoldsOwn(x)')
  BY DEF Holding
<1>0. Marked(x) /\ (x \notin Published => HoldsOwn(x)) /\ bucket \in Nat /\ hbucket[x] \in Nat /\ x # None
  BY IngestionAssumption DEF Holding, Types, HttpTypes
<1>1. ASSUME NEW r \in Requests, HttpStep(r) PROVE Marked(x)' /\ (x \notin Published' => HoldsOwn(x)')
  <2>1. CASE x = r BY <1>0, <1>1, <2>1, OwnStep
  <2>2. CASE x # r
    <3>1. x \notin Published' => x \notin Published BY <1>1, HttpFrame, PublishedGrows DEF Types
    <3>2. \A s \in Slots : redis'[s] = x => redis[s] = x BY <1>0, <1>1, <2>2, HttpTakes
    <3>3. bucket' = bucket BY <1>1, HttpFrame
    <3> QED BY <1>0, <1>1, <2>2, <3>1, <3>2, <3>3, HttpOthers, OthersStep
  <2> QED BY <2>1, <2>2
<1>2. CASE NextBucket
  <2>1. UNCHANGED <<redis, hpc, hidx, hbucket, answer, log>> /\ bucket' = bucket + 1
    BY <1>2 DEF NextBucket, http, kafka
  <2>2. Published' = Published BY <2>1 DEF Published
  <2> QED BY <1>0, <2>1, <2>2, OthersStep
<1>3. ASSUME NEW c \in Consumers, Handler(c) PROVE Marked(x)' /\ (x \notin Published' => HoldsOwn(x)')
  <2>1. UNCHANGED <<bucket, hpc, hidx, hbucket, answer, log>> /\ (UNCHANGED redis \/ register(c))
    BY <1>3, HandlerFrame
  <2>2. Published' = Published BY <2>1 DEF Published
  <2>3. x \notin Published => \A s \in Slots : redis'[s] = x => redis[s] = x
    <3>1. CASE UNCHANGED redis BY <3>1
    <3>2. CASE register(c)
      <4>1. at[c] \in 1..Len(log) BY <3>2, InHand DEF register
      <4>2. Message(c) \in Published BY <4>1 DEF Published, Message
      <4> QED BY <3>2, <4>2 DEF register
    <3> QED BY <2>1, <3>1, <3>2
  <2> QED BY <1>0, <2>1, <2>2, <2>3, OthersStep
<1>4. ASSUME NEW d \in Consumers, Moved(d) PROVE Marked(x)' /\ (x \notin Published' => HoldsOwn(x)')
  <2>1. UNCHANGED <<redis, bucket, hpc, hidx, hbucket, answer, log>> BY <1>4, MovedFrame
  <2>2. Published' = Published BY <2>1 DEF Published
  <2> QED BY <1>0, <2>1, <2>2, OthersStep
<1>5. CASE UNCHANGED vars
  <2>1. UNCHANGED <<redis, bucket, hpc, hidx, hbucket, answer, log>> BY <1>5, Frozen
  <2>2. Published' = Published BY <2>1 DEF Published
  <2> QED BY <1>0, <2>1, <2>2, OthersStep
<1> QED BY <1>1, <1>2, <1>3, <1>4, <1>5, Steps

LEMMA HoldingInit == Init => Holding
<1> SUFFICES ASSUME Init PROVE Holding OBVIOUS
<1>1. \A r \in Requests : r # None /\ None # "unavailable" BY IngestionAssumption DEF Ids
<1>2. ASSUME NEW r \in Requests PROVE Marked(r) /\ HoldsOwn(r) BY <1>1 DEF Init, Marked, HoldsOwn
<1> QED BY <1>2 DEF Holding

\* An event refused with 503 that is not on the bus holds no key a later
\* request would be compared with, whatever fails and whoever else claims or
\* releases meanwhile: what DeduplicationService.release is there for.
THEOREM RefusalHoldsNothing == Spec => []RefusedHoldsNothing
<1>1. Types /\ Holding => RefusedHoldsNothing
  <2> SUFFICES ASSUME Types, Holding, NEW r \in Requests, answer[r] = "unavailable", r \notin Published,
                      NEW i \in 1..Len(Wanted(r, bucket)), redis[Wanted(r, bucket)[i]] = r
               PROVE  FALSE
    BY DEF RefusedHoldsNothing
  <2>1. bucket \in 0..MaxBucket /\ hbucket[r] \in Nat /\ bucket \in Nat /\ hbucket[r] <= bucket
    BY IngestionAssumption DEF Types, HttpTypes, Holding, Marked
  <2> DEFINE s == Wanted(r, bucket)[i]
  <2>2. s \in Slots BY <2>1, WantedSlots
  <2>3. s = KeySlot(r) \/ s = generateEventFingerprint(r, bucket)
    <3>1. CASE KeyOf[r] = None
      <4>1. Wanted(r, bucket) = <<generateEventFingerprint(r, bucket)>> BY <3>1 DEF Wanted
      <4> QED BY <4>1
    <3>2. CASE KeyOf[r] # None
      <4>1. Wanted(r, bucket) = <<KeySlot(r), generateEventFingerprint(r, bucket)>> BY <3>2 DEF Wanted, KeySlot
      <4> QED BY <4>1
    <3> QED BY <3>1, <3>2
  <2>4. MayHold(r, s) BY <2>2 DEF Holding, HoldsOwn
  <2> HIDE DEF s
  <2>5. PICK b \in 0..hbucket[r] : s = generateEventFingerprint(r, b) /\ b < hbucket[r] BY <2>4 DEF MayHold
  <2>6. b # bucket BY <2>1, <2>5
  <2> QED BY <2>3, <2>5, <2>6, SlotKinds
<1>2. Init => Holding BY HoldingInit
<1>3. Types /\ Types' /\ Holding /\ [Next]_vars => Holding' BY HoldingNext
<1> QED BY <1>1, <1>2, <1>3, TypesAlways, PTL DEF Spec

-----------------------------------------------------------------------------
(***************************************************************************)
(* One notification per key and per fingerprint.  While every publish is   *)
(* acknowledged and no rebalance overtakes a handler, at most one request  *)
(* has taken an idempotency key and not given it back, and at most one has *)
(* taken the fingerprint of a bucket; both slots stay taken.  What was     *)
(* published with its claim is one of these; the rest is Unclaimed.  And   *)
(* only the partition's owner is under way, so a row is settled once.      *)
(***************************************************************************)

Calm == used["lostAck"] + used["refused"] + used["rebalance"] = 0

LEMMA CalmKept ==
    ASSUME UsedTypes, [Next]_vars, Calm'
    PROVE  Calm /\ ~Spend("lostAck") /\ ~Spend("refused") /\ ~Spend("rebalance")
<1>1. "lostAck" \in Faults /\ "refused" \in Faults /\ "rebalance" \in Faults BY DEF Faults
<1>2. UsedTypes' /\ \A f \in Faults : used'[f] >= used[f] BY UsedNext
<1>3. /\ used["lostAck"] \in Nat /\ used["refused"] \in Nat /\ used["rebalance"] \in Nat
      /\ used'["lostAck"] \in Nat /\ used'["refused"] \in Nat /\ used'["rebalance"] \in Nat
      /\ used'["lostAck"] >= used["lostAck"] /\ used'["refused"] >= used["refused"]
      /\ used'["rebalance"] >= used["rebalance"]
  BY <1>1, <1>2 DEF UsedTypes
<1>4. Calm
  <2>a. used'["lostAck"] + used'["refused"] + used'["rebalance"] = 0 BY DEF Calm
  <2>b. \A a, b, c \in Nat : a + b + c = 0 => a = 0 /\ b = 0 /\ c = 0 OBVIOUS
  <2>1. used'["lostAck"] = 0 /\ used'["refused"] = 0 /\ used'["rebalance"] = 0 BY <1>3, <2>a, <2>b, Zenon
  <2>2. used["lostAck"] = 0 /\ used["refused"] = 0 /\ used["rebalance"] = 0 BY <1>3, <2>1
  <2> QED BY <2>2 DEF Calm
<1>5. ASSUME NEW f \in {"lostAck", "refused", "rebalance"}, Spend(f) PROVE FALSE
  <2>1. f \in Faults BY <1>1
  <2>2. used'[f] = used[f] + 1 BY <1>5, <2>1, Spent
  <2> QED BY <1>3, <2>2 DEF Calm
<1> QED BY <1>4, <1>5

\* The consumer's half.
Sole ==
    /\ \A c \in Consumers : cpc[c] # "idle" => c = owner
    /\ \A c \in Consumers : cpc[c] \in {"write", "settle"} => row[Message(c)] # "settled"
    /\ \A r \in Requests : /\ dispatched[r] <= 1 /\ (row[r] # "settled" => dispatched[r] = 0)
                           /\ dispatched[r] > 0 => r \in Published

\* The request's half: who has taken, and not given back, its key, and who the
\* fingerprint it was last given.
PrintSlot(r) == generateEventFingerprint(r, hbucket[r])
HasKey(r) == KeyOf[r] # None /\ hidx[r] = 2 /\ (hpc[r] = "done" => r \in Published)
HasPrint(r) == hidx[r] = Width(r) /\ (hpc[r] = "publish" \/ r \in Published)

Place(r) ==
    /\ hpc[r] \notin {"release", "delete"}
    /\ r \in Published => hpc[r] = "done"
    /\ hpc[r] = "idle" => hidx[r] = 1
    /\ hpc[r] = "untake" => hidx[r] = 2 /\ existing[r] # None
    /\ hpc[r] = "holder" /\ hidx[r] = Width(r) => redis[PrintSlot(r)] # None

Claims ==
    /\ \A r \in Requests : Place(r)
    /\ \A r \in Requests : HasKey(r) => redis[KeySlot(r)] # None
    /\ \A r \in Requests : HasPrint(r) => redis[PrintSlot(r)] # None
    /\ \A r, x \in Requests : HasKey(r) /\ HasKey(x) /\ KeyOf[r] = KeyOf[x] => r = x
    /\ \A r, x \in Requests :
          HasPrint(r) /\ HasPrint(x) /\ EntityOf[r] = EntityOf[x] /\ hbucket[r] = hbucket[x] => r = x

LEMMA SlotsOf ==
    ASSUME Types, NEW r \in Requests
    PROVE  PrintSlot(r) \in Slots /\ (KeyOf[r] # None => KeySlot(r) \in Slots)
<1>1. hbucket[r] \in 0..MaxBucket BY DEF Types, HttpTypes
<1> QED BY <1>1 DEF PrintSlot, KeySlot, generateEventFingerprint, Slots, Entities, Keys

\* Equal slots come from equal keys, and from equal entities and buckets.
LEMMA SlotsApart ==
    ASSUME NEW r, NEW x
    PROVE  /\ KeySlot(r) # PrintSlot(x)
           /\ KeySlot(r) = KeySlot(x) <=> KeyOf[r] = KeyOf[x]
           /\ PrintSlot(r) = PrintSlot(x) <=> EntityOf[r] = EntityOf[x] /\ hbucket[r] = hbucket[x]
<1>1. KeySlot(r)[1] = "idempotency" /\ PrintSlot(x)[1] = "dedup" BY DEF KeySlot, PrintSlot, generateEventFingerprint
<1>2. KeySlot(r)[2] = KeyOf[r] /\ KeySlot(x)[2] = KeyOf[x] BY DEF KeySlot
<1>3. PrintSlot(r)[2] = EntityOf[r] /\ PrintSlot(r)[3] = hbucket[r] /\ PrintSlot(x)[2] = EntityOf[x] /\ PrintSlot(x)[3] = hbucket[x]
  BY DEF PrintSlot, generateEventFingerprint
<1>4. KeyOf[r] = KeyOf[x] => KeySlot(r) = KeySlot(x) BY DEF KeySlot
<1>5. EntityOf[r] = EntityOf[x] /\ hbucket[r] = hbucket[x] => PrintSlot(r) = PrintSlot(x)
  BY DEF PrintSlot, generateEventFingerprint
<1> QED BY <1>1, <1>2, <1>3, <1>4, <1>5

\* What a request's step does to the slots that are taken, and what it takes.
Keeps(r) ==
    /\ \A s \in Slots : redis[s] # None => redis'[s] # None \/ (s = KeySlot(r) /\ HasKey(r) /\ ~HasKey(r)')
    /\ Place(r)'
    /\ HasKey(r)' => redis'[KeySlot(r)] # None /\ (HasKey(r) \/ redis[KeySlot(r)] = None)
    /\ HasPrint(r)' => hbucket'[r] = hbucket[r] /\ redis'[PrintSlot(r)] # None
                       /\ (HasPrint(r) \/ redis[PrintSlot(r)] = None)

LEMMA PublishedStep ==
    ASSUME BusTypes, NEW r \in Requests
    PROVE  /\ log' = log => Published' = Published
           /\ log' = Append(log, r) => Published' = Published \cup {r}
<1>1. log' = log => Published' = Published BY DEF Published
<1>2. ASSUME log' = Append(log, r) PROVE Published' = Published \cup {r}
  <2>1. Len(log') = Len(log) + 1 /\ Len(log) \in Nat /\ log'[Len(log) + 1] = r BY <1>2 DEF BusTypes
  <2>2. \A i \in 1..Len(log) : log'[i] = log[i] BY <1>2, LogGrows
  <2>3. \A i \in 1..Len(log') : i \in 1..Len(log) \/ i = Len(log) + 1 BY <2>1
  <2>4. Len(log) + 1 \in 1..Len(log') /\ \A i \in 1..Len(log) : i \in 1..Len(log') BY <2>1
  <2>5. Published' \subseteq Published \cup {r} BY <2>1, <2>2, <2>3 DEF Published
  <2>6. Published \cup {r} \subseteq Published'
    <3>1. r \in Published' BY <2>1, <2>4, Zenon DEF Published
    <3>2. Published \subseteq Published' BY <2>2, <2>4 DEF Published
    <3> QED BY <3>1, <3>2
  <2> QED BY <2>5, <2>6
<1> QED BY <1>1, <1>2

LEMMA KeepsClaims ==
    ASSUME Types, Types', Claims, NEW r \in Requests, Calm', HttpStep(r), Keeps(r)
    PROVE  Claims'
<1>1. ASSUME NEW x \in Requests, x # r
      PROVE  /\ hpc'[x] = hpc[x] /\ hidx'[x] = hidx[x] /\ hbucket'[x] = hbucket[x] /\ existing'[x] = existing[x]
             /\ x \in Published' <=> x \in Published
  <2>1. existing'[x] = existing[x]
    <3>1. existing' = existing \/ \E h \in Ids : existing' = [existing EXCEPT ![r] = h]
      <4>1. CASE ReadHolder(r) BY <4>1, SlotIsSlot DEF ReadHolder
      <4>2. CASE ~ReadHolder(r)
        BY <4>2 DEF HttpStep, Arrive, claim, Untake, Publish, PublishFails, release, ReleaseDelete, HandlerDies
      <4> QED BY <4>1, <4>2
    <3> QED BY <1>1, <3>1 DEF Types, HttpTypes
  <2>2. x \in Published' <=> x \in Published BY <1>1, HttpFrame, PublishedStep DEF Types
  <2> QED BY <1>1, <2>1, <2>2, HttpOthers
<1>2. ASSUME NEW x \in Requests, x # r
      PROVE  (HasKey(x)' <=> HasKey(x)) /\ (HasPrint(x)' <=> HasPrint(x)) /\ PrintSlot(x)' = PrintSlot(x)
  BY <1>1, <1>2 DEF HasKey, HasPrint, PrintSlot, Width, generateEventFingerprint
<1>3. ASSUME NEW x \in Requests PROVE redis[PrintSlot(x)] # None => redis'[PrintSlot(x)] # None
  BY SlotsOf, SlotsApart DEF Keeps
<1>4. ASSUME NEW x \in Requests, x # r, HasKey(x) PROVE redis'[KeySlot(x)] # None
  <2>1. KeySlot(x) \in Slots /\ redis[KeySlot(x)] # None BY <1>4, SlotsOf DEF HasKey, Claims
  <2>2. ~(KeySlot(x) = KeySlot(r) /\ HasKey(r)) BY <1>4, SlotsApart DEF Claims
  <2> QED BY <2>1, <2>2 DEF Keeps
<1>5. ASSUME NEW x \in Requests PROVE Place(x)'
  <2>1. CASE x = r BY <2>1 DEF Keeps
  <2>2. CASE x # r
    <3>1. Place(x) BY DEF Claims
    <3> QED BY <1>1, <1>2, <1>3, <2>2, <3>1 DEF Place, Width
  <2> QED BY <2>1, <2>2
<1>6. ASSUME NEW x \in Requests, HasKey(x)' PROVE redis'[KeySlot(x)] # None
  BY <1>2, <1>4, <1>6 DEF Keeps
<1>7. ASSUME NEW x \in Requests, HasPrint(x)' PROVE redis'[PrintSlot(x)'] # None
  <2>1. CASE x = r
    <3>1. PrintSlot(r)' = PrintSlot(r) BY <1>7, <2>1 DEF Keeps, PrintSlot, generateEventFingerprint
    <3> QED BY <1>7, <2>1, <3>1 DEF Keeps
  <2>2. CASE x # r BY <1>2, <1>3, <1>7, <2>2 DEF Claims
  <2> QED BY <2>1, <2>2
<1>8. ASSUME NEW x \in Requests, x # r, HasKey(x)', HasKey(r)', KeyOf[x] = KeyOf[r] PROVE FALSE
  <2>1. HasKey(x) /\ redis[KeySlot(x)] # None BY <1>2, <1>8 DEF Claims
  <2>2. HasKey(r) BY <1>8, <2>1, SlotsApart DEF Keeps
  <2> QED BY <1>8, <2>1, <2>2 DEF Claims
<1>9. ASSUME NEW x \in Requests, x # r, HasPrint(x)', HasPrint(r)', EntityOf[x] = EntityOf[r], hbucket'[x] = hbucket'[r]
      PROVE  FALSE
  <2>1. HasPrint(x) /\ redis[PrintSlot(x)] # None /\ hbucket[x] = hbucket[r] BY <1>1, <1>2, <1>9 DEF Claims, Keeps
  <2>2. HasPrint(r) BY <1>9, <2>1, SlotsApart DEF Keeps
  <2> QED BY <1>9, <2>1, <2>2 DEF Claims
<1>10. ASSUME NEW q \in Requests, NEW x \in Requests, HasKey(q)', HasKey(x)', KeyOf[q] = KeyOf[x] PROVE q = x
  <2>1. CASE q = r \/ x = r BY <1>8, <1>10, <2>1
  <2>2. CASE q # r /\ x # r BY <1>2, <1>10, <2>2 DEF Claims
  <2> QED BY <2>1, <2>2
<1>11. ASSUME NEW q \in Requests, NEW x \in Requests, HasPrint(q)', HasPrint(x)', EntityOf[q] = EntityOf[x],
              hbucket'[q] = hbucket'[x]
       PROVE  q = x
  <2>1. CASE q = r \/ x = r BY <1>9, <1>11, <2>1
  <2>2. CASE q # r /\ x # r BY <1>1, <1>2, <1>11, <2>2 DEF Claims
  <2> QED BY <2>1, <2>2
<1>a. \A x \in Requests : KeySlot(x)' = KeySlot(x) BY DEF KeySlot
<1> QED BY <1>5, <1>6, <1>7, <1>10, <1>11, <1>a DEF Claims

\* A request's own step, with every publish acknowledged.
LEMMA OwnKeeps ==
    ASSUME Types, Types', Claims, NEW r \in Requests, Calm', HttpStep(r)
    PROVE  Keeps(r)
<1>0. /\ hpc \in [Requests -> HttpPc] /\ hidx \in [Requests -> 1..2] /\ redis \in [Slots -> Ids]
      /\ existing \in [Requests -> Ids] /\ r # None
      /\ Slot(r) \in Slots /\ redis[Slot(r)] \in Ids /\ hidx[r] \in 1..2 /\ hidx[r] <= Width(r) /\ Width(r) \in 1..2
      /\ PrintSlot(r) \in Slots /\ (KeyOf[r] # None => KeySlot(r) \in Slots)
  BY SlotIsSlot, SlotsOf, IngestionAssumption DEF Types, HttpTypes
<1>a. /\ LastSlot(r) <=> hidx[r] = Width(r)
      /\ LastSlot(r) => Slot(r) = PrintSlot(r)
      /\ ~LastSlot(r) => Slot(r) = KeySlot(r) /\ KeyOf[r] # None /\ hidx[r] = 1
  BY SlotForm, SlotIsSlot DEF PrintSlot
<1>b. Place(r) /\ (HasKey(r) => redis[KeySlot(r)] # None) /\ (HasPrint(r) => redis[PrintSlot(r)] # None)
  BY DEF Claims
<1>c. ~PublishFails(r)
  <2>1. UsedTypes /\ [Next]_vars BY DEF Types, Next
  <2> QED BY <2>1, CalmKept DEF PublishFails
<1>d. ~release(r) /\ ~ReleaseDelete(r) BY <1>b DEF Place, release, ReleaseDelete
<1>e. hidx[r] = 2 => Width(r) = 2 /\ KeyOf[r] # None BY <1>0 DEF Width
\* Nothing is given back or taken.
<1>f. ASSUME UNCHANGED <<redis, hidx, hbucket>>, Place(r)', HasKey(r)' => HasKey(r), HasPrint(r)' => HasPrint(r)
      PROVE  Keeps(r)
  BY <1>b, <1>f DEF Keeps
<1>1. CASE Arrive(r)
  <2>1. /\ hpc[r] = "idle" /\ hpc'[r] = "claim" /\ UNCHANGED <<redis, hidx, log>>
    BY <1>0, <1>1 DEF Arrive, Http, kafka
  <2>2. Published' = Published /\ r \notin Published /\ hidx'[r] = 1 BY <1>b, <2>1 DEF Published, Place
  <2>3. ~HasKey(r)' /\ ~HasPrint(r)' BY <2>1, <2>2 DEF HasKey, HasPrint
  <2>4. Place(r)' BY <2>1, <2>2 DEF Place
  <2> QED BY <2>1, <2>3, <2>4 DEF Keeps
<1>2. CASE claim(r)
  <2>1. /\ hpc[r] = "claim" /\ UNCHANGED <<hbucket, existing, log>>
    BY <1>2 DEF claim, kafka
  <2>2. Published' = Published /\ r \notin Published BY <1>b, <2>1 DEF Published, Place
  <2>3. CASE redis[Slot(r)] # None
    <3>1. hpc'[r] = "holder" /\ UNCHANGED <<redis, hidx>> BY <1>0, <1>2, <2>3 DEF claim, Http
    <3>2. Place(r)'
      <4>1. hidx[r] = Width(r) => redis[PrintSlot(r)] # None BY <1>a, <2>3
      <4> QED BY <2>1, <2>2, <3>1, <4>1 DEF Place, PrintSlot, Width, generateEventFingerprint
    <3>3. (HasKey(r)' => HasKey(r)) /\ ~HasPrint(r)' BY <2>1, <2>2, <3>1 DEF HasKey, HasPrint
    <3> QED BY <1>f, <2>1, <3>1, <3>2, <3>3
  <2>4. CASE redis[Slot(r)] = None /\ LastSlot(r)
    <3>1. /\ hpc'[r] = "publish" /\ hidx' = hidx /\ redis' = [redis EXCEPT ![PrintSlot(r)] = r]
      BY <1>0, <1>2, <1>a, <2>4 DEF claim, Http
    <3>2. Place(r)' BY <2>2, <3>1 DEF Place
    <3>3. \A s \in Slots : redis[s] # None => redis'[s] # None BY <1>0, <3>1
    <3>4. HasKey(r)' => HasKey(r) BY <2>1, <2>2, <3>1 DEF HasKey
    <3>5. HasKey(r) => KeySlot(r) \in Slots BY <1>0 DEF HasKey
    <3>6. redis'[PrintSlot(r)] # None BY <1>0, <3>1
    <3> QED BY <1>a, <1>b, <2>1, <2>4, <3>2, <3>3, <3>4, <3>5, <3>6 DEF Keeps
  <2>5. CASE redis[Slot(r)] = None /\ ~LastSlot(r)
    <3>1. /\ hpc'[r] = "claim" /\ hidx'[r] = 2 /\ redis' = [redis EXCEPT ![KeySlot(r)] = r]
      BY <1>0, <1>2, <1>a, <2>1, <2>5 DEF claim
    <3>2. Place(r)' BY <2>2, <3>1 DEF Place
    <3>3. \A s \in Slots : redis[s] # None => redis'[s] # None BY <1>0, <3>1
    <3>4. redis'[KeySlot(r)] # None /\ redis[KeySlot(r)] = None BY <1>0, <1>a, <2>5, <3>1
    <3>5. ~HasPrint(r)' BY <2>2, <3>1 DEF HasPrint
    <3> QED BY <3>2, <3>3, <3>4, <3>5 DEF Keeps
  <2> QED BY <2>3, <2>4, <2>5
<1>3. CASE ReadHolder(r)
  <2>1. /\ hpc[r] = "holder" /\ UNCHANGED <<redis, hidx, hbucket, log>> /\ existing'[r] = redis[Slot(r)]
    BY <1>0, <1>3 DEF ReadHolder, kafka
  <2>2. Published' = Published /\ r \notin Published BY <1>b, <2>1 DEF Published, Place
  <2>3. hidx[r] = Width(r) => redis[Slot(r)] # None BY <1>a, <1>b, <2>1 DEF Place
  <2>4. CASE hidx[r] > 1
    <3>1. hpc'[r] = "untake" BY <1>0, <1>3, <2>4 DEF ReadHolder, Http
    <3>2. hidx[r] = 2 BY <1>0, <2>4
    <3>3. redis[Slot(r)] # None BY <1>e, <2>3, <3>2
    <3>4. Place(r)' BY <2>1, <2>2, <3>1, <3>2, <3>3 DEF Place
    <3>5. (HasKey(r)' => HasKey(r)) /\ ~HasPrint(r)' BY <2>1, <2>2, <3>1 DEF HasKey, HasPrint
    <3> QED BY <1>f, <2>1, <3>4, <3>5
  <2>5. CASE ~(hidx[r] > 1)
    <3>1. hidx[r] = 1 BY <1>0, <2>5
    <3>2. ~HasKey(r)' BY <2>1, <3>1 DEF HasKey
    <3>3. CASE redis[Slot(r)] = None
      <4>1. hpc'[r] = "publish" BY <1>0, <1>3, <2>5, <3>3 DEF ReadHolder, Conclude, Http
      <4>2. ~HasPrint(r)' BY <2>1, <2>2, <2>3, <3>3 DEF HasPrint, Width
      <4>3. Place(r)' BY <2>1, <2>2, <4>1 DEF Place
      <4> QED BY <1>f, <2>1, <3>2, <4>2, <4>3
    <3>4. CASE redis[Slot(r)] # None
      <4>1. hpc'[r] = "done" BY <1>0, <1>3, <2>5, <3>4 DEF ReadHolder, Conclude, Answer, Http
      <4>2. ~HasPrint(r)' BY <2>2, <4>1 DEF HasPrint
      <4>3. Place(r)' BY <2>2, <4>1 DEF Place
      <4> QED BY <1>f, <2>1, <3>2, <4>2, <4>3
    <3> QED BY <3>3, <3>4
  <2> QED BY <2>4, <2>5
<1>4. CASE Untake(r)
  <2>1. /\ hpc[r] = "untake" /\ UNCHANGED <<hidx, hbucket, existing, log>> /\ Conclude(r, existing[r])
        /\ redis' = [s \in Slots |-> IF s \in {Wanted(r, hbucket[r])[i] : i \in 1..(hidx[r] - 1)} THEN None ELSE redis[s]]
    BY <1>4 DEF Untake, kafka
  <2>2. Published' = Published /\ r \notin Published /\ hidx[r] = 2 /\ existing[r] # None
    BY <1>b, <2>1 DEF Published, Place
  <2>3. hpc'[r] = "done" BY <1>0, <2>1, <2>2 DEF Conclude, Answer, Http
  <2>4. \A i \in 1..(hidx[r] - 1) : Wanted(r, hbucket[r])[i] = KeySlot(r)
    BY <1>e, <2>2 DEF Wanted, KeySlot
  <2>5. \A s \in Slots : s # KeySlot(r) => redis'[s] = redis[s] BY <2>1, <2>4
  <2>6. HasKey(r) /\ ~HasKey(r)' /\ ~HasPrint(r)' BY <1>e, <2>1, <2>2, <2>3 DEF HasKey, HasPrint
  <2>7. Place(r)' BY <2>2, <2>3 DEF Place
  <2> QED BY <2>5, <2>6, <2>7 DEF Keeps
<1>5. CASE Publish(r)
  <2>1. hpc[r] = "publish" /\ hpc'[r] = "done" /\ UNCHANGED <<redis, hidx, hbucket>>
    BY <1>0, <1>5 DEF Publish, Answer, Http
  <2>2. Place(r)' BY <2>1 DEF Place
  <2>3. (HasKey(r)' => HasKey(r)) /\ (HasPrint(r)' => HasPrint(r)) BY <2>1 DEF HasKey, HasPrint, Width
  <2> QED BY <1>f, <2>1, <2>2, <2>3
<1>6. CASE HandlerDies(r)
  <2>1. hpc[r] # "done" /\ hpc'[r] = "done" /\ UNCHANGED <<redis, hidx, hbucket, log>>
    BY <1>0, <1>6 DEF HandlerDies, Answer, Http, kafka
  <2>2. Published' = Published /\ r \notin Published BY <1>b, <2>1 DEF Published, Place
  <2>3. Place(r)' BY <2>1 DEF Place
  <2>4. ~HasKey(r)' /\ ~HasPrint(r)' BY <2>1, <2>2 DEF HasKey, HasPrint
  <2> QED BY <1>f, <2>1, <2>3, <2>4
<1> QED BY <1>1, <1>2, <1>3, <1>4, <1>5, <1>6, <1>c, <1>d DEF HttpStep

LEMMA ClaimsNext ==
    ASSUME Types, Types', Calm => Claims, [Next]_vars, Calm'
    PROVE  Claims'
<1>0. Calm /\ Claims BY CalmKept DEF Types
<1>1. ASSUME UNCHANGED <<hpc, hidx, hbucket, existing, log>>,
             \A s \in Slots : redis[s] # None => redis'[s] # None
      PROVE  Claims'
  <2>1. Published' = Published BY <1>1 DEF Published
  <2>2. ASSUME NEW x \in Requests
        PROVE  /\ (HasKey(x)' <=> HasKey(x)) /\ (HasPrint(x)' <=> HasPrint(x)) /\ PrintSlot(x)' = PrintSlot(x)
               /\ KeySlot(x)' = KeySlot(x)
    BY <1>1, <2>1 DEF HasKey, HasPrint, PrintSlot, Width, generateEventFingerprint, KeySlot
  <2>3. ASSUME NEW x \in Requests PROVE redis[PrintSlot(x)] # None => redis'[PrintSlot(x)] # None
    BY <1>1, SlotsOf
  <2>4. ASSUME NEW x \in Requests, HasKey(x) PROVE redis'[KeySlot(x)] # None
    BY <1>0, <1>1, <2>4, SlotsOf DEF Claims, HasKey
  <2>5. ASSUME NEW x \in Requests PROVE Place(x)'
    <3>1. Place(x) BY <1>0 DEF Claims
    <3> QED BY <1>1, <2>1, <2>2, <2>3, <3>1 DEF Place, Width
  <2> QED BY <1>0, <1>1, <2>2, <2>3, <2>4, <2>5 DEF Claims
<1>2. CASE \E r \in Requests : HttpStep(r) BY <1>0, <1>2, OwnKeeps, KeepsClaims
<1>3. CASE NextBucket BY <1>1, <1>3 DEF NextBucket, http, kafka
<1>4. ASSUME NEW c \in Consumers, Handler(c) PROVE Claims'
  <2>1. UNCHANGED <<hpc, hidx, hbucket, existing, log>> /\ (UNCHANGED redis \/ register(c))
    BY <1>4, HandlerFrame
  <2>2. \A s \in Slots : redis[s] # None => redis'[s] # None
    <3>1. CASE register(c)
      <4>1. Message(c) # None BY <3>1, InHand, IngestionAssumption DEF register
      <4> QED BY <3>1, <4>1 DEF register
    <3> QED BY <2>1, <3>1
  <2> QED BY <1>1, <2>1, <2>2
<1>5. CASE \E d \in Consumers : Moved(d) BY <1>1, <1>5, MovedFrame
<1>6. CASE UNCHANGED vars BY <1>1, <1>6, Frozen
<1> QED BY <1>2, <1>3, <1>4, <1>5, <1>6, Steps

LEMMA SoleHandler ==
    ASSUME Types, Types', Sole, NEW c \in Consumers, Handler(c)
    PROVE  Sole'
<1>0. /\ UNCHANGED <<log, owner>> /\ Published' = Published
      /\ cpc \in [Consumers -> ConsumerPc] /\ at \in [Consumers -> 0..Len(log)]
      /\ row \in [Requests -> {"none", "CREATED", "ENRICHED", "settled"}] /\ dispatched \in [Requests -> Nat]
  BY HandlerFrame DEF Types, BusTypes, RowTypes, Published
<1>1. cpc[c] # "idle" => c = owner /\ Message(c) \in Requests /\ Message(c) \in Published
  <2>1. cpc[c] # "idle" => Message(c) \in Requests /\ at[c] \in 1..Len(log) BY InHand
  <2> QED BY <2>1 DEF Sole, Published, Message
<1>2. \A x \in Consumers : x # c /\ c = owner => cpc[x] = "idle" BY DEF Sole
\* A step that moves only the consumer, towards a place where no row is written.
<1>3. ASSUME UNCHANGED <<row, dispatched>>, NEW p \in ConsumerPc, p \notin {"write", "settle"}, c = owner,
             cpc' = [cpc EXCEPT ![c] = p]
      PROVE  Sole'
  <2>1. \A x \in Consumers : x # c => cpc'[x] = "idle" BY <1>0, <1>2, <1>3
  <2>2. cpc'[c] = p BY <1>0, <1>3
  <2> QED BY <1>0, <1>3, <2>1, <2>2 DEF Sole
<1>4. ASSUME UNCHANGED <<row, dispatched>>, NEW p \in ConsumerPc, p \notin {"write", "settle"}, Pc(c, p), cpc[c] # "idle"
      PROVE  Sole'
  BY <1>1, <1>3, <1>4 DEF Pc
<1>a. /\ {"check", "find", "create", "register", "enrich", "write", "settle"} \subseteq ConsumerPc
      /\ {"idle", "park", "commit"} \subseteq ConsumerPc
  BY DEF ConsumerPc, EnginePc
<1>5. CASE Fetch(c) BY <1>3, <1>5, <1>a DEF Fetch, db
<1>6. CASE check(c)
  <2>1. cpc[c] # "idle" /\ cpc[c] = "check" /\ UNCHANGED <<row, dispatched>> BY <1>6 DEF check, db
  <2>2. CASE Pc(c, "commit") \/ Pc(c, "find") BY <1>4, <1>a, <2>1, <2>2
  <2>3. CASE UNCHANGED <<cpc, at>> BY <1>0, <2>1, <2>3 DEF Sole, Message
  <2> QED BY <1>6, <2>2, <2>3 DEF check
<1>7. CASE FindRow(c)
  <2>1. cpc[c] # "idle" /\ UNCHANGED <<row, dispatched>> BY <1>7 DEF FindRow, db
  <2>2. Pc(c, "create") \/ Pc(c, "enrich") \/ Pc(c, "commit") BY <1>7 DEF FindRow
  <2> QED BY <1>4, <1>a, <2>1, <2>2
<1>8. CASE register(c) BY <1>4, <1>8, <1>a DEF register, db
<1>9. CASE Park(c) BY <1>4, <1>9, <1>a DEF Park, db
<1>10. CASE Commit(c) BY <1>4, <1>10, <1>a DEF Commit, db
<1>11. CASE EngineThrows(c) BY <1>4, <1>11, <1>a DEF EngineThrows, EnginePc, db
<1>12. CASE ParkFails(c) BY <1>4, <1>12, <1>a DEF ParkFails, db
<1>13. CASE CreateRow(c)
  <2>1. /\ cpc[c] # "idle" /\ UNCHANGED dispatched
        /\ (row' = [row EXCEPT ![Message(c)] = "CREATED"] /\ row[Message(c)] = "none" /\ Pc(c, "register"))
           \/ (UNCHANGED row /\ Pc(c, "park"))
    BY <1>13 DEF CreateRow
  <2>2. CASE UNCHANGED row /\ Pc(c, "park") BY <1>4, <1>a, <2>1, <2>2
  <2>3. CASE row' = [row EXCEPT ![Message(c)] = "CREATED"] /\ row[Message(c)] = "none" /\ Pc(c, "register")
    <3>1. cpc' = [cpc EXCEPT ![c] = "register"] BY <2>3 DEF Pc
    <3>2. (\A x \in Consumers : x # c => cpc'[x] = "idle") /\ cpc'[c] = "register" BY <1>0, <1>1, <1>2, <2>1, <3>1
    <3>3. \A r \in Requests : row'[r] # "settled" => row[r] # "settled" BY <1>0, <2>3
    <3> QED BY <1>0, <1>1, <2>1, <3>2, <3>3 DEF Sole
  <2> QED BY <2>1, <2>2, <2>3
<1>14. CASE EnrichCheck(c)
  <2>1. /\ cpc[c] # "idle" /\ UNCHANGED <<row, dispatched>>
        /\ (Pc(c, "write") /\ row[Message(c)] = "CREATED") \/ Pc(c, "park")
    BY <1>14 DEF EnrichCheck, db
  <2>2. CASE Pc(c, "park") BY <1>4, <1>a, <2>1, <2>2
  <2>3. CASE Pc(c, "write") /\ row[Message(c)] = "CREATED"
    <3>1. cpc' = [cpc EXCEPT ![c] = "write"] /\ UNCHANGED at BY <2>3 DEF Pc
    <3>2. (\A x \in Consumers : x # c => cpc'[x] = "idle") /\ cpc'[c] = "write" BY <1>0, <1>1, <1>2, <2>1, <3>1
    <3>3. row'[Message(c)'] # "settled" BY <1>0, <2>1, <2>3, <3>1 DEF Message
    <3> QED BY <1>0, <1>1, <2>1, <3>2, <3>3 DEF Sole
  <2> QED BY <2>1, <2>2, <2>3
<1>15. CASE EnrichWrite(c)
  <2>1. /\ cpc[c] = "write" /\ UNCHANGED <<dispatched, at>> /\ row' = [row EXCEPT ![Message(c)] = "ENRICHED"]
        /\ cpc' = [cpc EXCEPT ![c] = "settle"]
    BY <1>15 DEF EnrichWrite, Pc
  <2>2. (\A x \in Consumers : x # c => cpc'[x] = "idle") /\ cpc'[c] = "settle" BY <1>0, <1>1, <1>2, <2>1
  <2>3. row[Message(c)] # "settled" /\ Message(c) \in Requests BY <1>1, <2>1 DEF Sole
  <2>4. row'[Message(c)'] # "settled" BY <1>0, <2>1, <2>3 DEF Message
  <2>5. \A r \in Requests : row'[r] # "settled" => row[r] # "settled" BY <1>0, <2>1, <2>3
  <2> QED BY <1>0, <1>1, <2>1, <2>2, <2>4, <2>5 DEF Sole
<1>16. CASE Settle(c)
  <2>1. /\ cpc[c] = "settle" /\ row' = [row EXCEPT ![Message(c)] = "settled"]
        /\ dispatched' = [dispatched EXCEPT ![Message(c)] = @ + 1] /\ cpc' = [cpc EXCEPT ![c] = "commit"]
    BY <1>16 DEF Settle, Pc
  <2>2. (\A x \in Consumers : x # c => cpc'[x] = "idle") /\ cpc'[c] = "commit" BY <1>0, <1>1, <1>2, <2>1
  <2>3. Message(c) \in Requests /\ Message(c) \in Published /\ dispatched[Message(c)] = 0
    BY <1>1, <2>1 DEF Sole
  <2>4. ASSUME NEW r \in Requests
        PROVE  /\ dispatched'[r] <= 1 /\ (row'[r] # "settled" => dispatched'[r] = 0)
               /\ dispatched'[r] > 0 => r \in Published'
    <3>1. CASE r = Message(c) BY <1>0, <2>1, <2>3, <3>1
    <3>2. CASE r # Message(c) BY <1>0, <2>1, <3>2 DEF Sole
    <3> QED BY <3>1, <3>2
  <2> QED BY <1>0, <1>1, <2>1, <2>2, <2>4 DEF Sole
<1> QED BY <1>5, <1>6, <1>7, <1>8, <1>9, <1>10, <1>11, <1>12, <1>13, <1>14, <1>15, <1>16
        DEF Handler, ConsumerStep

LEMMA SoleNext ==
    ASSUME Types, Types', Calm => Sole, [Next]_vars, Calm'
    PROVE  Sole'
<1>0. Calm /\ Sole /\ ~Spend("rebalance") BY CalmKept DEF Types
<1>1. ASSUME UNCHANGED <<owner, cpc, at, row, dispatched>>, Published \subseteq Published',
             \A i \in 1..Len(log) : log'[i] = log[i]
      PROVE  Sole'
  <2>1. \A c \in Consumers : cpc[c] # "idle" => Message(c)' = Message(c)
    BY <1>1, InHand DEF Message
  <2> QED BY <1>0, <1>1, <2>1 DEF Sole
<1>2. ASSUME NEW r \in Requests, HttpStep(r) PROVE Sole'
  <2>1. UNCHANGED <<owner, cpc, at, row, dispatched>> /\ (log' = log \/ log' = Append(log, r)) BY <1>2, HttpFrame
  <2> QED BY <1>1, <2>1, LogGrows, PublishedGrows DEF Types
<1>3. CASE NextBucket
  BY <1>1, <1>3 DEF NextBucket, kafka, thread, db, Published
<1>4. CASE \E c \in Consumers : Handler(c) BY <1>0, <1>4, SoleHandler
<1>5. ASSUME NEW d \in Consumers, Moved(d) PROVE Sole'
  <2>1. PICK c \in Consumers : ConsumerCrashes(c, d) BY <1>0, <1>5 DEF Moved, Rebalance
  <2>2. owner = c /\ cpc' = [cpc EXCEPT ![c] = "idle"] /\ UNCHANGED <<log, row, dispatched>>
    BY <1>0, <2>1 DEF ConsumerCrashes, Sole, db
  <2>3. \A x \in Consumers : cpc'[x] = "idle" BY <1>0, <2>2 DEF Sole, Types, BusTypes
  <2> QED BY <1>0, <2>2, <2>3 DEF Sole, Published
<1>6. CASE UNCHANGED vars
  BY <1>1, <1>6, Frozen DEF Published
<1> QED BY <1>2, <1>3, <1>4, <1>5, <1>6, Steps

LEMMA PublishedFinite ==
    ASSUME Types
    PROVE  IsFiniteSet(Published) /\ Published \subseteq Requests
<1>1. log \in Seq(Requests) /\ Len(log) \in Nat BY DEF Types, BusTypes
<1>2. IsFiniteSet(1..Len(log)) BY <1>1, FS_Interval
<1> DEFINE f == [i \in 1..Len(log) |-> log[i]]
<1>3. f \in Surjection(1..Len(log), Published)
  BY <1>1 DEF Surjection, Published
<1>4. IsFiniteSet(Published) BY <1>2, <1>3, FS_Surjection
<1> QED BY <1>1, <1>4 DEF Published

\* Two parts bound the whole.
LEMMA TwoParts ==
    ASSUME NEW A, NEW B, NEW C, IsFiniteSet(A), IsFiniteSet(B), C \subseteq A \cup B, NEW n \in Nat, Cardinality(A) <= n
    PROVE  Cardinality(C) <= n + Cardinality(B)
<1>1. IsFiniteSet(A \cup B) /\ Cardinality(A \cup B) = Cardinality(A) + Cardinality(B) - Cardinality(A \cap B)
  BY FS_Union
<1>2. Cardinality(C) <= Cardinality(A \cup B) /\ IsFiniteSet(C) /\ IsFiniteSet(A \cap B)
  BY <1>1, FS_Subset, FS_Intersection
<1>3. Cardinality(A) \in Nat /\ Cardinality(B) \in Nat /\ Cardinality(A \cap B) \in Nat /\ Cardinality(C) \in Nat
  BY <1>2, FS_CardinalityType
<1> QED BY <1>1, <1>2, <1>3

\* While every publish is acknowledged and no rebalance overtakes a handler,
\* no event is dispatched twice, and of the requests with one idempotency key,
\* or with one fingerprint in one bucket, at most one is dispatched beyond those
\* that were published without a claim.
THEOREM OneNotificationAlways == Spec => []OneNotification
<1>1. Types /\ Holding /\ (Calm => Claims) /\ (Calm => Sole) => OneNotification
  <2> SUFFICES ASSUME Types, Holding, Calm, Claims, Sole
               PROVE  /\ \A r \in Requests : dispatched[r] <= 1
                      /\ \A k \in Keys : Sent(WithKey(k)) <= 1 + Cardinality(Unclaimed \cap WithKey(k))
                      /\ \A e \in Entities : Sent(OfEntity(e)) <= 1 + bucket + Cardinality(Unclaimed \cap OfEntity(e))
    BY DEF OneNotification, Calm
  <2>1. \A r \in Requests : dispatched[r] <= 1 BY DEF Sole
  <2>2. bucket \in Nat /\ 0 \in 0..MaxBucket BY IngestionAssumption DEF Types, HttpTypes
  <2>3. IsFiniteSet(Published) /\ Published \subseteq Requests BY PublishedFinite
  <2>4. \A r \in Published : r \notin Unclaimed => hidx[r] = Width(r)
    <3>1. \A r \in Requests : Len(Wanted(r, 0)) = Width(r) /\ Width(r) \in 1..2 BY <2>2, WantedSlots
    <3>2. \A r \in Requests : hidx[r] \in 1..2 /\ hidx[r] <= Width(r) BY SlotIsSlot
    <3> QED BY <2>3, <3>1, <3>2 DEF Unclaimed
  <2>5. \A r \in Requests : dispatched[r] > 0 => r \in Published BY DEF Sole
  <2>6. Unclaimed \subseteq Published BY DEF Unclaimed
  <2>7. ASSUME NEW k \in Keys PROVE Sent(WithKey(k)) <= 1 + Cardinality(Unclaimed \cap WithKey(k))
    <3> DEFINE A == {r \in Published : r \notin Unclaimed /\ KeyOf[r] = k}
    <3> DEFINE B == Unclaimed \cap WithKey(k)
    <3> DEFINE C == {r \in WithKey(k) : dispatched[r] > 0}
    <3>1. \A r \in A : HasKey(r)
      BY <2>3, <2>4 DEF HasKey, Keys, Width
    <3>2. \A r, x \in A : r = x BY <2>3, <3>1 DEF Claims
    <3>3. IsFiniteSet(A) /\ IsFiniteSet(B) BY <2>3, <2>6, FS_Subset
    <3>4. Cardinality(A) <= 1
      <4>1. CASE A = {} BY <4>1, FS_EmptySet
      <4>2. CASE A # {}
        <5>1. PICK q \in A : TRUE BY <4>2
        <5>2. A = {q} BY <3>2, <5>1
        <5>3. Cardinality({q}) = 1 BY FS_Singleton, Zenon
        <5> QED BY <5>2, <5>3
      <4> QED BY <4>1, <4>2
    <3>5. C \subseteq A \cup B BY <2>5 DEF WithKey
    <3> HIDE DEF A, B, C
    <3>6. Cardinality(C) <= 1 + Cardinality(B) BY <3>3, <3>4, <3>5, TwoParts
    <3> QED BY <3>6 DEF Sent, B, C
  <2>8. ASSUME NEW e \in Entities
        PROVE  Sent(OfEntity(e)) <= 1 + bucket + Cardinality(Unclaimed \cap OfEntity(e))
    <3> DEFINE A == {r \in Published : r \notin Unclaimed /\ EntityOf[r] = e}
    <3> DEFINE B == Unclaimed \cap OfEntity(e)
    <3> DEFINE C == {r \in OfEntity(e) : dispatched[r] > 0}
    <3> DEFINE f == [r \in A |-> hbucket[r]]
    <3>1. \A r \in A : HasPrint(r) BY <2>4 DEF HasPrint
    <3>2. \A r \in A : hbucket[r] \in 0..bucket
      BY <2>2, <2>3 DEF Types, HttpTypes, Holding, Marked
    <3>3. \A r, x \in A : hbucket[r] = hbucket[x] => r = x BY <2>3, <3>1 DEF Claims
    <3>4. f \in Injection(A, 0..bucket) BY <3>2, <3>3 DEF Injection, IsInjective
    <3>5. IsFiniteSet(0..bucket) /\ Cardinality(0..bucket) = bucket + 1
      <4>1. 0 \in Int /\ bucket \in Int /\ ~(0 > bucket) /\ bucket - 0 + 1 = bucket + 1 BY <2>2
      <4> QED BY <4>1, FS_Interval
    <3>6. IsFiniteSet(A) /\ Cardinality(A) <= 1 + bucket
      <4>1. IsFiniteSet(A) /\ Cardinality(A) <= Cardinality(0..bucket) BY <3>4, <3>5, FS_Injection
      <4> QED BY <2>2, <3>5, <4>1
    <3>7. IsFiniteSet(B) BY <2>3, <2>6, FS_Subset
    <3>8. C \subseteq A \cup B BY <2>5 DEF OfEntity
    <3> HIDE DEF A, B, C
    <3>9. 1 + bucket \in Nat BY <2>2
    <3>10. Cardinality(C) <= (1 + bucket) + Cardinality(B) BY <3>6, <3>7, <3>8, <3>9, TwoParts
    <3> QED BY <3>10 DEF Sent, B, C
  <2> QED BY <2>1, <2>7, <2>8
<1>2. Init => Holding /\ Claims /\ Sole
  <2> SUFFICES ASSUME Init PROVE Holding /\ Claims /\ Sole OBVIOUS
  <2>1. Published = {} BY DEF Init, Published
  <2>2. \A r \in Requests : r # None /\ None # "unavailable" BY IngestionAssumption DEF Ids
  <2>3. ASSUME NEW r \in Requests
        PROVE  /\ Marked(r) /\ HoldsOwn(r) /\ Place(r) /\ ~HasPrint(r) /\ ~HasKey(r)
    BY <2>1, <2>2 DEF Init, Marked, HoldsOwn, Place, HasPrint, HasKey
  <2>4. Sole BY DEF Init, Sole
  <2> QED BY <2>3, <2>4 DEF Holding, Claims
<1>3. Types /\ Types' /\ Holding /\ [Next]_vars => Holding' BY HoldingNext
<1>4. Types /\ Types' /\ (Calm => Claims) /\ [Next]_vars => (Calm => Claims)' BY ClaimsNext
<1>5. Types /\ Types' /\ (Calm => Sole) /\ [Next]_vars => (Calm => Sole)' BY SoleNext
<1> QED BY <1>1, <1>2, <1>3, <1>4, <1>5, TypesAlways, PTL DEF Spec

-----------------------------------------------------------------------------
(***************************************************************************)
(* An accepted event is handled.  The danger is a circle: an event dropped *)
(* as a duplicate of a request that is itself answered, or dropped, as a   *)
(* duplicate of the first.  The invariant is about the events of an entity *)
(* nothing has been done for yet: no row, nothing parked, no failure told. *)
(* Until then redis changes only by claims and their undoing, and whoever  *)
(* an event is turned away for is under way and will not be turned away:   *)
(* the holder of a key is still claiming, or passes the consumer's check   *)
(* by that key; the holder of the current bucket's fingerprint was not     *)
(* dropped; and of all holders of a fingerprint one was not.               *)
(***************************************************************************)

PrintOf(e, b) == <<"dedup", e, b>>
Failures == {"unavailable", "died"}

\* Nothing has been done for the entity, and nobody told of a failure.
Untouched(e) ==
    \A x \in OfEntity(e) :
        /\ row[x] = "none" /\ x \notin parked
        /\ hpc[x] \notin {"release", "delete"} /\ answer[x] \notin Failures
        /\ used["parkFail"] > 0 => x \notin Published

\* It holds its key and is about to claim its fingerprint, or found it held.
Taking(x) == hpc[x] \in {"claim", "holder", "untake"} /\ hidx[x] = 2

\* The record's handler is through with it, or has only to commit.
Gone(i) == i \in handled \/ \E c \in Consumers : cpc[c] = "commit" /\ at[c] = i

Waits(x) == \E i \in 1..Len(log) : log[i] = x /\ ~Gone(i)
OnItsWay(x) == hpc[x] = "publish" \/ x \in Published
Kept(x) == OnItsWay(x) /\ \A i \in 1..Len(log) : log[i] = x => ~Gone(i)
Live(x) == Taking(x) \/ hpc[x] = "publish" \/ Waits(x)

KeyKept(e) ==
    /\ \A x \in OfEntity(e) : Taking(x) => redis[KeySlot(x)] = x
    /\ \A x \in OfEntity(e), h \in Requests : KeyOf[x] # None /\ redis[KeySlot(x)] = h =>
          KeyOf[h] = KeyOf[x] /\ (Taking(h) \/ Kept(h))

PrintKept(e) ==
    \A b \in 0..MaxBucket, h \in Requests : redis[PrintOf(e, b)] = h =>
        /\ b <= bucket /\ EntityOf[h] = e /\ OnItsWay(h)
        /\ KeyOf[h] # None => redis[KeySlot(h)] = h
        /\ b = bucket => Kept(h)

Printed(e) == \E b \in 0..MaxBucket : redis[PrintOf(e, b)] # None
SomeKept(e) == Printed(e) => \E b \in 0..MaxBucket, h \in Requests : redis[PrintOf(e, b)] = h /\ Kept(h)

\* A request that backs out does so for the holder of a fingerprint.
Backing(e) == \A x \in OfEntity(e) : hpc[x] = "untake" => hidx[x] = 2 /\ (existing[x] # None => Printed(e))

\* A consumer that has passed an event's key did not find the event there.
Rechecked(e) ==
    \A c \in Consumers : cpc[c] = "check" /\ cidx[c] = 2 /\ Message(c) \in OfEntity(e) =>
        redis[KeySlot(Message(c))] # Message(c)

Promised(x) == answer[x] \in Requests \/ OnItsWay(x)
Owed(e) == (\E x \in OfEntity(e) : Promised(x)) => \E x \in OfEntity(e) : Live(x)

Owing(e) == KeyKept(e) /\ PrintKept(e) /\ SomeKept(e) /\ Backing(e) /\ Rechecked(e) /\ Owed(e)
OwingAll == KeyNamesEvent => \A e \in Entities : Untouched(e) => Owing(e)

\* Where requests are that have not begun, are on the bus, or were answered.
Ended ==
    \A x \in Requests : /\ hpc[x] = "idle" => hidx[x] = 1
                        /\ x \in Published => hpc[x] \in {"done", "release", "delete"}
                        /\ answer[x] # None => hpc[x] = "done"

\* Past its creation a row is there.
Written == \A c \in Consumers : cpc[c] \in {"register", "enrich", "write", "settle"} => row[Message(c)] # "none"

\* Without a crash a row that is there is worked on until it is settled.
WorksOn(c, x) == cpc[c] \in {"register", "enrich", "write", "settle", "park"} /\ Message(c) = x
Minded(x) ==
    \/ row[x] = "settled" \/ x \in parked \/ used["crash"] > 0
    \/ (used["parkFail"] > 0 /\ x \in Published)
    \/ \E c \in Consumers : WorksOn(c, x)
MindedAll == \A x \in Requests : row[x] # "none" => Minded(x)

\* A request's own step, as far as its place goes.
LEMMA OwnMove ==
    ASSUME Types, NEW r \in Requests, HttpStep(r)
    PROVE  /\ hpc[r] # "done" /\ hpc'[r] # "idle"
           /\ log' = log \/ (hpc[r] = "publish" /\ hpc'[r] \in {"done", "release"} /\ log' = Append(log, r))
           /\ hpc[r] \in {"release", "delete"} =>
                 hpc'[r] \in {"release", "delete"} \/ (hpc'[r] = "done" /\ answer'[r] = "unavailable")
                 \/ (hpc'[r] = "done" /\ answer'[r] = "died")
           /\ answer'[r] # answer[r] => hpc'[r] = "done"
<1>0. /\ hpc \in [Requests -> HttpPc] /\ answer \in [Requests -> Answers] BY DEF Types, HttpTypes
<1> USE DEF Http, Answer, kafka
<1>a. ASSUME NEW h, Conclude(r, h)
      PROVE  hpc'[r] \in {"publish", "done"} /\ (answer'[r] # answer[r] => hpc'[r] = "done")
  BY <1>0, <1>a DEF Conclude
<1>b. ASSUME NextRelease(r)
      PROVE  /\ hpc'[r] = "release" \/ (hpc'[r] = "done" /\ answer'[r] = "unavailable")
             /\ answer'[r] # answer[r] => hpc'[r] = "done"
  BY <1>0, <1>b DEF NextRelease
<1>1. CASE Arrive(r) BY <1>0, <1>1 DEF Arrive
<1>2. CASE claim(r) BY <1>0, <1>2 DEF claim
<1>3. CASE ReadHolder(r)
  <2>1. hpc[r] = "holder" /\ log' = log BY <1>3 DEF ReadHolder
  <2>2. (Http(r, "untake") /\ UNCHANGED answer) \/ Conclude(r, redis[Slot(r)]) BY <1>3 DEF ReadHolder
  <2>3. CASE Http(r, "untake") /\ UNCHANGED answer BY <1>0, <2>1, <2>3
  <2>4. CASE Conclude(r, redis[Slot(r)]) BY <1>a, <2>1, <2>4
  <2> QED BY <2>2, <2>3, <2>4
<1>4. CASE Untake(r)
  <2>1. hpc[r] = "untake" /\ log' = log /\ Conclude(r, existing[r]) BY <1>4 DEF Untake
  <2> QED BY <1>a, <2>1
<1>5. CASE release(r)
  <2>1. hpc[r] = "release" /\ log' = log BY <1>5 DEF release
  <2>2. (Http(r, "delete") /\ UNCHANGED <<hidx, answer>>) \/ NextRelease(r) BY <1>5 DEF release
  <2>3. CASE Http(r, "delete") /\ UNCHANGED <<hidx, answer>> BY <1>0, <2>1, <2>3
  <2>4. CASE NextRelease(r) BY <1>b, <2>1, <2>4
  <2> QED BY <2>2, <2>3, <2>4
<1>6. CASE ReleaseDelete(r)
  <2>1. hpc[r] = "delete" /\ log' = log /\ NextRelease(r) BY <1>6 DEF ReleaseDelete
  <2> QED BY <1>b, <2>1
<1>7. CASE HandlerDies(r) BY <1>0, <1>7 DEF HandlerDies
<1>8. CASE Publish(r) BY <1>0, <1>8 DEF Publish
<1>9. CASE PublishFails(r) BY <1>0, <1>9 DEF PublishFails
<1> QED BY <1>1, <1>2, <1>3, <1>4, <1>5, <1>6, <1>7, <1>8, <1>9 DEF HttpStep

LEMMA PublishedOwn ==
    ASSUME BusTypes, NEW r \in Requests, log' = log \/ log' = Append(log, r)
    PROVE  /\ Published \subseteq Published' /\ Published' \subseteq Published \cup {r}
           /\ log' = Append(log, r) =>
                 /\ Len(log') = Len(log) + 1 /\ log'[Len(log) + 1] = r /\ r \in Published'
           /\ \A i \in 1..Len(log') : i \in 1..Len(log) \/ (i = Len(log) + 1 /\ log'[i] = r)
<1>1. log \in Seq(Requests) /\ Len(log) \in Nat BY DEF BusTypes
<1>2. CASE log' = log BY <1>1, <1>2 DEF Published
<1>3. CASE log' = Append(log, r)
  <2>1. Len(log') = Len(log) + 1 /\ log'[Len(log) + 1] = r /\ \A i \in 1..Len(log) : log'[i] = log[i] BY <1>1, <1>3
  <2>2. \A i \in 1..Len(log') : i \in 1..Len(log) \/ i = Len(log) + 1 BY <1>1, <2>1
  <2>3. Published \subseteq Published' BY <1>1, <2>1 DEF Published
  <2>4. Published' \subseteq Published \cup {r} BY <2>1, <2>2 DEF Published
  <2>5. r \in Published'
    <3>1. Len(log) + 1 \in 1..Len(log') BY <1>1, <2>1
    <3> QED BY <2>1, <3>1 DEF Published
  <2> QED BY <2>1, <2>2, <2>3, <2>4, <2>5
<1> QED BY <1>2, <1>3

LEMMA EndedNext == Types /\ Types' /\ Ended /\ [Next]_vars => Ended'
<1> SUFFICES ASSUME Types, Types', Ended, [Next]_vars PROVE Ended' OBVIOUS
<1>1. ASSUME UNCHANGED <<hpc, hidx, answer, log>> PROVE Ended'
  BY <1>1 DEF Ended, Published
<1>2. ASSUME NEW r \in Requests, HttpStep(r) PROVE Ended'
  <2> SUFFICES ASSUME NEW x \in Requests
               PROVE  /\ hpc'[x] = "idle" => hidx'[x] = 1
                      /\ x \in Published' => hpc'[x] \in {"done", "release", "delete"}
                      /\ answer'[x] # None => hpc'[x] = "done"
    BY DEF Ended
  <2>1. log' = log \/ log' = Append(log, r) BY <1>2, HttpFrame
  <2>2. Published' \subseteq Published \cup {r} BY <2>1, PublishedOwn DEF Types
  <2>3. CASE x # r BY <1>2, <2>2, <2>3, HttpOthers DEF Ended
  <2>4. CASE x = r
    <3>1. log' = log => Published' = Published BY DEF Published
    <3> QED BY <1>2, <2>2, <2>4, <3>1, OwnMove DEF Ended
  <2> QED BY <2>3, <2>4
<1>3. CASE NextBucket BY <1>1, <1>3 DEF NextBucket, http, kafka
<1>4. CASE \E c \in Consumers : Handler(c) BY <1>1, <1>4, HandlerFrame
<1>5. CASE \E d \in Consumers : Moved(d) BY <1>1, <1>5, MovedFrame
<1>6. CASE UNCHANGED vars BY <1>1, <1>6, Frozen
<1> QED BY <1>2, <1>3, <1>4, <1>5, <1>6, Steps

\* A row that is there stays there, and a handler's step keeps it worked on.
LEMMA RowStays ==
    ASSUME Types, NEW c \in Consumers, Handler(c), NEW x \in Requests
    PROVE  /\ row[x] # "none" => row'[x] # "none"
           /\ row[x] = "settled" => row'[x] = "settled" \/ (EnrichWrite(c) /\ Message(c) = x)
           /\ row'[x] # "none" => row[x] # "none" \/ (CreateRow(c) /\ Message(c) = x /\ Pc(c, "register"))
                 \/ (EnrichWrite(c) /\ Message(c) = x) \/ (Settle(c) /\ Message(c) = x)
<1>1. row \in [Requests -> {"none", "CREATED", "ENRICHED", "settled"}] BY DEF Types, RowTypes
<1>2. CASE UNCHANGED row BY <1>2
<1>3. CASE CreateRow(c)
  <2>1. UNCHANGED row \/ (row' = [row EXCEPT ![Message(c)] = "CREATED"] /\ row[Message(c)] = "none" /\ Pc(c, "register"))
    BY <1>3 DEF CreateRow
  <2> QED BY <1>1, <1>2, <1>3, <2>1
<1>4. CASE EnrichWrite(c)
  <2>1. row' = [row EXCEPT ![Message(c)] = "ENRICHED"] BY <1>4 DEF EnrichWrite
  <2> QED BY <1>1, <1>4, <2>1
<1>5. CASE Settle(c)
  <2>1. row' = [row EXCEPT ![Message(c)] = "settled"] BY <1>5 DEF Settle
  <2> QED BY <1>1, <1>5, <2>1
<1> QED BY <1>2, <1>3, <1>4, <1>5, HandlerFrame

\* Where a handler's step leads.
LEMMA HandlerMoves ==
    ASSUME Types, NEW c \in Consumers, Handler(c)
    PROVE  /\ \A d \in Consumers : d # c => cpc'[d] = cpc[d] /\ at'[d] = at[d] /\ cidx'[d] = cidx[d]
           /\ \/ cpc[c] = "idle" /\ cpc'[c] = "check" /\ cidx'[c] = 1
              \/ cpc[c] = "check" /\ check(c) /\ at'[c] = at[c] /\ cpc'[c] \in {"check", "find", "commit"}
              \/ /\ cpc[c] = "find" /\ at'[c] = at[c]
                 /\ \/ cpc'[c] = "create" \/ (cpc'[c] = "enrich" /\ row[Message(c)] = "CREATED")
                    \/ (cpc'[c] = "commit" /\ row[Message(c)] # "none")
              \/ /\ cpc[c] = "create" /\ at'[c] = at[c]
                 /\ cpc'[c] = "park" \/ (cpc'[c] = "register" /\ row' = [row EXCEPT ![Message(c)] = "CREATED"])
              \/ cpc[c] = "register" /\ at'[c] = at[c] /\ cpc'[c] = "enrich"
              \/ /\ cpc[c] = "enrich" /\ at'[c] = at[c]
                 /\ cpc'[c] = "park" \/ (cpc'[c] = "write" /\ row[Message(c)] = "CREATED")
              \/ cpc[c] = "write" /\ at'[c] = at[c] /\ cpc'[c] = "settle"
              \/ /\ cpc[c] = "settle" /\ at'[c] = at[c] /\ cpc'[c] = "commit"
                 /\ row' = [row EXCEPT ![Message(c)] = "settled"]
              \/ cpc[c] \in EnginePc /\ at'[c] = at[c] /\ cpc'[c] = "park"
              \/ cpc[c] = "park" /\ at'[c] = at[c] /\ cpc'[c] = "commit" /\ Message(c) \in parked'
              \/ cpc[c] = "commit" /\ at'[c] = at[c] /\ cpc'[c] = "idle" /\ handled' = handled \cup {at[c]}
              \/ cpc[c] = "park" /\ at'[c] = at[c] /\ cpc'[c] = "idle" /\ used'["parkFail"] > 0
<1>0. /\ cpc \in [Consumers -> ConsumerPc] /\ at \in [Consumers -> 0..Len(log)] /\ cidx \in [Consumers -> 1..2]
  BY DEF Types, BusTypes
<1>a. ASSUME NEW p, Pc(c, p)
      PROVE  /\ cpc'[c] = p /\ at'[c] = at[c]
             /\ \A d \in Consumers : d # c => cpc'[d] = cpc[d] /\ at'[d] = at[d] /\ cidx'[d] = cidx[d]
  BY <1>0, <1>a DEF Pc
<1>1. CASE Fetch(c)
  <2>1. /\ cpc[c] = "idle" /\ at' = [at EXCEPT ![c] = position + 1] /\ cidx' = [cidx EXCEPT ![c] = 1]
        /\ cpc' = [cpc EXCEPT ![c] = "check"]
    BY <1>1 DEF Fetch
  <2> QED BY <1>0, <2>1
<1>2. CASE check(c)
  <2>1. cpc[c] = "check" BY <1>2 DEF check
  <2>2. Pc(c, "commit") \/ Pc(c, "find") \/ (cidx' = [cidx EXCEPT ![c] = @ + 1] /\ UNCHANGED <<cpc, at>>)
    BY <1>2 DEF check
  <2>3. CASE Pc(c, "commit") BY <1>2, <1>a, <2>1, <2>3
  <2>4. CASE Pc(c, "find") BY <1>2, <1>a, <2>1, <2>4
  <2>5. CASE cidx' = [cidx EXCEPT ![c] = @ + 1] /\ UNCHANGED <<cpc, at>> BY <1>0, <1>2, <2>1, <2>5
  <2> QED BY <2>2, <2>3, <2>4, <2>5
<1>3. CASE FindRow(c)
  <2>1. cpc[c] = "find" BY <1>3 DEF FindRow
  <2>2. \/ Pc(c, "create") \/ (Pc(c, "enrich") /\ row[Message(c)] = "CREATED")
        \/ (Pc(c, "commit") /\ row[Message(c)] # "none")
    <3>1. Pc(c, CASE row[Message(c)] = "none" -> "create" [] row[Message(c)] = "CREATED" -> "enrich"
               [] OTHER -> "commit")
      BY <1>3 DEF FindRow
    <3>2. CASE row[Message(c)] = "none" BY <3>1, <3>2
    <3>3. CASE row[Message(c)] = "CREATED" BY <3>1, <3>3
    <3>4. CASE row[Message(c)] # "none" /\ row[Message(c)] # "CREATED" BY <3>1, <3>4
    <3> QED BY <3>2, <3>3, <3>4
  <2> QED BY <1>a, <2>1, <2>2
<1>4. CASE CreateRow(c)
  <2>1. cpc[c] = "create" /\ (Pc(c, "park") \/ (Pc(c, "register") /\ row' = [row EXCEPT ![Message(c)] = "CREATED"]))
    BY <1>4 DEF CreateRow
  <2> QED BY <1>a, <2>1
<1>5. CASE register(c)
  <2>1. cpc[c] = "register" /\ Pc(c, "enrich") BY <1>5 DEF register
  <2> QED BY <1>a, <2>1
<1>6. CASE EnrichCheck(c)
  <2>1. cpc[c] = "enrich" /\ (Pc(c, "park") \/ (Pc(c, "write") /\ row[Message(c)] = "CREATED"))
    BY <1>6 DEF EnrichCheck
  <2> QED BY <1>a, <2>1
<1>7. CASE EnrichWrite(c)
  <2>1. cpc[c] = "write" /\ Pc(c, "settle") BY <1>7 DEF EnrichWrite
  <2> QED BY <1>a, <2>1
<1>8. CASE Settle(c)
  <2>1. cpc[c] = "settle" /\ Pc(c, "commit") /\ row' = [row EXCEPT ![Message(c)] = "settled"] BY <1>8 DEF Settle
  <2> QED BY <1>a, <2>1
<1>9. CASE EngineThrows(c)
  <2>1. cpc[c] \in EnginePc /\ Pc(c, "park") BY <1>9 DEF EngineThrows
  <2> QED BY <1>a, <2>1
<1>10. CASE Park(c)
  <2>1. cpc[c] = "park" /\ Pc(c, "commit") /\ Message(c) \in parked' BY <1>10 DEF Park
  <2> QED BY <1>a, <2>1
<1>11. CASE Commit(c)
  <2>1. cpc[c] = "commit" /\ Pc(c, "idle") /\ handled' = handled \cup {at[c]} BY <1>11 DEF Commit
  <2> QED BY <1>a, <2>1
<1>12. CASE ParkFails(c)
  <2>1. cpc[c] = "park" /\ Pc(c, "idle") /\ Spend("parkFail") BY <1>12 DEF ParkFails
  <2>2. "parkFail" \in Faults BY DEF Faults
  <2>3. used["parkFail"] \in Nat BY <2>2 DEF Types, UsedTypes
  <2>4. used'["parkFail"] > 0 BY <2>1, <2>2, <2>3, Spent DEF Types
  <2> QED BY <1>a, <2>1, <2>4
<1> QED BY <1>1, <1>2, <1>3, <1>4, <1>5, <1>6, <1>7, <1>8, <1>9, <1>10, <1>11, <1>12 DEF Handler, ConsumerStep

LEMMA WrittenNext == Types /\ Types' /\ Written /\ [Next]_vars => Written'
<1> SUFFICES ASSUME Types, Types', Written, [Next]_vars PROVE Written' OBVIOUS
<1>1. ASSUME UNCHANGED <<at, row>>, \A c \in Consumers : cpc'[c] = cpc[c] \/ cpc'[c] = "idle",
             \A i \in 1..Len(log) : log'[i] = log[i]
      PROVE  Written'
  <2>1. \A c \in Consumers : cpc[c] # "idle" => Message(c)' = Message(c) BY <1>1, InHand DEF Message
  <2> QED BY <1>1, <2>1 DEF Written
<1>2. ASSUME NEW r \in Requests, HttpStep(r) PROVE Written'
  <2>1. UNCHANGED <<cpc, at, row>> /\ (log' = log \/ log' = Append(log, r)) BY <1>2, HttpFrame
  <2> QED BY <1>1, <2>1, LogGrows DEF Types
<1>3. CASE NextBucket BY <1>1, <1>3 DEF NextBucket, kafka, thread, db
<1>4. ASSUME NEW c \in Consumers, Handler(c) PROVE Written'
  <2>1. log' = log BY <1>4, HandlerFrame
  <2>2. ASSUME NEW d \in Consumers, d # c, cpc'[d] \in {"register", "enrich", "write", "settle"}
        PROVE  row'[Message(d)'] # "none"
    <3>1. cpc[d] = cpc'[d] /\ Message(d)' = Message(d) BY <1>4, <2>1, <2>2, HandlerMoves DEF Message
    <3>2. Message(d) \in Requests /\ row[Message(d)] # "none" BY <2>2, <3>1, InHand DEF Written
    <3> QED BY <1>4, <3>1, <3>2, RowStays
  <2>3. ASSUME cpc'[c] \in {"register", "enrich", "write", "settle"} PROVE row'[Message(c)'] # "none"
    <3>1. cpc[c] # "idle" /\ at'[c] = at[c] /\ (cpc[c] = "create" => row' = [row EXCEPT ![Message(c)] = "CREATED"])
          /\ (cpc[c] # "create" => row[Message(c)] # "none")
      BY <1>4, <2>3, HandlerMoves DEF Written, EnginePc
    <3>2. Message(c)' = Message(c) /\ Message(c) \in Requests BY <2>1, <3>1, InHand DEF Message
    <3>3. row \in [Requests -> {"none", "CREATED", "ENRICHED", "settled"}] BY DEF Types, RowTypes
    <3> QED BY <1>4, <3>1, <3>2, <3>3, RowStays
  <2> QED BY <2>2, <2>3 DEF Written
<1>5. ASSUME NEW d \in Consumers, Moved(d) PROVE Written'
  <2>1. UNCHANGED <<log, at, row>> /\ (cpc' = cpc \/ \E c \in Consumers : cpc' = [cpc EXCEPT ![c] = "idle"])
    BY <1>5, MovedFrame
  <2>2. \A c \in Consumers : cpc'[c] = cpc[c] \/ cpc'[c] = "idle" BY <2>1 DEF Types, BusTypes
  <2> QED BY <1>1, <2>1, <2>2
<1>6. CASE UNCHANGED vars BY <1>1, <1>6, Frozen
<1> QED BY <1>2, <1>3, <1>4, <1>5, <1>6, Steps

LEMMA FaultsStay ==
    ASSUME Types, [Next]_vars
    PROVE  /\ "crash" \in Faults /\ used["crash"] \in Nat
           /\ used["crash"] > 0 => used'["crash"] > 0
           /\ used["parkFail"] > 0 => used'["parkFail"] > 0
<1>1. "crash" \in Faults /\ "parkFail" \in Faults BY DEF Faults
<1>2. UsedTypes BY DEF Types
<1>3. UsedTypes' /\ used'["crash"] >= used["crash"] /\ used'["parkFail"] >= used["parkFail"] BY <1>1, <1>2, UsedNext
<1>4. /\ used["crash"] \in Nat /\ used["parkFail"] \in Nat /\ used'["crash"] \in Nat /\ used'["parkFail"] \in Nat
  BY <1>1, <1>2, <1>3 DEF UsedTypes
<1> QED BY <1>1, <1>3, <1>4

LEMMA MindedNext == Types /\ Types' /\ MindedAll /\ [Next]_vars => MindedAll'
<1> SUFFICES ASSUME Types, Types', MindedAll, [Next]_vars, NEW x \in Requests, row'[x] # "none" PROVE Minded(x)'
  BY DEF MindedAll
<1>0. /\ used["crash"] > 0 => used'["crash"] > 0
      /\ used["parkFail"] > 0 => used'["parkFail"] > 0
  BY FaultsStay
\* Where the row and the parked messages stay, and who worked on it still does.
<1>1. ASSUME UNCHANGED <<row, parked>>, Published \subseteq Published',
             \A c \in Consumers : WorksOn(c, x) => WorksOn(c, x)'
      PROVE  Minded(x)'
  <2>1. Minded(x) BY <1>1 DEF MindedAll
  <2> QED BY <1>0, <1>1, <2>1 DEF Minded
<1>2. ASSUME NEW r \in Requests, HttpStep(r) PROVE Minded(x)'
  <2>1. UNCHANGED <<cpc, at, row, parked>> /\ (log' = log \/ log' = Append(log, r)) BY <1>2, HttpFrame
  <2>2. \A c \in Consumers : cpc[c] # "idle" => Message(c)' = Message(c)
    BY <2>1, LogGrows, InHand DEF Message, Types
  <2>3. Published \subseteq Published' BY <2>1, PublishedGrows DEF Types
  <2> QED BY <1>1, <2>1, <2>2, <2>3 DEF WorksOn
<1>3. CASE NextBucket
  BY <1>1, <1>3 DEF NextBucket, kafka, thread, db, Published, WorksOn, Message
<1>4. ASSUME NEW c \in Consumers, Handler(c) PROVE Minded(x)'
  <2>1. log' = log /\ Published' = Published BY <1>4, HandlerFrame DEF Published
  <2>2. parked \subseteq parked' BY <1>4, HandlerFrame DEF Park
  <2>a. ASSUME at'[c] = at[c], Message(c) = x, cpc'[c] \in {"register", "enrich", "write", "settle", "park"}
        PROVE  Minded(x)'
    BY <2>1, <2>a DEF Minded, WorksOn, Message
  <2>3. CASE row[x] = "none"
    <3>1. (CreateRow(c) \/ EnrichWrite(c) \/ Settle(c)) /\ Message(c) = x BY <1>4, <2>3, RowStays
    <3>2. CASE CreateRow(c)
      <4>1. row'[x] # row[x] /\ cpc[c] = "create" BY <2>3, <3>2 DEF CreateRow
      <4>2. Pc(c, "register") BY <3>2, <4>1 DEF CreateRow
      <4>3. cpc'[c] = "register" /\ at'[c] = at[c] BY <4>2 DEF Pc, Types, BusTypes
      <4> QED BY <2>a, <3>1, <4>3
    <3>3. CASE EnrichWrite(c)
      <4>1. cpc'[c] = "settle" /\ at'[c] = at[c] BY <3>3 DEF EnrichWrite, Pc, Types, BusTypes
      <4> QED BY <2>a, <3>1, <4>1
    <3>4. CASE Settle(c)
      <4>1. row' = [row EXCEPT ![Message(c)] = "settled"] BY <3>4 DEF Settle
      <4>2. row'[x] = "settled" BY <3>1, <4>1 DEF Types, RowTypes
      <4> QED BY <4>2 DEF Minded
    <3> QED BY <3>1, <3>2, <3>3, <3>4
  <2>4. CASE row[x] # "none"
    <3>1. Minded(x) BY <2>4 DEF MindedAll
    <3>2. CASE row[x] = "settled"
      <4>1. CASE EnrichWrite(c) /\ Message(c) = x
        <5>1. cpc'[c] = "settle" /\ at'[c] = at[c] BY <4>1 DEF EnrichWrite, Pc, Types, BusTypes
        <5> QED BY <2>a, <4>1, <5>1
      <4>2. CASE row'[x] = "settled" BY <4>2 DEF Minded
      <4> QED BY <1>4, <3>2, <4>1, <4>2, RowStays
    <3>3. ASSUME NEW d \in Consumers, WorksOn(d, x), d # c PROVE Minded(x)'
      <4>1. cpc'[d] = cpc[d] /\ at'[d] = at[d] BY <1>4, <3>3, HandlerMoves
      <4>2. WorksOn(d, x)' BY <2>1, <3>3, <4>1 DEF WorksOn, Message
      <4> QED BY <4>2 DEF Minded
    <3>4. CASE WorksOn(c, x)
      <4>1. cpc[c] \in {"register", "enrich", "write", "settle", "park"} /\ Message(c) = x BY <3>4 DEF WorksOn
      <4>2. /\ at'[c] = at[c]
            /\ \/ cpc'[c] \in {"register", "enrich", "write", "settle", "park"}
               \/ row' = [row EXCEPT ![Message(c)] = "settled"] \/ Message(c) \in parked'
               \/ used'["parkFail"] > 0
        BY <1>4, <4>1, HandlerMoves
      <4>3. x \in Published
        <5>1. at[c] \in 1..Len(log) BY <4>1, InHand
        <5> QED BY <4>1, <5>1 DEF Published, Message
      <4>4. row' = [row EXCEPT ![Message(c)] = "settled"] => row'[x] = "settled" BY <4>1 DEF Types, RowTypes
      <4> QED BY <2>1, <2>a, <4>1, <4>2, <4>3, <4>4 DEF Minded
    <3> QED BY <1>0, <2>1, <2>2, <3>1, <3>2, <3>3, <3>4 DEF Minded
  <2> QED BY <2>3, <2>4
<1>5. ASSUME NEW d \in Consumers, Moved(d) PROVE Minded(x)'
  <2>1. UNCHANGED <<log, at, row, parked>> /\ (Spend("crash") \/ UNCHANGED cpc) BY <1>5, MovedFrame
  <2>2. CASE Spend("crash")
    <3>1. used'["crash"] > 0 BY <2>2, FaultsStay, Spent DEF Types
    <3> QED BY <3>1 DEF Minded
  <2>3. CASE UNCHANGED cpc BY <1>1, <2>1, <2>3 DEF WorksOn, Message, Published
  <2> QED BY <2>1, <2>2, <2>3
<1>6. CASE UNCHANGED vars BY <1>1, <1>6, Frozen DEF WorksOn, Message, Published
<1> QED BY <1>2, <1>3, <1>4, <1>5, <1>6, Steps

\* What has been done for an entity stays done.
LEMMA UntouchedBefore ==
    ASSUME Types, Types', Ended, [Next]_vars, NEW e, Untouched(e)'
    PROVE  Untouched(e)
<1> SUFFICES ASSUME NEW x \in OfEntity(e)
             PROVE  /\ row[x] = "none" /\ x \notin parked
                    /\ hpc[x] \notin {"release", "delete"} /\ answer[x] \notin Failures
                    /\ used["parkFail"] > 0 => x \notin Published
  BY DEF Untouched
<1>0. /\ x \in Requests /\ x \in OfEntity(e)' /\ row'[x] = "none" /\ x \notin parked'
      /\ hpc'[x] \notin {"release", "delete"} /\ answer'[x] \notin Failures
      /\ used'["parkFail"] > 0 => x \notin Published'
  BY DEF OfEntity, Untouched
<1>1. used["parkFail"] > 0 => used'["parkFail"] > 0 BY FaultsStay
<1>2. ASSUME NEW r \in Requests, HttpStep(r)
      PROVE  /\ row[x] = "none" /\ x \notin parked
             /\ hpc[x] \notin {"release", "delete"} /\ answer[x] \notin Failures
             /\ used["parkFail"] > 0 => x \notin Published
  <2>1. UNCHANGED <<row, parked>> /\ Published \subseteq Published' BY <1>2, HttpFrame, PublishedGrows DEF Types
  <2>2. CASE x # r BY <1>0, <1>1, <1>2, <2>1, <2>2, HttpOthers
  <2>3. CASE x = r
    <3>1. hpc[r] # "done" /\ (hpc[r] \in {"release", "delete"} => hpc'[r] \in {"release", "delete"}
             \/ answer'[r] = "unavailable" \/ answer'[r] = "died")
      BY <1>2, OwnMove
    <3>2. answer[r] = None BY <3>1 DEF Ended
    <3>3. None \notin Failures BY IngestionAssumption DEF Failures, Ids
    <3> QED BY <1>0, <1>1, <2>1, <2>3, <3>1, <3>2, <3>3 DEF Failures
  <2> QED BY <2>2, <2>3
<1>3. CASE NextBucket BY <1>0, <1>1, <1>3 DEF NextBucket, http, kafka, db, Published
<1>4. ASSUME NEW c \in Consumers, Handler(c)
      PROVE  /\ row[x] = "none" /\ x \notin parked
             /\ hpc[x] \notin {"release", "delete"} /\ answer[x] \notin Failures
             /\ used["parkFail"] > 0 => x \notin Published
  <2>1. UNCHANGED <<hpc, answer, log>> /\ (UNCHANGED parked \/ Park(c)) BY <1>4, HandlerFrame
  <2>2. parked \subseteq parked' /\ Published' = Published BY <2>1 DEF Park, Published
  <2>3. row[x] = "none" BY <1>0, <1>4, RowStays
  <2> QED BY <1>0, <1>1, <2>1, <2>2, <2>3
<1>5. CASE \E d \in Consumers : Moved(d) BY <1>0, <1>1, <1>5, MovedFrame DEF Published
<1>6. CASE UNCHANGED vars BY <1>0, <1>1, <1>6, Frozen DEF Published
<1> QED BY <1>2, <1>3, <1>4, <1>5, <1>6, Steps

\* Which slots are an event's, and that no other entity's event has them.
LEMMA KeysApart ==
    ASSUME NEW x, NEW r, KeySlot(x) = KeySlot(r)
    PROVE  KeyOf[x] = KeyOf[r]
<1>1. KeySlot(x)[2] = KeyOf[x] BY DEF KeySlot
<1>2. KeySlot(r)[2] = KeyOf[r] BY DEF KeySlot
<1> QED BY <1>1, <1>2

LEMMA PrintsApart ==
    ASSUME NEW e, NEW b, NEW d, NEW a, PrintOf(e, b) = PrintOf(d, a)
    PROVE  e = d /\ b = a
<1>1. PrintOf(e, b)[2] = e /\ PrintOf(e, b)[3] = b BY DEF PrintOf
<1>2. PrintOf(d, a)[2] = d /\ PrintOf(d, a)[3] = a BY DEF PrintOf
<1> QED BY <1>1, <1>2

LEMMA KindsApart ==
    ASSUME NEW x, NEW e, NEW b
    PROVE  KeySlot(x) # PrintOf(e, b)
<1>1. KeySlot(x)[1] = "idempotency" /\ PrintOf(e, b)[1] = "dedup" BY DEF KeySlot, PrintOf
<1> QED BY <1>1

LEMMA PrintIs ==
    ASSUME NEW r, NEW b
    PROVE  generateEventFingerprint(r, b) = PrintOf(EntityOf[r], b)
  BY DEF generateEventFingerprint, PrintOf

LEMMA AreSlots ==
    ASSUME Types
    PROVE  /\ \A e \in Entities, b \in 0..MaxBucket : PrintOf(e, b) \in Slots /\ redis[PrintOf(e, b)] \in Ids
           /\ \A x \in Requests : KeyOf[x] # None => KeySlot(x) \in Slots /\ redis[KeySlot(x)] \in Ids
<1>1. \A e \in Entities, b \in 0..MaxBucket : PrintOf(e, b) \in Slots BY DEF PrintOf, Slots
<1>2. \A x \in Requests : KeyOf[x] # None => KeySlot(x) \in Slots BY DEF KeySlot, Slots, Keys
<1> QED BY <1>1, <1>2 DEF Types, HttpTypes

LEMMA WantedForm ==
    ASSUME NEW r, NEW b, NEW i \in 1..Len(Wanted(r, b))
    PROVE  /\ i = 1 /\ KeyOf[r] # None => Wanted(r, b)[i] = KeySlot(r)
           /\ i # 1 \/ KeyOf[r] = None => Wanted(r, b)[i] = PrintOf(EntityOf[r], b)
           /\ i # 1 => KeyOf[r] # None /\ i = 2
<1>1. CASE KeyOf[r] = None
  <2>1. Wanted(r, b) = <<PrintOf(EntityOf[r], b)>> BY <1>1, PrintIs DEF Wanted
  <2>2. Len(Wanted(r, b)) = 1 /\ Wanted(r, b)[1] = PrintOf(EntityOf[r], b) BY <2>1
  <2> QED BY <1>1, <2>2
<1>2. CASE KeyOf[r] # None
  <2>1. Wanted(r, b) = <<KeySlot(r), PrintOf(EntityOf[r], b)>> BY <1>2, PrintIs DEF Wanted, KeySlot
  <2>2. Len(Wanted(r, b)) = 2 /\ Wanted(r, b)[1] = KeySlot(r) /\ Wanted(r, b)[2] = PrintOf(EntityOf[r], b) BY <2>1
  <2> QED BY <1>2, <2>2
<1> QED BY <1>1, <1>2

\* The slot a request is at.
LEMMA AtSlot ==
    ASSUME Types, NEW r \in Requests
    PROVE  /\ LastSlot(r) => Slot(r) = PrintOf(EntityOf[r], hbucket[r])
           /\ ~LastSlot(r) => Slot(r) = KeySlot(r) /\ KeyOf[r] # None /\ hidx[r] = 1
           /\ hidx[r] = 2 => LastSlot(r) /\ KeyOf[r] # None
           /\ hidx[r] = 1 /\ LastSlot(r) => KeyOf[r] = None
           /\ hidx[r] \in 1..2 /\ hbucket[r] \in 0..MaxBucket /\ redis[Slot(r)] \in Ids /\ Slot(r) \in Slots
<1>1. /\ hidx[r] \in 1..2 /\ hidx[r] <= Width(r) /\ (LastSlot(r) <=> hidx[r] = Width(r)) /\ redis[Slot(r)] \in Ids
      /\ Slot(r) \in Slots
  BY SlotIsSlot
<1>2. hbucket[r] \in 0..MaxBucket BY DEF Types, HttpTypes
<1>3. generateEventFingerprint(r, hbucket[r]) = PrintOf(EntityOf[r], hbucket[r]) BY PrintIs
<1>4. Width(r) = (IF KeyOf[r] = None THEN 1 ELSE 2) BY DEF Width
<1> QED BY <1>1, <1>2, <1>3, <1>4, SlotForm

\* Slots a step of another entity's event leaves alone.
LEMMA ForeignSlots ==
    ASSUME KeyNamesEvent, NEW e, NEW r \in Requests, EntityOf[r] # e
    PROVE  /\ \A x \in OfEntity(e) : KeyOf[x] # None => KeySlot(x) # KeySlot(r) /\ \A b : KeySlot(x) # PrintOf(EntityOf[r], b)
           /\ \A a : PrintOf(e, a) # KeySlot(r) /\ \A b : PrintOf(e, a) # PrintOf(EntityOf[r], b)
<1>1. ASSUME NEW x \in OfEntity(e), KeyOf[x] # None
      PROVE  KeySlot(x) # KeySlot(r) /\ \A b : KeySlot(x) # PrintOf(EntityOf[r], b)
  <2>1. x \in Requests /\ EntityOf[x] = e BY DEF OfEntity
  <2>2. KeyOf[x] # KeyOf[r] BY <1>1, <2>1 DEF KeyNamesEvent
  <2>3. KeySlot(x) # KeySlot(r) BY <2>2, KeysApart
  <2>4. ASSUME NEW b PROVE KeySlot(x) # PrintOf(EntityOf[r], b) BY KindsApart
  <2> QED BY <2>3, <2>4
<1>2. ASSUME NEW a PROVE PrintOf(e, a) # KeySlot(r) /\ \A b : PrintOf(e, a) # PrintOf(EntityOf[r], b)
  <2>1. PrintOf(e, a) # KeySlot(r) BY KindsApart
  <2>2. ASSUME NEW b PROVE PrintOf(e, a) # PrintOf(EntityOf[r], b) BY PrintsApart
  <2> QED BY <2>1, <2>2
<1> QED BY <1>1, <1>2

LEMMA HttpSlots ==
    ASSUME Types, NEW r \in Requests, HttpStep(r), NEW s \in Slots, KeyOf[r] # None => s # KeySlot(r),
           \A b : s # PrintOf(EntityOf[r], b)
    PROVE  redis'[s] = redis[s]
<1>0. redis \in [Slots -> Ids] BY DEF Types, HttpTypes
<1>1. s # Slot(r) BY AtSlot
<1>2. CASE claim(r) BY <1>0, <1>1, <1>2 DEF claim
<1>3. CASE Untake(r)
  <2>1. hbucket[r] \in 0..MaxBucket /\ hidx[r] \in 1..2 /\ hidx[r] <= Width(r) BY SlotIsSlot DEF Types, HttpTypes
  <2>2. Len(Wanted(r, hbucket[r])) = Width(r) /\ Width(r) \in 1..2 BY <2>1, WantedSlots
  <2>3. \A i \in 1..(hidx[r] - 1) : i \in 1..Len(Wanted(r, hbucket[r])) BY <2>1, <2>2
  <2>4. \A i \in 1..(hidx[r] - 1) : Wanted(r, hbucket[r])[i] # s BY <2>3, WantedForm
  <2> QED BY <1>0, <1>3, <2>4 DEF Untake
<1>4. CASE ReleaseDelete(r) BY <1>0, <1>1, <1>4 DEF ReleaseDelete
<1>5. CASE Arrive(r) BY <1>5 DEF Arrive
<1>6. CASE ReadHolder(r) BY <1>6 DEF ReadHolder
<1>7. CASE Publish(r) BY <1>7 DEF Publish
<1>8. CASE PublishFails(r) BY <1>8 DEF PublishFails
<1>9. CASE release(r) BY <1>9 DEF release
<1>10. CASE HandlerDies(r) BY <1>10 DEF HandlerDies
<1> QED BY <1>2, <1>3, <1>4, <1>5, <1>6, <1>7, <1>8, <1>9, <1>10 DEF HttpStep

LEMMA KeptLives ==
    ASSUME NEW x, Kept(x)
    PROVE  Live(x)
<1>1. CASE hpc[x] = "publish" BY <1>1 DEF Live
<1>2. CASE x \in Published
  <2>1. PICK i \in 1..Len(log) : log[i] = x BY <1>2 DEF Published
  <2> QED BY <2>1 DEF Kept, Live, Waits
<1> QED BY <1>1, <1>2 DEF Kept, OnItsWay

\* Who holds an entity's slots.
LEMMA Holders ==
    ASSUME Types, KeyNamesEvent, NEW e \in Entities, Owing(e)
    PROVE  /\ \A x \in OfEntity(e), h \in Requests : KeyOf[x] # None /\ redis[KeySlot(x)] = h =>
                 h \in OfEntity(e) /\ KeyOf[h] = KeyOf[x] /\ (Taking(h) \/ Kept(h)) /\ Live(h)
           /\ \A x \in OfEntity(e) : Taking(x) => redis[KeySlot(x)] = x /\ KeyOf[x] # None
           /\ \A b \in 0..MaxBucket, h \in Requests : redis[PrintOf(e, b)] = h => h \in OfEntity(e)
           /\ Printed(e) => \E b \in 0..MaxBucket, h \in OfEntity(e) : redis[PrintOf(e, b)] = h /\ Kept(h)
<1>1. ASSUME NEW x \in OfEntity(e), NEW h \in Requests, KeyOf[x] # None, redis[KeySlot(x)] = h
      PROVE  h \in OfEntity(e) /\ KeyOf[h] = KeyOf[x] /\ (Taking(h) \/ Kept(h)) /\ Live(h)
  <2>1. KeyOf[h] = KeyOf[x] /\ (Taking(h) \/ Kept(h)) BY <1>1 DEF Owing, KeyKept
  <2>2. x \in Requests /\ EntityOf[x] = e BY DEF OfEntity
  <2>3. EntityOf[h] = e BY <1>1, <2>1, <2>2 DEF KeyNamesEvent
  <2>4. Live(h) BY <2>1, KeptLives DEF Live
  <2> QED BY <2>1, <2>3, <2>4 DEF OfEntity
<1>2. ASSUME NEW x \in OfEntity(e), Taking(x) PROVE redis[KeySlot(x)] = x /\ KeyOf[x] # None
  <2>1. x \in Requests /\ hidx[x] = 2 BY <1>2 DEF OfEntity, Taking
  <2>2. KeyOf[x] # None BY <2>1, AtSlot
  <2> QED BY <1>2, <2>2 DEF Owing, KeyKept
<1>3. \A b \in 0..MaxBucket, h \in Requests : redis[PrintOf(e, b)] = h => h \in OfEntity(e)
  BY DEF Owing, PrintKept, OfEntity
<1> QED BY <1>1, <1>2, <1>3 DEF Owing, SomeKept

\* A step that leaves the entity's slots, who is taking, and who is kept.
LEMMA OwingFrame ==
    ASSUME Types, Types', KeyNamesEvent, NEW e \in Entities, Owing(e),
           \A x \in OfEntity(e) : KeyOf[x] # None => redis'[KeySlot(x)] = redis[KeySlot(x)],
           \A b \in 0..MaxBucket : redis'[PrintOf(e, b)] = redis[PrintOf(e, b)],
           bucket' = bucket \/ bucket' = bucket + 1,
           \A x \in OfEntity(e) : /\ Taking(x)' <=> Taking(x)
                                  /\ OnItsWay(x) => OnItsWay(x)'
                                  /\ Kept(x) => Kept(x)',
           Rechecked(e)', Backing(e)', Owed(e)'
    PROVE  Owing(e)'
<1>0. bucket \in Nat /\ \A b \in 0..MaxBucket : b \in Nat BY IngestionAssumption DEF Types, HttpTypes
<1>1. KeyKept(e)'
  <2>1. \A x \in OfEntity(e) : Taking(x)' => redis'[KeySlot(x)] = x BY Holders
  <2>2. \A x \in OfEntity(e), h \in Requests : KeyOf[x] # None /\ redis'[KeySlot(x)] = h =>
          KeyOf[h] = KeyOf[x] /\ (Taking(h)' \/ Kept(h)')
    BY Holders
  <2> QED BY <2>1, <2>2 DEF KeyKept, OfEntity, KeySlot
<1>2. PrintKept(e)'
  <2>1. ASSUME NEW b \in 0..MaxBucket, NEW h \in Requests, redis'[PrintOf(e, b)] = h
        PROVE  /\ b <= bucket' /\ EntityOf[h] = e /\ OnItsWay(h)'
               /\ KeyOf[h] # None => redis'[KeySlot(h)] = h
               /\ b = bucket' => Kept(h)'
    <3>1. /\ b <= bucket /\ EntityOf[h] = e /\ OnItsWay(h) /\ h \in OfEntity(e)
          /\ KeyOf[h] # None => redis[KeySlot(h)] = h
          /\ b = bucket => Kept(h)
      BY <2>1 DEF Owing, PrintKept, OfEntity
    <3>2. b <= bucket' /\ (b = bucket' => b = bucket) BY <1>0, <3>1
    <3> QED BY <3>1, <3>2
  <2> QED BY <2>1 DEF PrintKept, KeySlot, PrintOf
<1>3. SomeKept(e)'
  <2>1. Printed(e)' => Printed(e) BY DEF Printed, PrintOf
  <2>2. Printed(e)' => \E b \in 0..MaxBucket, h \in Requests : redis'[PrintOf(e, b)] = h /\ Kept(h)'
    <3>1. \A h \in OfEntity(e) : h \in Requests BY DEF OfEntity
    <3> QED BY <2>1, <3>1, Holders
  <2> QED BY <2>2 DEF SomeKept, Printed, PrintOf
<1> QED BY <1>1, <1>2, <1>3 DEF Owing

LEMMA OwedFrame ==
    ASSUME NEW e, Owed(e), \A x \in OfEntity(e) : (Promised(x)' => Promised(x)) /\ (Live(x) => Live(x)')
    PROVE  Owed(e)'
  BY DEF Owed, OfEntity

\* What a request's step does to the records on the bus.
LEMMA HttpBus ==
    ASSUME Types, NEW r \in Requests, HttpStep(r), NEW x \in Requests
    PROVE  /\ (\A i \in 1..Len(log) : log[i] = x => ~Gone(i)) => (\A i \in 1..Len(log') : log'[i] = x => ~Gone(i)')
           /\ Waits(x) => Waits(x)'
           /\ x \in Published => x \in Published'
           /\ x # r => (x \in Published' => x \in Published)
           /\ log' = Append(log, r) => Waits(r)'
<1>1. UNCHANGED <<cpc, at, handled>> /\ (log' = log \/ log' = Append(log, r)) BY HttpFrame
<1>2. BusTypes /\ OtherTypes BY DEF Types
<1>3. \A i : Gone(i)' <=> Gone(i) BY <1>1 DEF Gone
<1>4. ~Gone(Len(log) + 1)
  <2>1. Len(log) \in Nat BY <1>2 DEF BusTypes
  <2>2. handled \subseteq 1..Len(log) /\ \A c \in Consumers : at[c] \in 0..Len(log) BY <1>2 DEF OtherTypes, BusTypes
  <2> QED BY <2>1, <2>2 DEF Gone
<1>5. /\ Published \subseteq Published' /\ Published' \subseteq Published \cup {r}
      /\ log' = Append(log, r) => Len(log') = Len(log) + 1 /\ log'[Len(log) + 1] = r
      /\ \A i \in 1..Len(log') : i \in 1..Len(log) \/ (i = Len(log) + 1 /\ log'[i] = r)
  BY <1>1, <1>2, PublishedOwn
<1>6. Len(log) \in Nat /\ \A i \in 1..Len(log) : i \in 1..Len(log') /\ log'[i] = log[i] BY <1>1, <1>2, LogGrows
<1>7. Waits(x) => Waits(x)' BY <1>3, <1>6 DEF Waits
<1>8. log' = Append(log, r) => Waits(r)'
  <2> SUFFICES ASSUME log' = Append(log, r) PROVE Waits(r)' OBVIOUS
  <2>1. PICK k : k = Len(log) + 1 OBVIOUS
  <2>2. k \in 1..Len(log') /\ log'[k] = r BY <1>5, <1>6, <2>1
  <2>3. ~Gone(k)' BY <1>3, <1>4, <2>1
  <2> QED BY <2>2, <2>3 DEF Waits
<1>9. ASSUME \A i \in 1..Len(log) : log[i] = x => ~Gone(i), NEW i \in 1..Len(log'), log'[i] = x
      PROVE  ~Gone(i)'
  BY <1>3, <1>4, <1>5, <1>6, <1>9
<1> QED BY <1>5, <1>7, <1>8, <1>9

\* A request's step and the others' places.
LEMMA OthersKeep ==
    ASSUME Types, NEW r \in Requests, HttpStep(r), NEW x \in Requests, x # r
    PROVE  /\ Taking(x)' <=> Taking(x)
           /\ OnItsWay(x)' <=> OnItsWay(x)
           /\ Kept(x) => Kept(x)'
           /\ Live(x) => Live(x)'
           /\ Promised(x)' => Promised(x)
           /\ hpc'[x] = hpc[x] /\ hidx'[x] = hidx[x] /\ existing'[x] = existing[x]
<1>1. hpc'[x] = hpc[x] /\ hidx'[x] = hidx[x] /\ answer'[x] = answer[x] BY HttpOthers
<1>2. existing'[x] = existing[x]
  <2>0. existing \in [Requests -> Ids] BY DEF Types, HttpTypes
  <2>1. UNCHANGED existing \/ existing' = [existing EXCEPT ![r] = redis[Slot(r)]]
    BY DEF HttpStep, Arrive, claim, ReadHolder, Untake, Publish, PublishFails, release, ReleaseDelete, HandlerDies
  <2> QED BY <2>0, <2>1
<1>3. OnItsWay(x)' <=> OnItsWay(x) BY <1>1, HttpBus DEF OnItsWay
<1>4. Taking(x)' <=> Taking(x) BY <1>1 DEF Taking
<1>5. Kept(x) => Kept(x)' BY <1>3, HttpBus DEF Kept
<1>6. Live(x) => Live(x)' BY <1>1, <1>4, HttpBus DEF Live
<1>7. Promised(x)' => Promised(x) BY <1>1, <1>3 DEF Promised
<1> QED BY <1>1, <1>2, <1>3, <1>4, <1>5, <1>6, <1>7

\* No claim is made for a record that is on the bus.
LEMMA RecheckedHttp ==
    ASSUME Types, Ended, NEW e, Rechecked(e), NEW r \in Requests, HttpStep(r)
    PROVE  Rechecked(e)'
<1>1. UNCHANGED <<cpc, at, cidx>> /\ (log' = log \/ log' = Append(log, r)) BY HttpFrame
<1>2. \A c \in Consumers : cpc[c] # "idle" => Message(c)' = Message(c) BY <1>1, LogGrows, InHand DEF Message, Types
<1>3. ASSUME NEW c \in Consumers, cpc[c] = "check", cidx[c] = 2, Message(c) \in OfEntity(e)
      PROVE  redis'[KeySlot(Message(c))] # Message(c)
  <2> DEFINE n == Message(c)
  <2>1. n \in Requests /\ at[c] \in 1..Len(log) /\ cidx[c] <= Width(n) BY <1>3, InHand DEF Types, BusTypes
  <2>2. n \in Published BY <2>1 DEF Published, Message
  <2>3. hpc[n] # "claim" BY <2>1, <2>2 DEF Ended
  <2>4. KeyOf[n] # None BY <1>3, <2>1 DEF Width
  <2>5. KeySlot(n) \in Slots BY <2>1, <2>4, AreSlots
  <2>6. redis[KeySlot(n)] # n BY <1>3 DEF Rechecked
  <2> HIDE DEF n
  <2>7. claim(r) => hpc[r] = "claim" BY DEF claim
  <2>8. n # None BY <2>1, IngestionAssumption
  <2>9. redis'[KeySlot(n)] # n BY <2>3, <2>5, <2>6, <2>7, <2>8, HttpTakes
  <2> QED BY <2>9 DEF n
<1>4. ASSUME NEW c \in Consumers, cpc'[c] = "check", cidx'[c] = 2, Message(c)' \in OfEntity(e)
      PROVE  redis'[KeySlot(Message(c)')] # Message(c)'
  <2>1. cpc[c] = "check" /\ cidx[c] = 2 BY <1>1, <1>4
  <2>2. Message(c)' = Message(c) BY <1>2, <2>1
  <2> QED BY <1>3, <1>4, <2>1, <2>2
<1> QED BY <1>4 DEF Rechecked, OfEntity, KeySlot

\* A step of another entity's request.
LEMMA OwingForeign ==
    ASSUME Types, Types', Ended, KeyNamesEvent, NEW e \in Entities, Owing(e),
           NEW r \in Requests, HttpStep(r), EntityOf[r] # e
    PROVE  Owing(e)'
<1>0. \A x \in OfEntity(e) : x \in Requests /\ x # r BY DEF OfEntity
<1>1. \A x \in OfEntity(e) : KeyOf[x] # None => redis'[KeySlot(x)] = redis[KeySlot(x)]
  BY <1>0, AreSlots, ForeignSlots, HttpSlots
<1>2. \A b \in 0..MaxBucket : redis'[PrintOf(e, b)] = redis[PrintOf(e, b)]
  BY AreSlots, ForeignSlots, HttpSlots
<1>3. bucket' = bucket BY HttpFrame
<1>4. \A x \in OfEntity(e) : /\ Taking(x)' <=> Taking(x)
                             /\ OnItsWay(x) => OnItsWay(x)'
                             /\ Kept(x) => Kept(x)'
  BY <1>0, OthersKeep
<1>5. Rechecked(e)' BY RecheckedHttp DEF Owing
<1>6. Owed(e)' BY <1>0, OthersKeep, OwedFrame DEF Owing
<1>7. Backing(e)'
  <2>1. Printed(e) => Printed(e)' BY <1>2 DEF Printed, PrintOf
  <2> QED BY <1>0, <2>1, OthersKeep DEF Owing, Backing, OfEntity
<1> QED BY <1>1, <1>2, <1>3, <1>4, <1>5, <1>6, <1>7, OwingFrame

\* A request that has published nothing and was not answered.
LEMMA NotYet ==
    ASSUME Ended, NEW r \in Requests, hpc[r] \in {"idle", "claim", "holder", "untake"}
    PROVE  /\ r \notin Published /\ ~OnItsWay(r) /\ ~Kept(r) /\ ~Waits(r) /\ answer[r] = None /\ ~Promised(r)
           /\ hpc[r] = "idle" => ~Taking(r)
<1>1. r \notin Published /\ answer[r] = None /\ (hpc[r] = "idle" => hidx[r] = 1) BY DEF Ended
<1>2. None \notin Requests BY IngestionAssumption
<1>3. \A i \in 1..Len(log) : log[i] # r BY <1>1 DEF Published
<1> QED BY <1>1, <1>2, <1>3 DEF OnItsWay, Kept, Waits, Promised, Taking

LEMMA OwedLive ==
    ASSUME NEW e, NEW x \in OfEntity(e), Live(x)'
    PROVE  Owed(e)'
  BY DEF Owed, OfEntity

\* The others of the entity, in a step of one of its requests.
LEMMA OwnOthers ==
    ASSUME Types, NEW e, NEW r \in OfEntity(e), HttpStep(r)
    PROVE  /\ r \in Requests /\ EntityOf[r] = e
           /\ bucket' = bucket
           /\ \A x \in OfEntity(e) : x \in Requests /\
                 (x # r => /\ Taking(x)' <=> Taking(x)
                           /\ OnItsWay(x)' <=> OnItsWay(x)
                           /\ Kept(x) => Kept(x)'
                           /\ Live(x) => Live(x)'
                           /\ Promised(x)' => Promised(x)
                           /\ hpc'[x] = hpc[x] /\ hidx'[x] = hidx[x] /\ existing'[x] = existing[x])
<1>1. r \in Requests /\ EntityOf[r] = e BY DEF OfEntity
<1>2. ASSUME NEW x \in OfEntity(e), x # r
      PROVE  /\ Taking(x)' <=> Taking(x)
             /\ OnItsWay(x)' <=> OnItsWay(x)
             /\ Kept(x) => Kept(x)'
             /\ Live(x) => Live(x)'
             /\ Promised(x)' => Promised(x)
             /\ hpc'[x] = hpc[x] /\ hidx'[x] = hidx[x] /\ existing'[x] = existing[x]
  <2>1. x \in Requests BY DEF OfEntity
  <2> QED BY <1>1, <1>2, <2>1, OthersKeep
<1>3. \A x \in OfEntity(e) : x \in Requests BY DEF OfEntity
<1> QED BY <1>1, <1>2, <1>3, HttpFrame

LEMMA BackingOwn ==
    ASSUME Types, NEW e, Backing(e), NEW r \in OfEntity(e), HttpStep(r), Printed(e) => Printed(e)',
           hpc'[r] = "untake" => hidx'[r] = 2 /\ (existing'[r] # None => Printed(e)')
    PROVE  Backing(e)'
<1>1. ASSUME NEW x \in OfEntity(e), hpc'[x] = "untake"
      PROVE  hidx'[x] = 2 /\ (existing'[x] # None => Printed(e)')
  BY <1>1, OwnOthers DEF Backing
<1> QED BY <1>1 DEF Backing, OfEntity

\* A request's step that leaves redis and goes on.
LEMMA OwingOwn ==
    ASSUME Types, Types', Ended, KeyNamesEvent, NEW e \in Entities, Owing(e), NEW r \in OfEntity(e), HttpStep(r),
           redis' = redis, Taking(r)' <=> Taking(r), OnItsWay(r) => OnItsWay(r)',
           hpc'[r] = "untake" => hidx'[r] = 2 /\ (existing'[r] # None => Printed(e)),
           Owed(e)'
    PROVE  Owing(e)'
<1>1. Printed(e)' <=> Printed(e) BY DEF Printed, PrintOf
<1>2. Backing(e)' BY <1>1, BackingOwn DEF Owing
<1>3. Rechecked(e)' BY OwnOthers, RecheckedHttp DEF Owing
<1>4. Kept(r) => Kept(r)' BY OwnOthers, HttpBus DEF Kept
<1>5. \A x \in OfEntity(e) : /\ Taking(x)' <=> Taking(x)
                             /\ OnItsWay(x) => OnItsWay(x)'
                             /\ Kept(x) => Kept(x)'
  BY <1>4, OwnOthers
<1> QED BY <1>2, <1>3, <1>5, OwnOthers, OwingFrame

LEMMA OwedOwn ==
    ASSUME Types, NEW e, Owed(e), NEW r \in OfEntity(e), HttpStep(r), ~Promised(r)', Live(r) => Live(r)'
    PROVE  Owed(e)'
<1>1. \A x \in OfEntity(e) : (Promised(x)' => Promised(x)) /\ (Live(x) => Live(x)') BY OwnOthers
<1> QED BY <1>1, OwedFrame

\* Arrive, a claim that finds the slot held, and the publish.
LEMMA OwingQuietly ==
    ASSUME Types, Types', Ended, Ended', KeyNamesEvent, NEW e \in Entities, Owing(e), NEW r \in OfEntity(e), HttpStep(r),
           redis' = redis, Arrive(r) \/ claim(r) \/ Publish(r)
    PROVE  Owing(e)'
<1>0. r \in Requests /\ hpc \in [Requests -> HttpPc] /\ r # None /\ redis[Slot(r)] \in Ids /\ Slot(r) \in Slots
      /\ redis \in [Slots -> Ids] /\ hidx \in [Requests -> 1..2]
  BY OwnOthers, SlotIsSlot, IngestionAssumption DEF Types, HttpTypes
<1>1. CASE Arrive(r)
  <2>1. hpc[r] = "idle" /\ hpc'[r] = "claim" /\ hidx' = hidx BY <1>0, <1>1 DEF Arrive, Http
  <2>2. /\ ~OnItsWay(r) /\ ~Waits(r) /\ ~Taking(r) /\ ~OnItsWay(r)' /\ ~Promised(r)' /\ ~Taking(r)' /\ ~Live(r)
    <3>1. ~OnItsWay(r) /\ ~Waits(r) /\ ~Taking(r) BY <1>0, <2>1, NotYet
    <3>2. hidx'[r] # 2 BY <1>0, <2>1 DEF Ended
    <3>3. r \notin Published' /\ answer'[r] = None BY <1>0, <2>1 DEF Ended
    <3> QED BY <1>0, <2>1, <3>1, <3>2, <3>3, IngestionAssumption DEF OnItsWay, Promised, Taking, Live
  <2>3. Owed(e)' BY <2>2, OwedOwn DEF Owing
  <2> QED BY <2>1, <2>2, <2>3, OwingOwn
<1>2. CASE claim(r)
  <2>1. hpc[r] = "claim" /\ hpc'[r] = "holder" /\ hidx' = hidx
    <3>1. redis[Slot(r)] # None
      <4>1. SUFFICES ASSUME redis[Slot(r)] = None PROVE FALSE OBVIOUS
      <4>2. redis' = [redis EXCEPT ![Slot(r)] = r] BY <1>2, <4>1 DEF claim
      <4> QED BY <1>0, <4>1, <4>2
    <3> QED BY <1>0, <1>2, <3>1 DEF claim, Http
  <2>2. /\ ~OnItsWay(r) /\ ~Waits(r) /\ ~OnItsWay(r)' /\ ~Promised(r)'
        /\ (Taking(r)' <=> Taking(r)) /\ (Live(r) => Live(r)')
    <3>1. ~OnItsWay(r) /\ ~Waits(r) BY <1>0, <2>1, NotYet
    <3>2. r \notin Published' /\ answer'[r] = None BY <1>0, <2>1 DEF Ended
    <3> QED BY <1>0, <2>1, <3>1, <3>2, IngestionAssumption DEF OnItsWay, Promised, Taking, Live
  <2>3. Owed(e)' BY <2>2, OwedOwn DEF Owing
  <2> QED BY <2>1, <2>2, <2>3, OwingOwn
<1>3. CASE Publish(r)
  <2>1. hpc[r] = "publish" /\ hpc'[r] = "done" /\ log' = Append(log, r) BY <1>0, <1>3 DEF Publish, Answer, Http
  <2>2. Waits(r)' BY <1>0, <2>1, HttpBus
  <2>3. r \in Published' BY <1>0, <2>1, PublishedOwn DEF Types
  <2>4. Owed(e)' BY <2>2, OwedLive DEF Live
  <2>5. Taking(r)' <=> Taking(r) BY <2>1 DEF Taking
  <2>6. OnItsWay(r)' BY <2>3 DEF OnItsWay
  <2> QED BY <2>1, <2>4, <2>5, <2>6, OwingOwn
<1> QED BY <1>1, <1>2, <1>3

\* What a request that found its slot held answers is backed.
LEMMA OwingReadHolder ==
    ASSUME Types, Types', Ended, Ended', KeyNamesEvent, NEW e \in Entities, Owing(e), NEW r \in OfEntity(e), HttpStep(r),
           ReadHolder(r)
    PROVE  Owing(e)'
<1>0. r \in Requests /\ EntityOf[r] = e /\ hpc \in [Requests -> HttpPc] /\ r # None /\ existing \in [Requests -> Ids]
  BY OwnOthers, IngestionAssumption DEF Types, HttpTypes
<1>1. /\ hpc[r] = "holder" /\ redis' = redis /\ hidx' = hidx /\ existing'[r] = redis[Slot(r)]
      /\ hidx[r] \in 1..2 /\ redis[Slot(r)] \in Ids
  BY <1>0, AtSlot DEF ReadHolder
<1>2. ~OnItsWay(r) /\ ~Waits(r) /\ ~Promised(r) /\ ~Kept(r) BY <1>0, <1>1, NotYet
<1>3. CASE hidx[r] = 2
  <2>1. hpc'[r] = "untake" BY <1>0, <1>1, <1>3 DEF ReadHolder, Http
  <2>2. existing'[r] # None => Printed(e)
    <3>1. Slot(r) = PrintOf(e, hbucket[r]) /\ hbucket[r] \in 0..MaxBucket BY <1>0, <1>3, AtSlot
    <3> QED BY <1>1, <3>1 DEF Printed
  <2>3. Taking(r) /\ Taking(r)' BY <1>1, <1>3, <2>1 DEF Taking
  <2>4. Owed(e)' BY <2>3, OwedLive DEF Live
  <2> QED BY <1>1, <1>2, <1>3, <2>1, <2>2, <2>3, <2>4, OwingOwn
<1>4. CASE hidx[r] = 1
  <2>1. Conclude(r, redis[Slot(r)]) BY <1>1, <1>4 DEF ReadHolder
  <2>2. ~Taking(r) BY <1>4 DEF Taking
  <2>3. CASE redis[Slot(r)] = None
    <3>1. hpc'[r] = "publish" BY <1>0, <2>1, <2>3 DEF Conclude, Http
    <3>2. Live(r)' /\ ~Taking(r)' BY <3>1 DEF Live, Taking
    <3>3. Owed(e)' BY <3>2, OwedLive
    <3> QED BY <1>1, <1>2, <2>2, <3>1, <3>2, <3>3, OwingOwn
  <2>4. CASE redis[Slot(r)] # None
    <3>1. hpc'[r] = "done" BY <1>0, <2>1, <2>4 DEF Conclude, Answer, Http
    <3>2. ~Taking(r)' BY <3>1 DEF Taking
    <3>3. \E h \in OfEntity(e) : Live(h)
      <4>1. CASE LastSlot(r)
        <5>1. Printed(e)
          <6>1. Slot(r) = PrintOf(e, hbucket[r]) /\ hbucket[r] \in 0..MaxBucket BY <1>0, <4>1, AtSlot
          <6> QED BY <2>4, <6>1 DEF Printed
        <5>2. \E h \in OfEntity(e) : Kept(h) BY <5>1, Holders
        <5> QED BY <5>2, KeptLives
      <4>2. CASE ~LastSlot(r)
        <5>1. Slot(r) = KeySlot(r) /\ KeyOf[r] # None BY <1>0, <4>2, AtSlot
        <5>2. redis[Slot(r)] \in Requests BY <1>1, <2>4 DEF Ids
        <5> QED BY <5>1, <5>2, Holders
      <4> QED BY <4>1, <4>2
    <3>4. PICK h \in OfEntity(e) : Live(h) BY <3>3
    <3>5. h # r BY <1>1, <1>2, <2>2, <3>4 DEF Live
    <3>6. Live(h)' BY <3>4, <3>5, OwnOthers
    <3>7. Owed(e)' BY <3>6, OwedLive
    <3> QED BY <1>1, <1>2, <2>2, <3>1, <3>2, <3>7, OwingOwn
  <2> QED BY <2>3, <2>4
<1> QED BY <1>1, <1>3, <1>4

\* A request takes its key, and is about to claim its fingerprint.
LEMMA OwingTakesKey ==
    ASSUME Types, Types', Ended, Ended', KeyNamesEvent, NEW e \in Entities, Owing(e), NEW r \in OfEntity(e), HttpStep(r),
           claim(r), redis[Slot(r)] = None, ~LastSlot(r)
    PROVE  Owing(e)'
<1>0. r \in Requests /\ EntityOf[r] = e /\ hpc \in [Requests -> HttpPc] /\ r # None /\ redis \in [Slots -> Ids]
      /\ hidx \in [Requests -> 1..2]
  BY OwnOthers, IngestionAssumption DEF Types, HttpTypes
<1>1. Slot(r) = KeySlot(r) /\ KeyOf[r] # None /\ hidx[r] = 1 /\ KeySlot(r) \in Slots BY <1>0, AtSlot
<1>2. /\ hpc[r] = "claim" /\ hpc'[r] = "claim" /\ hidx'[r] = 2 /\ existing' = existing
      /\ redis' = [redis EXCEPT ![KeySlot(r)] = r]
  BY <1>0, <1>1 DEF claim
<1>3. \A s \in Slots : s # KeySlot(r) => redis'[s] = redis[s] BY <1>0, <1>2
<1>4. redis'[KeySlot(r)] = r BY <1>0, <1>1, <1>2
<1>5. ~OnItsWay(r) /\ ~Kept(r) BY <1>0, <1>2, NotYet
<1>6. Taking(r)' BY <1>2 DEF Taking
<1>7. \A x \in OfEntity(e) : Taking(x) => x # r BY <1>1 DEF Taking
<1>8. \A b \in 0..MaxBucket : redis'[PrintOf(e, b)] = redis[PrintOf(e, b)] BY <1>3, AreSlots, KindsApart
<1>9. redis[KeySlot(r)] = None BY <1>1
\* What another request holds is not what r took.
<1>10. ASSUME NEW x \in Requests, NEW h \in Requests, KeyOf[x] # None, redis[KeySlot(x)] = h
       PROVE  redis'[KeySlot(x)] = h
  <2>1. h # None BY IngestionAssumption
  <2>2. KeySlot(x) # KeySlot(r) BY <1>9, <1>10, <2>1
  <2> QED BY <1>3, <1>10, <2>2, AreSlots
<1>11. KeyKept(e)'
  <2>1. ASSUME NEW x \in OfEntity(e), Taking(x)' PROVE redis'[KeySlot(x)] = x
    <3>1. CASE x = r BY <1>4, <3>1
    <3>2. CASE x # r
      <4>1. Taking(x) /\ x \in Requests BY <2>1, <3>2, OwnOthers
      <4>2. redis[KeySlot(x)] = x /\ KeyOf[x] # None BY <4>1, Holders
      <4> QED BY <1>10, <4>1, <4>2
    <3> QED BY <3>1, <3>2
  <2>2. ASSUME NEW x \in OfEntity(e), NEW h \in Requests, KeyOf[x] # None, redis'[KeySlot(x)] = h
        PROVE  KeyOf[h] = KeyOf[x] /\ (Taking(h)' \/ Kept(h)')
    <3>0. x \in Requests BY OwnOthers
    <3>1. CASE KeySlot(x) = KeySlot(r)
      <4>1. h = r BY <1>4, <2>2, <3>1
      <4>2. KeyOf[x] = KeyOf[r] BY <3>1, KeysApart
      <4> QED BY <1>6, <4>1, <4>2
    <3>2. CASE KeySlot(x) # KeySlot(r)
      <4>1. redis[KeySlot(x)] = h BY <1>3, <2>2, <3>0, <3>2, AreSlots
      <4>2. h \in OfEntity(e) /\ KeyOf[h] = KeyOf[x] /\ (Taking(h) \/ Kept(h)) BY <2>2, <4>1, Holders
      <4>3. h # r BY <1>5, <1>7, <4>2
      <4> QED BY <4>2, <4>3, OwnOthers
    <3> QED BY <3>1, <3>2
  <2> QED BY <2>1, <2>2 DEF KeyKept, OfEntity, KeySlot
<1>12. PrintKept(e)'
  <2>1. ASSUME NEW b \in 0..MaxBucket, NEW h \in Requests, redis'[PrintOf(e, b)] = h
        PROVE  /\ b <= bucket' /\ EntityOf[h] = e /\ OnItsWay(h)'
               /\ KeyOf[h] # None => redis'[KeySlot(h)] = h
               /\ b = bucket' => Kept(h)'
    <3>1. redis[PrintOf(e, b)] = h BY <1>8, <2>1
    <3>2. /\ b <= bucket /\ EntityOf[h] = e /\ OnItsWay(h) /\ h \in OfEntity(e)
          /\ KeyOf[h] # None => redis[KeySlot(h)] = h
          /\ b = bucket => Kept(h)
      BY <3>1 DEF Owing, PrintKept, OfEntity
    <3>3. h # r BY <1>5, <3>2
    <3>4. KeyOf[h] # None => redis'[KeySlot(h)] = h BY <1>10, <3>2
    <3> QED BY <3>2, <3>3, <3>4, OwnOthers
  <2> QED BY <2>1 DEF PrintKept, KeySlot, PrintOf
<1>13. Printed(e)' <=> Printed(e) BY <1>8 DEF Printed, PrintOf
<1>14. SomeKept(e)'
  <2>1. SUFFICES ASSUME Printed(e) PROVE \E b \in 0..MaxBucket, h \in Requests : redis'[PrintOf(e, b)] = h /\ Kept(h)'
    BY <1>13 DEF SomeKept, PrintOf
  <2>2. PICK b \in 0..MaxBucket, h \in OfEntity(e) : redis[PrintOf(e, b)] = h /\ Kept(h) BY <2>1, Holders
  <2>3. h # r BY <1>5, <2>2
  <2>4. h \in Requests /\ Kept(h)' BY <2>2, <2>3, OwnOthers
  <2> QED BY <1>8, <2>2, <2>4
<1>15. Backing(e)' BY <1>2, <1>13, BackingOwn DEF Owing
<1>16. Rechecked(e)' BY <1>0, RecheckedHttp DEF Owing
<1>17. Owed(e)' BY <1>6, OwedLive DEF Live
<1> QED BY <1>11, <1>12, <1>14, <1>15, <1>16, <1>17 DEF Owing

\* A request takes its fingerprint, and goes on to publish.
LEMMA OwingTakesPrint ==
    ASSUME Types, Types', Holding, Ended, Ended', KeyNamesEvent, NEW e \in Entities, Owing(e), NEW r \in OfEntity(e),
           HttpStep(r), claim(r), redis[Slot(r)] = None, LastSlot(r)
    PROVE  Owing(e)'
<1> DEFINE hb == hbucket[r]
<1>0. r \in Requests /\ EntityOf[r] = e /\ hpc \in [Requests -> HttpPc] /\ r # None /\ redis \in [Slots -> Ids]
      /\ hidx \in [Requests -> 1..2] /\ hb \in 0..MaxBucket /\ hb <= bucket
  BY OwnOthers, IngestionAssumption DEF Types, HttpTypes, Holding, Marked
<1>1. Slot(r) = PrintOf(e, hb) /\ PrintOf(e, hb) \in Slots /\ hidx[r] \in 1..2 /\ (hidx[r] = 1 => KeyOf[r] = None)
  BY <1>0, AtSlot
<1>2. /\ hpc[r] = "claim" /\ hpc'[r] = "publish" /\ existing' = existing
      /\ redis' = [redis EXCEPT ![PrintOf(e, hb)] = r]
  BY <1>0, <1>1 DEF claim, Http
<1> HIDE DEF hb
<1>3. \A s \in Slots : s # PrintOf(e, hb) => redis'[s] = redis[s] BY <1>0, <1>2
<1>4. redis'[PrintOf(e, hb)] = r BY <1>0, <1>1, <1>2
<1>5. ~OnItsWay(r) /\ ~Kept(r) /\ r \notin Published BY <1>0, <1>2, NotYet
<1>6. ~Taking(r)' /\ OnItsWay(r)' /\ Live(r)' /\ Kept(r)'
  <2>1. ~Taking(r)' /\ OnItsWay(r)' /\ Live(r)' BY <1>2 DEF Taking, OnItsWay, Live
  <2>2. \A i \in 1..Len(log) : log[i] # r BY <1>5 DEF Published
  <2>3. \A i \in 1..Len(log') : log'[i] = r => ~Gone(i)' BY <1>0, <2>2, HttpBus
  <2> QED BY <2>1, <2>3 DEF Kept
<1>7. \A x \in Requests : KeyOf[x] # None => redis'[KeySlot(x)] = redis[KeySlot(x)] BY <1>3, AreSlots, KindsApart
<1>8. \A b \in 0..MaxBucket : b # hb => redis'[PrintOf(e, b)] = redis[PrintOf(e, b)] BY <1>3, AreSlots, PrintsApart
<1>9. KeyOf[r] # None => redis'[KeySlot(r)] = r
  <2> SUFFICES ASSUME KeyOf[r] # None PROVE redis'[KeySlot(r)] = r OBVIOUS
  <2>1. Taking(r) BY <1>1, <1>2 DEF Taking
  <2> QED BY <1>0, <1>7, <2>1, Holders
<1>10. KeyKept(e)'
  <2>1. ASSUME NEW x \in OfEntity(e), Taking(x)' PROVE redis'[KeySlot(x)] = x
    <3>1. x # r BY <1>6, <2>1
    <3>2. Taking(x) /\ x \in Requests BY <2>1, <3>1, OwnOthers
    <3> QED BY <1>7, <3>2, Holders
  <2>2. ASSUME NEW x \in OfEntity(e), NEW h \in Requests, KeyOf[x] # None, redis'[KeySlot(x)] = h
        PROVE  KeyOf[h] = KeyOf[x] /\ (Taking(h)' \/ Kept(h)')
    <3>1. redis[KeySlot(x)] = h BY <1>7, <2>2, OwnOthers
    <3>2. h \in OfEntity(e) /\ KeyOf[h] = KeyOf[x] /\ (Taking(h) \/ Kept(h)) BY <2>2, <3>1, Holders
    <3> QED BY <1>6, <3>2, OwnOthers
  <2> QED BY <2>1, <2>2 DEF KeyKept, OfEntity, KeySlot
<1>11. PrintKept(e)'
  <2>1. ASSUME NEW b \in 0..MaxBucket, NEW h \in Requests, redis'[PrintOf(e, b)] = h
        PROVE  /\ b <= bucket' /\ EntityOf[h] = e /\ OnItsWay(h)'
               /\ KeyOf[h] # None => redis'[KeySlot(h)] = h
               /\ b = bucket' => Kept(h)'
    <3>0. bucket' = bucket BY OwnOthers
    <3>1. CASE b = hb
      <4>1. h = r BY <1>4, <2>1, <3>1
      <4> QED BY <1>0, <1>6, <1>9, <3>0, <3>1, <4>1
    <3>2. CASE b # hb
      <4>1. redis[PrintOf(e, b)] = h BY <1>8, <2>1, <3>2
      <4>2. /\ b <= bucket /\ EntityOf[h] = e /\ OnItsWay(h) /\ h \in OfEntity(e)
            /\ KeyOf[h] # None => redis[KeySlot(h)] = h
            /\ b = bucket => Kept(h)
        BY <4>1 DEF Owing, PrintKept, OfEntity
      <4>3. h # r BY <1>5, <4>2
      <4> QED BY <1>7, <3>0, <4>2, <4>3, OwnOthers
    <3> QED BY <3>1, <3>2
  <2> QED BY <2>1 DEF PrintKept, KeySlot, PrintOf
<1>12. Printed(e)' BY <1>0, <1>4 DEF Printed, PrintOf
<1>13. SomeKept(e)'
  <2>1. \E b \in 0..MaxBucket, h \in Requests : redis'[PrintOf(e, b)] = h /\ Kept(h)' BY <1>0, <1>4, <1>6
  <2> QED BY <2>1 DEF SomeKept, PrintOf
<1>14. Backing(e)' BY <1>2, <1>12, BackingOwn DEF Owing
<1>15. Rechecked(e)' BY <1>0, RecheckedHttp DEF Owing
<1>16. Owed(e)' BY <1>6, OwedLive
<1> QED BY <1>10, <1>11, <1>13, <1>14, <1>15, <1>16 DEF Owing

\* A request that found its fingerprint held lets go of its key.
LEMMA OwingUntake ==
    ASSUME Types, Types', Ended, Ended', KeyNamesEvent, NEW e \in Entities, Owing(e), NEW r \in OfEntity(e), HttpStep(r),
           Untake(r)
    PROVE  Owing(e)'
<1>0. r \in Requests /\ EntityOf[r] = e /\ hpc \in [Requests -> HttpPc] /\ r # None /\ redis \in [Slots -> Ids]
      /\ existing[r] \in Ids
  BY OwnOthers, IngestionAssumption DEF Types, HttpTypes
<1>1. hpc[r] = "untake" /\ hidx[r] = 2 /\ (existing[r] # None => Printed(e)) /\ Taking(r)
  BY DEF Untake, Owing, Backing, Taking
<1>2. redis[KeySlot(r)] = r /\ KeyOf[r] # None /\ KeySlot(r) \in Slots BY <1>0, <1>1, Holders, AreSlots
<1>3. redis' = [s \in Slots |-> IF s = KeySlot(r) THEN None ELSE redis[s]]
  <2>1. Wanted(r, hbucket[r])[1] = KeySlot(r) BY <1>2 DEF Wanted, KeySlot
  <2>2. {Wanted(r, hbucket[r])[i] : i \in 1..(hidx[r] - 1)} = {KeySlot(r)} BY <1>1, <2>1
  <2> QED BY <2>2 DEF Untake
<1>4. redis'[KeySlot(r)] = None /\ \A s \in Slots : s # KeySlot(r) => redis'[s] = redis[s] BY <1>2, <1>3
<1>5. ~OnItsWay(r) /\ ~Kept(r) /\ r \notin Published BY <1>0, <1>1, NotYet
<1>6. ~Taking(r)' /\ hpc'[r] # "untake"
      /\ (existing[r] = None => hpc'[r] = "publish")
  <2>1. Conclude(r, existing[r]) BY DEF Untake
  <2> QED BY <1>0, <2>1 DEF Conclude, Answer, Http, Taking
<1>7. \A b \in 0..MaxBucket : redis'[PrintOf(e, b)] = redis[PrintOf(e, b)] BY <1>4, AreSlots, KindsApart
\* The key another request holds is not r's.
<1>8. ASSUME NEW x \in Requests, NEW h \in Requests, h # r, KeyOf[x] # None, redis[KeySlot(x)] = h
      PROVE  redis'[KeySlot(x)] = h
  <2>1. KeySlot(x) # KeySlot(r) BY <1>2, <1>8
  <2> QED BY <1>4, <1>8, <2>1, AreSlots
<1>9. KeyKept(e)'
  <2>1. ASSUME NEW x \in OfEntity(e), Taking(x)' PROVE redis'[KeySlot(x)] = x
    <3>1. x # r BY <1>6, <2>1
    <3>2. Taking(x) /\ x \in Requests BY <2>1, <3>1, OwnOthers
    <3> QED BY <1>8, <3>1, <3>2, Holders
  <2>2. ASSUME NEW x \in OfEntity(e), NEW h \in Requests, KeyOf[x] # None, redis'[KeySlot(x)] = h
        PROVE  KeyOf[h] = KeyOf[x] /\ (Taking(h)' \/ Kept(h)')
    <3>0. x \in Requests /\ h # None BY OwnOthers, IngestionAssumption
    <3>1. KeySlot(x) # KeySlot(r) BY <1>4, <2>2, <3>0
    <3>2. redis[KeySlot(x)] = h BY <1>4, <2>2, <3>0, <3>1, AreSlots
    <3>3. h \in OfEntity(e) /\ KeyOf[h] = KeyOf[x] /\ (Taking(h) \/ Kept(h)) BY <2>2, <3>2, Holders
    <3>4. h # r
      <4>1. h = r => KeySlot(x) = KeySlot(r) BY <3>3 DEF KeySlot
      <4> QED BY <3>1, <4>1
    <3> QED BY <3>3, <3>4, OwnOthers
  <2> QED BY <2>1, <2>2 DEF KeyKept, OfEntity, KeySlot
<1>10. PrintKept(e)'
  <2>1. ASSUME NEW b \in 0..MaxBucket, NEW h \in Requests, redis'[PrintOf(e, b)] = h
        PROVE  /\ b <= bucket' /\ EntityOf[h] = e /\ OnItsWay(h)'
               /\ KeyOf[h] # None => redis'[KeySlot(h)] = h
               /\ b = bucket' => Kept(h)'
    <3>1. redis[PrintOf(e, b)] = h BY <1>7, <2>1
    <3>2. /\ b <= bucket /\ EntityOf[h] = e /\ OnItsWay(h) /\ h \in OfEntity(e)
          /\ KeyOf[h] # None => redis[KeySlot(h)] = h
          /\ b = bucket => Kept(h)
      BY <3>1 DEF Owing, PrintKept, OfEntity
    <3>3. h # r BY <1>5, <3>2
    <3>4. KeyOf[h] # None => redis'[KeySlot(h)] = h BY <1>8, <3>2, <3>3
    <3> QED BY <3>2, <3>3, <3>4, OwnOthers
  <2> QED BY <2>1 DEF PrintKept, KeySlot, PrintOf
<1>11. Printed(e)' <=> Printed(e) BY <1>7 DEF Printed, PrintOf
<1>12. ASSUME Printed(e)
       PROVE  \E b \in 0..MaxBucket, h \in OfEntity(e) : redis'[PrintOf(e, b)] = h /\ Kept(h)' /\ Kept(h) /\ h # r
  <2>1. PICK b \in 0..MaxBucket, h \in OfEntity(e) : redis[PrintOf(e, b)] = h /\ Kept(h) BY <1>12, Holders
  <2>2. h # r BY <1>5, <2>1
  <2>3. Kept(h)' BY <2>1, <2>2, OwnOthers
  <2> QED BY <1>7, <2>1, <2>2, <2>3
<1>13. SomeKept(e)'
  <2>1. \A h \in OfEntity(e) : h \in Requests BY OwnOthers
  <2>2. Printed(e)' => \E b \in 0..MaxBucket, h \in Requests : redis'[PrintOf(e, b)] = h /\ Kept(h)'
    BY <1>11, <1>12, <2>1
  <2> QED BY <2>2 DEF SomeKept, PrintOf
<1>14. Backing(e)' BY <1>6, <1>11, BackingOwn DEF Owing
<1>15. Rechecked(e)' BY <1>0, RecheckedHttp DEF Owing
<1>16. Owed(e)'
  <2>1. CASE existing[r] = None
    <3>1. Live(r)' BY <1>6, <2>1 DEF Live
    <3> QED BY <3>1, OwedLive
  <2>2. CASE existing[r] # None
    <3>1. PICK h \in OfEntity(e) : Kept(h) /\ h # r BY <1>1, <1>12, <2>2
    <3>2. Live(h)' BY <3>1, KeptLives, OwnOthers
    <3> QED BY <3>2, OwedLive
  <2> QED BY <2>1, <2>2
<1> QED BY <1>9, <1>10, <1>13, <1>14, <1>15, <1>16 DEF Owing

\* A step of a request, as long as it tells no one of a failure.
LEMMA OwingHttp ==
    ASSUME Types, Types', Holding, Ended, Ended', KeyNamesEvent, NEW e \in Entities, Owing(e), Untouched(e), Untouched(e)',
           NEW r \in Requests, HttpStep(r)
    PROVE  Owing(e)'
<1>1. CASE EntityOf[r] # e BY <1>1, OwingForeign
<1>2. CASE EntityOf[r] = e
  <2>0. r \in OfEntity(e) /\ hpc \in [Requests -> HttpPc] /\ answer \in [Requests -> Answers]
    BY <1>2 DEF OfEntity, Types, HttpTypes
  <2>a. /\ hpc[r] \notin {"release", "delete"} /\ hpc'[r] \notin {"release", "delete"}
        /\ answer'[r] \notin Failures
    BY <2>0 DEF Untouched, OfEntity
  <2>1. CASE Arrive(r) BY <2>0, <2>1, OwingQuietly DEF Arrive
  <2>2. CASE Publish(r) BY <2>0, <2>2, OwingQuietly DEF Publish
  <2>3. CASE claim(r)
    <3>1. CASE redis[Slot(r)] # None
      <4>1. redis' = redis BY <2>3, <3>1 DEF claim
      <4> QED BY <2>0, <2>3, <4>1, OwingQuietly
    <3>2. CASE redis[Slot(r)] = None /\ LastSlot(r) BY <2>0, <2>3, <3>2, OwingTakesPrint
    <3>3. CASE redis[Slot(r)] = None /\ ~LastSlot(r) BY <2>0, <2>3, <3>3, OwingTakesKey
    <3> QED BY <3>1, <3>2, <3>3
  <2>4. CASE ReadHolder(r) BY <2>0, <2>4, OwingReadHolder
  <2>5. CASE Untake(r) BY <2>0, <2>5, OwingUntake
  <2>6. CASE PublishFails(r)
    <3>1. hpc'[r] = "release" BY <2>0, <2>6 DEF PublishFails, Http
    <3> QED BY <2>a, <3>1
  <2>7. CASE release(r) BY <2>a, <2>7 DEF release
  <2>8. CASE ReleaseDelete(r) BY <2>a, <2>8 DEF ReleaseDelete
  <2>9. CASE HandlerDies(r)
    <3>1. answer'[r] = "died" BY <2>0, <2>9 DEF HandlerDies, Answer
    <3> QED BY <2>a, <3>1 DEF Failures
  <2> QED BY <2>1, <2>2, <2>3, <2>4, <2>5, <2>6, <2>7, <2>8, <2>9 DEF HttpStep
<1> QED BY <1>1, <1>2

\* A step behind the bus that drops no record of the entity.
LEMMA OwingBehind ==
    ASSUME Types, Types', KeyNamesEvent, NEW e \in Entities, Owing(e),
           UNCHANGED <<hpc, hidx, existing, answer, log>>,
           \A x \in OfEntity(e) : KeyOf[x] # None => redis'[KeySlot(x)] = redis[KeySlot(x)],
           \A b \in 0..MaxBucket : redis'[PrintOf(e, b)] = redis[PrintOf(e, b)],
           bucket' = bucket \/ bucket' = bucket + 1,
           \A i \in 1..Len(log) : log[i] \in OfEntity(e) /\ Gone(i)' => Gone(i),
           Rechecked(e)'
    PROVE  Owing(e)'
<1>1. \A x : /\ Taking(x)' <=> Taking(x)
             /\ OnItsWay(x)' <=> OnItsWay(x)
             /\ Promised(x)' <=> Promised(x)
  BY DEF Taking, OnItsWay, Promised, Published
<1>2. ASSUME NEW x \in OfEntity(e) PROVE (Kept(x) => Kept(x)') /\ (Waits(x) => Waits(x)')
  BY <1>1 DEF Kept, Waits
<1>3. \A x \in OfEntity(e) : (Kept(x) => Kept(x)') /\ (Live(x) => Live(x)') BY <1>1, <1>2 DEF Live
<1>4. Backing(e)'
  <2>1. Printed(e)' <=> Printed(e) BY DEF Printed, PrintOf
  <2> QED BY <2>1 DEF Owing, Backing, OfEntity
<1>5. Owed(e)' BY <1>1, <1>3, OwedFrame DEF Owing
<1> QED BY <1>1, <1>3, <1>4, <1>5, OwingFrame

\* The slot a consumer's check is at, and where it leads.
CheckSlot(c) == Wanted(Message(c), bucket)[cidx[c]]

LEMMA Checks ==
    ASSUME Types, NEW c \in Consumers, check(c)
    PROVE  /\ cpc[c] = "check" /\ Message(c) \in Requests /\ at[c] \in 1..Len(log) /\ redis' = redis
           /\ cidx[c] = 1 /\ KeyOf[Message(c)] # None => CheckSlot(c) = KeySlot(Message(c))
           /\ cidx[c] = 2 \/ KeyOf[Message(c)] = None => CheckSlot(c) = PrintOf(EntityOf[Message(c)], bucket)
           /\ cidx[c] \in 1..2 /\ (cidx[c] = 2 => KeyOf[Message(c)] # None)
           /\ cpc'[c] = "commit" => redis[CheckSlot(c)] \in Requests /\ redis[CheckSlot(c)] # Message(c)
           /\ cpc'[c] = "check" =>
                 KeyOf[Message(c)] # None /\ redis[KeySlot(Message(c))] # Message(c)
<1> DEFINE n == Message(c)
<1> DEFINE w == Wanted(n, bucket)
<1>0. /\ cpc \in [Consumers -> ConsumerPc] /\ cidx \in [Consumers -> 1..2] /\ bucket \in 0..MaxBucket
      /\ redis \in [Slots -> Ids]
  BY DEF Types, BusTypes, HttpTypes
<1>1. cpc[c] = "check" /\ n \in Requests /\ at[c] \in 1..Len(log) /\ redis' = redis BY InHand DEF check
<1>2. cidx[c] \in 1..2 /\ cidx[c] <= Width(n) BY <1>0, <1>1 DEF Types, BusTypes
<1>3. Len(w) = Width(n) /\ Width(n) \in 1..2 /\ \A i \in 1..Width(n) : w[i] \in Slots BY <1>0, <1>1, WantedSlots
<1>4. cidx[c] \in 1..Len(w) /\ w[cidx[c]] \in Slots BY <1>2, <1>3
<1>5. Width(n) = (IF KeyOf[n] = None THEN 1 ELSE 2) BY DEF Width
<1>6. /\ cidx[c] = 1 /\ KeyOf[n] # None => w[cidx[c]] = KeySlot(n)
      /\ cidx[c] # 1 \/ KeyOf[n] = None => w[cidx[c]] = PrintOf(EntityOf[n], bucket)
  BY <1>4, WantedForm
<1>7. cidx[c] = 2 => KeyOf[n] # None BY <1>2, <1>5
<1>8. redis[w[cidx[c]]] \in Ids BY <1>0, <1>4
<1>9. \/ redis[w[cidx[c]]] \notin {None, n} /\ Pc(c, "commit")
      \/ Pc(c, "find")
      \/ redis[w[cidx[c]]] = None /\ cidx[c] # Len(w)
  BY DEF check
<1>10. /\ Pc(c, "commit") => cpc'[c] = "commit"
       /\ Pc(c, "find") => cpc'[c] = "find"
  BY <1>0 DEF Pc
<1>11. redis[w[cidx[c]]] = None /\ cidx[c] # Len(w) =>
          cpc'[c] = "check" /\ KeyOf[n] # None /\ redis[KeySlot(n)] # n
  <2> SUFFICES ASSUME redis[w[cidx[c]]] = None, cidx[c] # Len(w)
               PROVE  cpc'[c] = "check" /\ KeyOf[n] # None /\ redis[KeySlot(n)] # n
    OBVIOUS
  <2>1. n # None BY <1>1, IngestionAssumption
  <2>2. UNCHANGED cpc BY <2>1 DEF check
  <2>3. cidx[c] = 1 /\ KeyOf[n] # None BY <1>2, <1>3, <1>5
  <2>4. w[cidx[c]] = KeySlot(n) BY <1>6, <2>3
  <2> QED BY <1>1, <2>1, <2>2, <2>3, <2>4
<1>12. CheckSlot(c) = w[cidx[c]] BY DEF CheckSlot
<1> HIDE DEF n, w
<1>13. redis[w[cidx[c]]] \in Ids /\ redis[w[cidx[c]]] \notin {None, n} =>
          redis[w[cidx[c]]] \in Requests /\ redis[w[cidx[c]]] # n
  BY DEF Ids
<1>14. /\ cpc'[c] = "commit" => redis[w[cidx[c]]] \in Requests /\ redis[w[cidx[c]]] # n
       /\ cpc'[c] = "check" => KeyOf[n] # None /\ redis[KeySlot(n)] # n
  BY <1>8, <1>9, <1>10, <1>11, <1>13
<1> QED BY <1>1, <1>2, <1>6, <1>7, <1>12, <1>14 DEF n

\* A handler writes no slot of an entity nothing has been done for.
LEMMA HandlerSlots ==
    ASSUME Types, KeyNamesEvent, Written, NEW e \in Entities, Untouched(e), NEW c \in Consumers, Handler(c)
    PROVE  /\ \A x \in OfEntity(e) : KeyOf[x] # None => redis'[KeySlot(x)] = redis[KeySlot(x)]
           /\ \A b \in 0..MaxBucket : redis'[PrintOf(e, b)] = redis[PrintOf(e, b)]
<1>1. CASE UNCHANGED redis BY <1>1
<1>2. CASE register(c)
  <2> DEFINE m == Message(c)
  <2>1. cpc[c] = "register" BY <1>2 DEF register
  <2>2. m \in Requests /\ row[m] # "none" BY <2>1, InHand DEF Written
  <2>3. EntityOf[m] # e BY <2>2 DEF Untouched, OfEntity
  <2>4. redis' = [s \in Slots |-> IF s \in {Wanted(m, bucket)[i] : i \in 1..Len(Wanted(m, bucket))} THEN m ELSE redis[s]]
    BY <1>2 DEF register
  <2> HIDE DEF m
  <2>5. ASSUME NEW s \in Slots, KeyOf[m] # None => s # KeySlot(m), \A b : s # PrintOf(EntityOf[m], b)
        PROVE  redis'[s] = redis[s]
    <3>1. \A i \in 1..Len(Wanted(m, bucket)) : Wanted(m, bucket)[i] # s BY <2>5, WantedForm
    <3> QED BY <2>4, <3>1
  <2>6. ASSUME NEW x \in OfEntity(e), KeyOf[x] # None PROVE redis'[KeySlot(x)] = redis[KeySlot(x)]
    <3>1. KeySlot(x) \in Slots BY <2>6, AreSlots DEF OfEntity
    <3>2. KeySlot(x) # KeySlot(m) /\ \A b : KeySlot(x) # PrintOf(EntityOf[m], b) BY <2>2, <2>3, <2>6, ForeignSlots
    <3> QED BY <2>5, <3>1, <3>2
  <2>7. ASSUME NEW a \in 0..MaxBucket PROVE redis'[PrintOf(e, a)] = redis[PrintOf(e, a)]
    <3>1. PrintOf(e, a) \in Slots BY AreSlots
    <3>2. PrintOf(e, a) # KeySlot(m) /\ \A b : PrintOf(e, a) # PrintOf(EntityOf[m], b) BY <2>2, <2>3, ForeignSlots
    <3> QED BY <2>5, <3>1, <3>2
  <2> QED BY <2>6, <2>7
<1> QED BY <1>1, <1>2, HandlerFrame

\* The only record of such an entity a handler is through with is a duplicate.
LEMMA GoneHandler ==
    ASSUME Types, Written, NEW e, Untouched(e), Untouched(e)', NEW c \in Consumers, Handler(c),
           NEW i \in 1..Len(log), log[i] \in OfEntity(e), Gone(i)'
    PROVE  Gone(i) \/ (check(c) /\ cpc'[c] = "commit" /\ i = at[c])
<1>1. CASE i \in handled'
  <2>1. UNCHANGED handled \/ Commit(c) BY HandlerFrame
  <2>2. CASE UNCHANGED handled BY <1>1, <2>2 DEF Gone
  <2>3. CASE Commit(c) BY <1>1, <2>3 DEF Commit, Gone
  <2> QED BY <2>1, <2>2, <2>3
<1>2. ASSUME NEW d \in Consumers, cpc'[d] = "commit", at'[d] = i
      PROVE  Gone(i) \/ (check(c) /\ cpc'[c] = "commit" /\ i = at[c])
  <2>1. CASE d # c
    <3>1. cpc[d] = "commit" /\ at[d] = i BY <1>2, <2>1, HandlerMoves
    <3> QED BY <3>1 DEF Gone
  <2>2. CASE d = c
    <3>1. at[c] = i => Message(c) \in OfEntity(e) BY DEF Message
    <3>2. \/ check(c) /\ at'[c] = at[c]
          \/ at'[c] = at[c] /\ row[Message(c)] # "none"
          \/ at'[c] = at[c] /\ Message(c) \in parked'
      BY <1>2, <2>2, HandlerMoves DEF Written
    <3>3. at'[c] = at[c] /\ at[c] = i BY <1>2, <2>2, <3>2
    <3>4. Message(c) \in OfEntity(e) => row[Message(c)] = "none" /\ Message(c) \notin parked' BY DEF Untouched, OfEntity
    <3> QED BY <1>2, <2>2, <3>1, <3>2, <3>3, <3>4
  <2> QED BY <2>1, <2>2
<1> QED BY <1>1, <1>2 DEF Gone

\* The check passes the key only where it is not the event's own.
LEMMA RecheckedHandler ==
    ASSUME Types, Types', KeyNamesEvent, Written, NEW e \in Entities, Untouched(e), Rechecked(e),
           NEW c \in Consumers, Handler(c)
    PROVE  Rechecked(e)'
<1>1. log' = log BY HandlerFrame
<1>2. ASSUME NEW d \in Consumers, cpc'[d] = "check", cidx'[d] = 2, Message(d)' \in OfEntity(e)
      PROVE  redis'[KeySlot(Message(d)')] # Message(d)'
  <2>1. CASE d # c
    <3>1. cpc[d] = "check" /\ cidx[d] = 2 /\ at'[d] = at[d] BY <1>2, <2>1, HandlerMoves
    <3>2. Message(d)' = Message(d) BY <1>1, <3>1 DEF Message
    <3>3. redis[KeySlot(Message(d))] # Message(d) BY <1>2, <3>1, <3>2 DEF Rechecked
    <3>4. KeyOf[Message(d)] # None
      <4>1. cidx[d] <= Width(Message(d)) BY <3>1 DEF Types, BusTypes
      <4> QED BY <3>1, <4>1 DEF Width
    <3>5. redis'[KeySlot(Message(d))] = redis[KeySlot(Message(d))] BY <1>2, <3>2, <3>4, HandlerSlots
    <3> QED BY <3>2, <3>3, <3>5
  <2>2. CASE d = c
    <3>1. check(c) /\ at'[c] = at[c] BY <1>2, <2>2, HandlerMoves
    <3>2. Message(c)' = Message(c) BY <1>1, <3>1 DEF Message
    <3>3. redis' = redis /\ redis[KeySlot(Message(c))] # Message(c) BY <1>2, <2>2, <3>1, Checks
    <3> QED BY <2>2, <3>2, <3>3
  <2> QED BY <2>1, <2>2
<1> QED BY <1>2 DEF Rechecked, OfEntity, KeySlot

\* A record is dropped for one that is not.
LEMMA OwingDrop ==
    ASSUME Types, Types', KeyNamesEvent, Written, NEW e \in Entities, Untouched(e), Untouched(e)', Owing(e),
           NEW c \in Consumers, Handler(c), check(c), cpc'[c] = "commit", Message(c) \in OfEntity(e)
    PROVE  Owing(e)'
<1> DEFINE n == Message(c)
<1>0. /\ n \in Requests /\ EntityOf[n] = e /\ at[c] \in 1..Len(log) /\ redis' = redis /\ bucket' = bucket
      /\ bucket \in 0..MaxBucket /\ UNCHANGED <<hpc, hidx, existing, answer, log>>
  BY Checks, HandlerFrame DEF OfEntity, Types, HttpTypes
<1>1. /\ cidx[c] = 1 /\ KeyOf[n] # None => CheckSlot(c) = KeySlot(n)
      /\ cidx[c] = 2 \/ KeyOf[n] = None => CheckSlot(c) = PrintOf(e, bucket)
      /\ cidx[c] \in 1..2
      /\ redis[CheckSlot(c)] \in Requests /\ redis[CheckSlot(c)] # n
  BY <1>0, Checks
<1>2. PICK h \in Requests : h = redis[CheckSlot(c)] BY <1>1
<1>3. h # n BY <1>1, <1>2
\* The event dropped does not hold its key.
<1>4. KeyOf[n] # None => redis[KeySlot(n)] # n
  <2>1. CASE cidx[c] = 1 BY <1>1, <2>1
  <2>2. CASE cidx[c] = 2
    <3>1. cpc[c] = "check" BY Checks
    <3> QED BY <2>2, <3>1 DEF Owing, Rechecked
  <2> QED BY <1>1, <2>1, <2>2
<1>5. KeyOf[n] = None => redis[PrintOf(e, bucket)] = h BY <1>1, <1>2
<1>6. redis[PrintOf(e, bucket)] = h => h \in OfEntity(e) /\ Kept(h) BY <1>0, Holders DEF Owing, PrintKept
<1>7. h \in OfEntity(e) /\ Live(h)
  <2>1. CASE CheckSlot(c) = PrintOf(e, bucket) BY <1>2, <1>6, <2>1, KeptLives
  <2>2. CASE CheckSlot(c) = KeySlot(n) /\ KeyOf[n] # None
    <3>1. redis[KeySlot(n)] = h BY <1>2, <2>2
    <3> QED BY <2>2, <3>1, Holders
  <2> QED BY <1>1, <2>1, <2>2
<1>8. at[c] \in Nat /\ log[at[c]] = n BY <1>0 DEF Message
<1>a. Message(c) = n OBVIOUS
<1> HIDE DEF n
<1>9. \A x : /\ Taking(x)' <=> Taking(x)
             /\ OnItsWay(x)' <=> OnItsWay(x)
             /\ Promised(x)' <=> Promised(x)
  BY <1>0 DEF Taking, OnItsWay, Promised, Published
\* Every other event's records stay.
<1>10. ASSUME NEW x \in OfEntity(e), x # n PROVE (Kept(x) => Kept(x)') /\ (Live(x) => Live(x)')
  <2>1. ASSUME NEW i \in 1..Len(log), log[i] = x, Gone(i)' PROVE Gone(i)
    <3>1. i # at[c] BY <1>8, <1>10, <2>1
    <3> QED BY <2>1, <3>1, GoneHandler
  <2>2. Kept(x) => Kept(x)' BY <1>0, <1>9, <2>1 DEF Kept
  <2>3. Waits(x) => Waits(x)' BY <1>0, <2>1 DEF Waits
  <2> QED BY <1>0, <1>9, <2>2, <2>3 DEF Live
<1>11. KeyKept(e)'
  <2>1. \A x \in OfEntity(e) : Taking(x)' => redis'[KeySlot(x)] = x BY <1>0, <1>9, Holders
  <2>2. ASSUME NEW x \in OfEntity(e), NEW g \in Requests, KeyOf[x] # None, redis'[KeySlot(x)] = g
        PROVE  KeyOf[g] = KeyOf[x] /\ (Taking(g)' \/ Kept(g)')
    <3>1. redis[KeySlot(x)] = g BY <1>0, <2>2
    <3>2. g \in OfEntity(e) /\ KeyOf[g] = KeyOf[x] /\ (Taking(g) \/ Kept(g)) BY <2>2, <3>1, Holders
    <3>3. g # n
      <4>1. g = n => KeySlot(x) = KeySlot(n) /\ KeyOf[n] # None BY <2>2, <3>2 DEF KeySlot
      <4> QED BY <1>4, <3>1, <4>1
    <3> QED BY <1>9, <1>10, <3>2, <3>3
  <2> QED BY <2>1, <2>2 DEF KeyKept, OfEntity, KeySlot
\* A fingerprint it holds is of an earlier bucket.
<1>12. ASSUME NEW b \in 0..MaxBucket, NEW g \in Requests, redis[PrintOf(e, b)] = g
       PROVE  /\ b <= bucket /\ EntityOf[g] = e /\ OnItsWay(g) /\ g \in OfEntity(e)
              /\ KeyOf[g] # None => redis[KeySlot(g)] = g
              /\ b = bucket => Kept(g)
              /\ g = n => KeyOf[n] = None /\ b # bucket
  <2>1. /\ b <= bucket /\ EntityOf[g] = e /\ OnItsWay(g) /\ g \in OfEntity(e)
        /\ KeyOf[g] # None => redis[KeySlot(g)] = g
        /\ b = bucket => Kept(g)
    BY <1>12 DEF Owing, PrintKept, OfEntity
  <2>2. g = n => KeyOf[n] = None BY <1>4, <2>1
  <2>3. g = n => b # bucket BY <1>3, <1>5, <1>12, <2>2
  <2> QED BY <2>1, <2>2, <2>3
<1>13. PrintKept(e)'
  <2>1. ASSUME NEW b \in 0..MaxBucket, NEW g \in Requests, redis'[PrintOf(e, b)] = g
        PROVE  /\ b <= bucket' /\ EntityOf[g] = e /\ OnItsWay(g)'
               /\ KeyOf[g] # None => redis'[KeySlot(g)] = g
               /\ b = bucket' => Kept(g)'
    <3>1. redis[PrintOf(e, b)] = g BY <1>0, <2>1
    <3> QED BY <1>0, <1>9, <1>10, <1>12, <3>1
  <2> QED BY <2>1 DEF PrintKept, KeySlot, PrintOf
<1>14. Printed(e)' <=> Printed(e) BY <1>0 DEF Printed, PrintOf
<1>15. SomeKept(e)'
  <2>1. SUFFICES ASSUME Printed(e) PROVE \E b \in 0..MaxBucket, g \in Requests : redis[PrintOf(e, b)] = g /\ Kept(g)'
    BY <1>0, <1>14 DEF SomeKept, PrintOf
  <2>2. PICK b \in 0..MaxBucket, g \in OfEntity(e) : redis[PrintOf(e, b)] = g /\ Kept(g) BY <2>1, Holders
  <2>3. g \in Requests BY DEF OfEntity
  <2>4. CASE g # n BY <1>10, <2>2, <2>3, <2>4
  <2>5. CASE g = n
    <3>1. KeyOf[n] = None BY <1>12, <2>2, <2>3, <2>5
    <3>2. redis[PrintOf(e, bucket)] = h /\ h \in OfEntity(e) /\ Kept(h) BY <1>5, <1>6, <3>1
    <3> QED BY <1>0, <1>3, <1>10, <3>2
  <2> QED BY <2>4, <2>5
<1>16. Backing(e)' BY <1>0, <1>14 DEF Owing, Backing, OfEntity
<1>17. Rechecked(e)' BY RecheckedHandler DEF Owing
<1>18. Owed(e)' BY <1>3, <1>7, <1>10, OwedLive
<1> QED BY <1>11, <1>13, <1>15, <1>16, <1>17, <1>18 DEF Owing

LEMMA OwingHandler ==
    ASSUME Types, Types', KeyNamesEvent, Written, NEW e \in Entities, Untouched(e), Untouched(e)', Owing(e),
           NEW c \in Consumers, Handler(c)
    PROVE  Owing(e)'
<1>1. CASE check(c) /\ cpc'[c] = "commit" /\ Message(c) \in OfEntity(e) BY <1>1, OwingDrop
<1>2. CASE ~(check(c) /\ cpc'[c] = "commit" /\ Message(c) \in OfEntity(e))
  <2>1. ASSUME NEW i \in 1..Len(log), log[i] \in OfEntity(e), Gone(i)' PROVE Gone(i)
    <3>1. i = at[c] => Message(c) \in OfEntity(e) BY <2>1 DEF Message
    <3> QED BY <1>2, <2>1, <3>1, GoneHandler
  <2>2. UNCHANGED <<hpc, hidx, existing, answer, log>> /\ bucket' = bucket BY HandlerFrame
  <2>3. Rechecked(e)' BY RecheckedHandler DEF Owing
  <2>4. \A x \in OfEntity(e) : KeyOf[x] # None => redis'[KeySlot(x)] = redis[KeySlot(x)] BY HandlerSlots
  <2>5. \A b \in 0..MaxBucket : redis'[PrintOf(e, b)] = redis[PrintOf(e, b)] BY HandlerSlots
  <2> QED BY <2>1, <2>2, <2>3, <2>4, <2>5, OwingBehind
<1> QED BY <1>1, <1>2

\* Time, and consumers that die or lose the partition.
LEMMA OwingElse ==
    ASSUME Types, Types', KeyNamesEvent, NEW e \in Entities, Owing(e), bucket' = bucket \/ bucket' = bucket + 1,
           UNCHANGED <<redis, hpc, hidx, existing, answer, log, handled, at, cidx>>,
           \A c \in Consumers : cpc'[c] = cpc[c] \/ cpc'[c] = "idle"
    PROVE  Owing(e)'
<1>1. \A i \in 1..Len(log) : Gone(i)' => Gone(i) BY DEF Gone
<1>2. Rechecked(e)'
  <2>1. \A c : Message(c)' = Message(c) BY DEF Message
  <2> QED BY <2>1 DEF Owing, Rechecked, OfEntity, KeySlot
<1> QED BY <1>1, <1>2, OwingBehind

LEMMA OwingAllNext == Types /\ Types' /\ Holding /\ Ended /\ Ended' /\ Written /\ OwingAll /\ [Next]_vars => OwingAll'
<1> SUFFICES ASSUME Types, Types', Holding, Ended, Ended', Written, OwingAll, [Next]_vars, KeyNamesEvent,
                    NEW e \in Entities, Untouched(e)'
             PROVE  Owing(e)'
  BY DEF OwingAll, KeyNamesEvent, Entities
<1>1. Untouched(e) BY UntouchedBefore
<1>2. Owing(e) BY <1>1 DEF OwingAll
<1>3. ASSUME NEW r \in Requests, HttpStep(r) PROVE Owing(e)' BY <1>1, <1>2, <1>3, OwingHttp
<1>4. CASE NextBucket BY <1>2, <1>4, OwingElse DEF NextBucket, http, kafka, thread
<1>5. ASSUME NEW c \in Consumers, Handler(c) PROVE Owing(e)' BY <1>1, <1>2, <1>5, OwingHandler
<1>6. ASSUME NEW d \in Consumers, Moved(d) PROVE Owing(e)'
  <2>1. /\ UNCHANGED <<redis, bucket, hpc, hidx, existing, answer, log, handled, at, cidx>>
        /\ cpc' = cpc \/ \E c \in Consumers : cpc' = [cpc EXCEPT ![c] = "idle"]
    BY <1>6, MovedFrame
  <2>2. \A c \in Consumers : cpc'[c] = cpc[c] \/ cpc'[c] = "idle" BY <2>1 DEF Types, BusTypes
  <2> QED BY <1>2, <2>1, <2>2, OwingElse
<1>7. CASE UNCHANGED vars BY <1>2, <1>7, Frozen, OwingElse
<1> QED BY <1>3, <1>4, <1>5, <1>6, <1>7, Steps

LEMMA OwingInit == Init => Ended /\ Written /\ MindedAll /\ OwingAll
<1> SUFFICES ASSUME Init PROVE Ended /\ Written /\ MindedAll /\ OwingAll OBVIOUS
<1>1. /\ redis = [s \in Slots |-> None] /\ hpc = [r \in Requests |-> "idle"] /\ hidx = [r \in Requests |-> 1]
      /\ answer = [r \in Requests |-> None] /\ log = <<>> /\ cpc = [c \in Consumers |-> "idle"]
      /\ row = [r \in Requests |-> "none"]
  BY DEF Init
<1>2. Types BY TypesInit
<1>3. None \notin Requests BY IngestionAssumption
<1>4. Published = {} BY <1>1 DEF Published
<1>5. Ended BY <1>1, <1>4 DEF Ended
<1>6. Written BY <1>1 DEF Written
<1>7. MindedAll BY <1>1 DEF MindedAll
<1>8. ASSUME NEW e \in Entities PROVE Owing(e)
  <2>1. \A x \in OfEntity(e) : x \in Requests /\ hpc[x] = "idle" /\ answer[x] = None BY <1>1 DEF OfEntity
  <2>2. \A b \in 0..MaxBucket : redis[PrintOf(e, b)] = None BY <1>1, <1>2, AreSlots
  <2>3. \A x \in OfEntity(e) : KeyOf[x] # None => redis[KeySlot(x)] = None BY <1>1, <1>2, <2>1, AreSlots
  <2>4. KeyKept(e) BY <1>3, <2>1, <2>3 DEF KeyKept, Taking
  <2>5. PrintKept(e) BY <1>3, <2>2 DEF PrintKept
  <2>6. SomeKept(e) BY <2>2 DEF SomeKept, Printed
  <2>7. Backing(e) BY <2>1 DEF Backing
  <2>8. Rechecked(e) BY <1>1 DEF Rechecked
  <2>9. Owed(e) BY <1>3, <1>4, <2>1 DEF Owed, Promised, OnItsWay
  <2> QED BY <2>4, <2>5, <2>6, <2>7, <2>8, <2>9 DEF Owing
<1> QED BY <1>5, <1>6, <1>7, <1>8 DEF OwingAll

\* Where the consumer has come to rest, a record nobody is through with is one
\* that could not be parked.
LEMMA RestLeaves ==
    ASSUME Types, SkippedOnlyUnparked, Quiet, NEW x, Live(x), x \in Requests
    PROVE  used["parkFail"] > 0 /\ x \in Published
<1>1. Waits(x)
  <2>1. hpc[x] \in {"idle", "done"} BY DEF Quiet
  <2> QED BY <2>1 DEF Live, Taking
<1>2. PICK i \in 1..Len(log) : log[i] = x /\ ~Gone(i) BY <1>1 DEF Waits
<1>3. x \in Published BY <1>2 DEF Published
<1>4. committed = Len(log) /\ committed \in Nat
  <2>1. committed \in 0..Len(log) /\ log \in Seq(Requests) BY DEF Types, BusTypes
  <2> QED BY <2>1 DEF Quiet, getConsumerLag
<1>5. i \in (1..committed) \ handled BY <1>2, <1>4 DEF Gone
<1>6. used["parkFail"] # 0
  <2> SUFFICES ASSUME used["parkFail"] = 0 PROVE FALSE OBVIOUS
  <2>1. IsFiniteSet((1..committed) \ handled)
    <3>1. 1 \in Int /\ committed \in Int BY <1>4
    <3>2. IsFiniteSet(1..committed) BY <3>1, FS_Interval
    <3>3. (1..committed) \ handled \subseteq 1..committed OBVIOUS
    <3> QED BY <3>2, <3>3, FS_Subset
  <2>2. Cardinality((1..committed) \ handled) = 0
    <3>1. Cardinality((1..committed) \ handled) \in Nat BY <2>1, FS_CardinalityType
    <3> QED BY <3>1 DEF SkippedOnlyUnparked
  <2>3. (1..committed) \ handled = {} BY <2>1, <2>2, FS_EmptySet
  <2> QED BY <1>5, <2>3
<1>7. used["parkFail"] \in Nat
  <2>1. "parkFail" \in Faults BY DEF Faults
  <2> QED BY <2>1 DEF Types, UsedTypes
<1> QED BY <1>3, <1>6, <1>7

LEMMA AcceptedNow == Types /\ SkippedOnlyUnparked /\ MindedAll /\ OwingAll => AcceptedIsHandled
<1> SUFFICES ASSUME Types, SkippedOnlyUnparked, MindedAll, OwingAll, Quiet, KeyNamesEvent,
                    NEW r \in Requests, answer[r] \in Requests
             PROVE  \E x \in OfEntity(EntityOf[r]) :
                      \/ row[x] = "settled" \/ x \in parked
                      \/ answer[x] \in {"unavailable", "died"}
                      \/ used["crash"] > 0 /\ row[x] \in {"CREATED", "ENRICHED"}
                      \/ used["parkFail"] > 0 /\ x \in Published
  BY DEF AcceptedIsHandled
<1> DEFINE e == EntityOf[r]
<1>1. e \in Entities /\ r \in OfEntity(e) BY DEF Entities, OfEntity
<1>2. CASE Untouched(e)
  <2>1. Owed(e) BY <1>1, <1>2 DEF OwingAll, Owing
  <2>2. PICK x \in OfEntity(e) : Live(x) BY <1>1, <2>1 DEF Owed, Promised
  <2>3. x \in Requests BY DEF OfEntity
  <2> QED BY <2>2, <2>3, RestLeaves
<1>3. CASE ~Untouched(e)
  <2>1. PICK x \in OfEntity(e) :
           \/ row[x] # "none" \/ x \in parked \/ hpc[x] \in {"release", "delete"} \/ answer[x] \in Failures
           \/ used["parkFail"] > 0 /\ x \in Published
    BY <1>3 DEF Untouched
  <2>2. x \in Requests BY DEF OfEntity
  <2>3. hpc[x] \notin {"release", "delete"} BY <2>2 DEF Quiet
  <2>4. CASE row[x] # "none"
    <3>1. Minded(x) BY <2>2, <2>4 DEF MindedAll
    <3>2. \A c \in Consumers : ~WorksOn(c, x) BY DEF WorksOn, Quiet
    <3>3. row[x] \in {"CREATED", "ENRICHED", "settled"} BY <2>2, <2>4 DEF Types, RowTypes
    <3> QED BY <3>1, <3>2, <3>3 DEF Minded
  <2> QED BY <2>1, <2>3, <2>4 DEF Failures
<1> QED BY <1>2, <1>3

\* Once nothing is left to do, an accepted event was dispatched or parked, for
\* any number of callers, keys, buckets, consumers and faults, but for the
\* exceptions AcceptedIsHandled names; and an event refused holds no key.
THEOREM AnswersAlways == Spec => []AnswersHold
<1>1. Init => Ended /\ Written /\ MindedAll /\ OwingAll BY OwingInit
<1>2. Init => Holding BY HoldingInit
<1>3. Types /\ Types' /\ Holding /\ [Next]_vars => Holding' BY HoldingNext
<1>4. Types /\ Types' /\ Ended /\ [Next]_vars => Ended' BY EndedNext
<1>5. Types /\ Types' /\ Written /\ [Next]_vars => Written' BY WrittenNext
<1>6. Types /\ Types' /\ MindedAll /\ [Next]_vars => MindedAll' BY MindedNext
<1>7. Types /\ Types' /\ Holding /\ Ended /\ Ended' /\ Written /\ OwingAll /\ [Next]_vars => OwingAll'
  BY OwingAllNext
<1>8. Types /\ SkippedOnlyUnparked /\ MindedAll /\ OwingAll => AcceptedIsHandled BY AcceptedNow
<1>9. RefusedHoldsNothing /\ AcceptedIsHandled => AnswersHold BY DEF AnswersHold
<1> QED BY <1>1, <1>2, <1>3, <1>4, <1>5, <1>6, <1>7, <1>8, <1>9, TypesAlways, OnlyUnparkedSkipped,
           RefusalHoldsNothing, PTL DEF Spec
=============================================================================
