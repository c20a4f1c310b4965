--------------------------- MODULE FrequencyCaps ---------------------------
(***************************************************************************)
(* The frequency caps of one user: FrequencyCapService.check, which the    *)
(* routing asks channel by channel, and record, which the fan-out calls    *)
(* channel by channel some time later, over Redis counters that expire.    *)
(*                                                                         *)
(* The consumers of the topics share the counters, each taking one event   *)
(* of the user at a time (records are keyed by user), and so does the      *)
(* release of held notifications, which records without asking again.      *)
(* Every counter a check reads is a step of its own.  A tick is the grain  *)
(* of time; windows are numbers of ticks.                                  *)
(***************************************************************************)
EXTENDS Naturals, Sequences, FiniteSets, Functions

CONSTANTS
    Consumers,                   \* what handles events at once: the consumer of
                                 \* each topic, and one a rebalance left at work
    Types, Critical, Mandated,   \* event types, CRITICAL_EVENTS, REGULATORY_MANDATORY_EVENTS
    Category, ChannelsOf,        \* the category and the routed channels of a type
    GlobalCap, CategoryCap, ChannelCap,
    Day, Hour, Cooldown,         \* TTL.CAP_DAILY, CAP_HOURLY, CAP_COOLDOWN
    MaxEvents, MaxHeld,          \* bounds: events, held notifications
    MaxFaults, None

AllChannels == UNION {Range(ChannelsOf[t]) : t \in Types}

\* The caps of the code lie between 3 and 20; the cooldown is a cap of one.  A
\* resolved channel list names a channel once.
ASSUME CapsAssumption ==
    /\ IsFiniteSet(Consumers) /\ Consumers # {} /\ "release" \notin Consumers
    /\ Critical \subseteq Types /\ Mandated \subseteq Types /\ None \notin Types
    /\ \A t \in Types : ChannelsOf[t] \in Seq(AllChannels) /\ IsInjective(ChannelsOf[t])
    /\ {GlobalCap, CategoryCap, ChannelCap} \subseteq Nat \ {0, 1}
    /\ {Day, Hour, Cooldown} \subseteq Nat \ {0}
    /\ {MaxEvents, MaxHeld, MaxFaults} \subseteq Nat

Actors == Consumers \cup {"release"}

\* The Redis keys, by what they count.
GlobalKey == <<"global", "all">>
CategoryKey(t) == <<"category", Category[t]>>
ChannelKey(c) == <<"channel", c>>
CooldownKey(t) == <<"cooldown", t>>
Keys == {GlobalKey} \cup {CategoryKey(t) : t \in Types} \cup {CooldownKey(t) : t \in Types}
        \cup {ChannelKey(c) : c \in AllChannels}

Cap(k) == CASE k[1] = "global" -> GlobalCap [] k[1] = "category" -> CategoryCap
            [] k[1] = "channel" -> ChannelCap [] k[1] = "cooldown" -> 1
Window(k) == CASE k[1] \in {"global", "channel"} -> Day [] k[1] = "category" -> Hour
               [] k[1] = "cooldown" -> Cooldown

VARIABLES
    count, ttl,    \* Redis: the counters; ticks left, 0 for none
    pc,            \* of each actor: "idle", "check", "record"
    cur,           \* its event's type
    todo,          \* channels still to check or to record
    open,          \* caps of the first of them that were found open
    kept,          \* channels that passed the check
    first,         \* the next channel recorded is the first one (countEvent)
    told,          \* history: a channel of this event has been published
    held,          \* notifications held, by type
    sent,          \* history: the ages of the checked sends of a key's last
                   \* window, oldest first
    events, faults

redis == <<count, ttl>>
actor == <<pc, cur, todo, open, kept, first, told>>
vars  == <<redis, actor, held, sent, events, faults>>

Init ==
    /\ count = [k \in Keys |-> 0] /\ ttl = [k \in Keys |-> 0]
    /\ pc = [a \in Actors |-> "idle"] /\ cur = [a \in Actors |-> None]
    /\ todo = [a \in Actors |-> <<>>] /\ kept = [a \in Actors |-> <<>>]
    /\ open = [a \in Actors |-> 0]
    /\ first = [a \in Actors |-> TRUE] /\ told = [a \in Actors |-> FALSE]
    /\ held = [t \in Types |-> 0]
    /\ sent = [k \in Keys |-> <<>>]
    /\ events = 0 /\ faults = 0

-----------------------------------------------------------------------------
(***************************************************************************)
(* check                                                                   *)
(***************************************************************************)

\* The caps a type answers to on a channel, in the order they are asked:
\* CRITICAL events to none, mandated ones neither to the cooldown nor to the
\* channel cap.
CapsOf(t, c) ==
    IF t \in Critical THEN <<>>
    ELSE IF t \in Mandated THEN <<CategoryKey(t), GlobalKey>>
    ELSE <<CooldownKey(t), CategoryKey(t), ChannelKey(c), GlobalKey>>

\* Plausible slip: the cap is compared with ">".
capped_OffByOne(k) == count[k] > Cap(k)

capped(k) == count[k] >= Cap(k)

\* An event arrives; route() will ask for each channel.  The topic is chosen by
\* the priority its caller gave it, so each consumer may meet any type.
Arrive(a, t) ==
    /\ a # "release" /\ pc[a] = "idle" /\ events < MaxEvents
    /\ events' = events + 1
    /\ pc' = [pc EXCEPT ![a] = "check"] /\ cur' = [cur EXCEPT ![a] = t]
    /\ todo' = [todo EXCEPT ![a] = ChannelsOf[t]]
    /\ UNCHANGED <<redis, open, kept, first, told, held, sent, faults>>

\* The counters of a channel are read one by one, each when the one before has
\* been answered.  The first that is full drops the channel.
check(a) ==
    /\ pc[a] = "check" /\ todo[a] # <<>>
    /\ LET c    == Head(todo[a])
           caps == CapsOf(cur[a], c)
           full == open[a] < Len(caps) /\ capped(caps[open[a] + 1])
       IN IF open[a] < Len(caps) /\ ~full
          THEN open' = [open EXCEPT ![a] = @ + 1] /\ UNCHANGED <<todo, kept>>
          ELSE /\ open' = [open EXCEPT ![a] = 0] /\ todo' = [todo EXCEPT ![a] = Tail(@)]
               /\ kept' = [kept EXCEPT ![a] = IF full THEN @ ELSE Append(@, c)]
    /\ UNCHANGED <<redis, pc, cur, first, told, held, sent, events, faults>>

\* The actor is done with its event.
Leave(a) ==
    /\ pc' = [pc EXCEPT ![a] = "idle"] /\ cur' = [cur EXCEPT ![a] = None]
    /\ todo' = [todo EXCEPT ![a] = <<>>] /\ kept' = [kept EXCEPT ![a] = <<>>]
    /\ open' = open
    /\ first' = [first EXCEPT ![a] = TRUE] /\ told' = [told EXCEPT ![a] = FALSE]

\* The channels that are left are dispatched now ...
Dispatch(a) ==
    /\ pc[a] = "check" /\ todo[a] = <<>>
    /\ IF kept[a] = <<>> THEN Leave(a)
       ELSE /\ pc' = [pc EXCEPT ![a] = "record"]
            /\ todo' = [todo EXCEPT ![a] = kept[a]] /\ kept' = [kept EXCEPT ![a] = <<>>]
            /\ UNCHANGED <<cur, open, first, told>>
    /\ UNCHANGED <<redis, held, sent, events, faults>>

\* ... or held for the quiet hours or the send-time optimiser.
Hold(a) ==
    /\ pc[a] = "check" /\ todo[a] = <<>> /\ kept[a] # <<>>
    /\ cur[a] \notin Critical /\ held[cur[a]] < MaxHeld
    /\ held' = [held EXCEPT ![cur[a]] = @ + 1]
    /\ Leave(a)
    /\ UNCHANGED <<redis, sent, events, faults>>

\* resume(): the fan-out of a held notification, with no second check.
Release(t) ==
    /\ pc["release"] = "idle" /\ held[t] > 0
    /\ held' = [held EXCEPT ![t] = @ - 1]
    /\ pc' = [pc EXCEPT !["release"] = "record"] /\ cur' = [cur EXCEPT !["release"] = t]
    /\ todo' = [todo EXCEPT !["release"] = ChannelsOf[t]]
    /\ UNCHANGED <<redis, open, kept, first, told, sent, events, faults>>

-----------------------------------------------------------------------------
(***************************************************************************)
(* record                                                                  *)
(***************************************************************************)

\* What one call counts: the channel always, the event with its first channel.
Recorded(t, c, countEvent) ==
    {ChannelKey(c)} \cup (IF countEvent THEN {GlobalKey, CategoryKey(t), CooldownKey(t)} ELSE {})

\* Plausible slip: the expiry is set by whoever creates the counter.
expire_OnCreate(k) == IF count[k] = 0 THEN Window(k) ELSE ttl[k]

\* EXPIRE key ttl NX: only when the key has no expiry yet.
expire(k) == IF ttl[k] = 0 THEN Window(k) ELSE ttl[k]

\* INCR and EXPIRE NX in one pipeline; the cooldown is a SETEX.  All of them run
\* for a key in timed, all but the EXPIRE for one that is only counted.
increment(counted, timed) ==
    /\ count' = [k \in Keys |-> IF k \in counted THEN IF k[1] = "cooldown" THEN 1 ELSE count[k] + 1 ELSE count[k]]
    /\ ttl' = [k \in Keys |-> IF k \in timed THEN IF k[1] = "cooldown" THEN Window(k) ELSE expire(k) ELSE ttl[k]]

\* On to the next channel, or done.
Advance(a, published) ==
    IF Len(todo[a]) = 1 THEN Leave(a)
    ELSE /\ todo' = [todo EXCEPT ![a] = Tail(@)]
         /\ first' = [first EXCEPT ![a] = FALSE]
         /\ told' = [told EXCEPT ![a] = @ \/ published]
         /\ UNCHANGED <<pc, cur, open, kept>>

\* The publish of one channel.  The history counts what the caps are about:
\* messages that were asked for, by the keys they had to answer to.
publish(a) ==
    LET c == Head(todo[a])
        asked == {CapsOf(cur[a], c)[i] : i \in DOMAIN CapsOf(cur[a], c)}
        fresh == IF told[a] THEN {ChannelKey(c)} ELSE Keys
    IN sent' = IF a = "release" THEN sent
               ELSE [k \in Keys |-> IF k \in asked \cap fresh THEN Append(sent[k], 0) ELSE sent[k]]

Keyed(a) == Recorded(cur[a], Head(todo[a]), first[a])

record(a) ==
    /\ pc[a] = "record"
    /\ increment(Keyed(a), Keyed(a)) /\ publish(a)
    /\ Advance(a, TRUE)
    /\ UNCHANGED <<held, events, faults>>

\* Rendering the channel fails: dead-lettered, and nothing is recorded.
RenderFails(a) ==
    /\ pc[a] = "record" /\ faults < MaxFaults
    /\ faults' = faults + 1
    /\ Advance(a, FALSE)
    /\ UNCHANGED <<redis, held, sent, events>>

\* The publish fails after record(): counted, and dead-lettered.
PublishFails(a) ==
    /\ pc[a] = "record" /\ faults < MaxFaults
    /\ faults' = faults + 1
    /\ increment(Keyed(a), Keyed(a))
    /\ Advance(a, FALSE)
    /\ UNCHANGED <<held, sent, events>>

\* A connection that breaks or a timeout costs record() its commands for a key,
\* or the EXPIRE alone.  increment ignores the errors of its pipeline, and the
\* message goes out; only the SETEX throws, and the message is dead-lettered.
RecordCutShort(a) ==
    /\ pc[a] = "record" /\ faults < MaxFaults
    /\ faults' = faults + 1
    /\ \E k \in Keyed(a) : LET rest == Keyed(a) \ {k} IN
          IF k[1] = "cooldown"
          THEN increment(rest, rest) /\ sent' = sent /\ Advance(a, FALSE)
          ELSE (\E counted \in {rest, Keyed(a)} : increment(counted, rest)) /\ publish(a) /\ Advance(a, TRUE)
    /\ UNCHANGED <<held, events>>

\* Ages a tick later, without those that have reached a window of length w.
Older(ages, w) ==
    LET gone == CHOOSE d \in 0..Len(ages) : \A i \in 1..Len(ages) : i <= d <=> ages[i] + 1 >= w
    IN [i \in 1..(Len(ages) - gone) |-> ages[i + gone] + 1]

\* A tick: keys expire, and the history grows older.
Tick ==
    /\ ttl' = [k \in Keys |-> IF ttl[k] > 0 THEN ttl[k] - 1 ELSE 0]
    /\ count' = [k \in Keys |-> IF ttl[k] = 1 THEN 0 ELSE count[k]]
    /\ sent' = [k \in Keys |-> Older(sent[k], Window(k))]
    /\ UNCHANGED <<actor, held, events, faults>>

Step(a) == check(a) \/ Dispatch(a) \/ Hold(a) \/ record(a)

Next ==
    \/ \E a \in Actors : Step(a) \/ RenderFails(a) \/ PublishFails(a) \/ RecordCutShort(a)
    \/ \E a \in Actors, t \in Types : Arrive(a, t)
    \/ \E t \in Types : Release(t)
    \/ Tick

Spec == Init /\ [][Next]_vars

\* Time passes, and an actor that has begun an event goes on with it.
FairSpec == Spec /\ WF_vars(Tick) /\ \A a \in Actors : WF_vars(Step(a))

-----------------------------------------------------------------------------
\* Checks that run at once pass the same last slot: what one opening of a
\* counter lets through.
Room(k) == Cap(k) + Cardinality(Consumers) - 1

\* "The overshoot is bounded by the number of concurrent in-flight evaluations"
\* (frequency-cap-flow.md).  The counters are fixed windows that open with the
\* first send, not rolling ones, so two openings meet: in any stretch of a
\* window's length a cap lets through at most one send less than twice the room
\* of an opening, and one more for each channel whose rendering, recording or
\* publishing failed and may have left a send uncounted.  The cooldown starts
\* again with each send, and lets through what one opening does.
WindowBound ==
    \A k \in Keys :
       Len(sent[k]) <= faults + (IF k[1] = "cooldown" THEN Room(k) ELSE 2 * Room(k) - 1)

\* A cap that is reached lifts again, though an EXPIRE can be lost: the next
\* increment sets it.
CapLifts == \A k \in Keys : []<>(count[k] < Cap(k))
=============================================================================
