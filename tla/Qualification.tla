--------------------------- MODULE Qualification ---------------------------
(***************************************************************************)
(* What becomes of one event: its payload is validated, its channels are   *)
(* resolved from the four preference layers, and it is digested, capped,   *)
(* held for quiet hours, delayed to the user's best hour or rendered, as   *)
(* RoutingEngineService.route and NotificationEngineService.process decide *)
(* with the services they ask; and what was held, delayed, digested or     *)
(* capped is released or flushed when it is due.                           *)
(*                                                                         *)
(* One event runs through the stages; what each stage reads (preferences,  *)
(* counters, the clock, engagement scores, A/B weights) is chosen when it  *)
(* is read, and the counters anew for each channel, as other events count  *)
(* meanwhile.  How many do is the subject of FrequencyCaps, which replica  *)
(* releases that of Engine.  Time is in half hours since a midnight UTC.   *)
(***************************************************************************)
EXTENDS EventCatalogue, Integers, FiniteSets, FiniteSetsExt, Functions, SequencesExt

CONSTANTS
    Accounts,      \* account types
    Entries,       \* what a user may have set for a category or an event type
    Usages,        \* what the cap counters answer each channel
    Clocks,        \* times of day an event arrives at, in UTC
    Windows,       \* quiet windows <<start, end>>, in the user's time
    Offset,        \* the user's time zone, in half hours east of UTC
    ScoreTables,   \* engagement scores by hour
    Loaded,        \* the variants whose template is in the registry; 0 is control
    Renderings,    \* what rendering depends on: the weights of the active A/B
                   \* variants in version order, the user's bucket and language,
                   \* and the lengths of the SMS text
    Priorities,
    None

Day == 48

ASSUME QualificationAssumption ==
    /\ Accounts \subseteq {"RETAIL", "PREMIUM", "HNI"}
    /\ Clocks \subseteq 0..(Day - 1) /\ Windows \subseteq (0..(Day - 1)) \X (0..(Day - 1))
    /\ Offset \in 0..(Day - 1) /\ Loaded \subseteq Nat /\ Priorities \subseteq {1, 2, 3, 5}
    /\ \A e \in Entries : /\ DOMAIN e.channels \subseteq ALL_CHANNELS
                         /\ e.channels \in [DOMAIN e.channels -> BOOLEAN]
    /\ \A table \in ScoreTables : DOMAIN table \subseteq 0..23 /\ table \in [DOMAIN table -> Nat]
    /\ \A r \in Renderings :
          /\ r.bucket \in 0..99 /\ r.locale \in Locales
          /\ r.text \in [gsm : BOOLEAN, length : Nat, extended : Nat, naira : Nat, space : Nat]
    /\ Usages \subseteq [ALL_CHANNELS -> [cooldown : BOOLEAN, category : BOOLEAN,
                                         channel : BOOLEAN, global : BOOLEAN]]
    /\ None \notin Entries /\ None \notin ScoreTables

VARIABLES
    stage, event, payload,
    prefs,       \* the entries of the event type and of its category
    resolved,    \* ResolvedPreference.channels
    channels,    \* the candidates left
    usage,       \* history: the counters that were full when a channel asked
    suppressed,  \* RoutingDecision.suppressedChannels: pairs of channel and reason
    order,       \* RoutingDecision.channels, ranked
    clock, window, \* the time of the last decision; the user's quiet hours
    due,         \* when what is held, digested or delayed is released; None otherwise
    scores,      \* the engagement scores a delay was decided on
    queued,      \* channels rendered and queued; the others are dead-lettered
    blanks,      \* pairs of channel and field that rendered as nothing
    variant,     \* the A/B variant shown
    sms          \* the SMS before and after truncation

output == <<queued, blanks, variant, sms>>
vars == <<stage, event, payload, prefs, resolved, channels, usage, suppressed, order, clock,
          window, due, scores, output>>

Init ==
    /\ stage = "received"
    /\ event \in [type : EVENT_TYPES, account : Accounts, priority : Priorities]
    /\ payload = {} /\ prefs = [own |-> None, category |-> None]
    /\ resolved = {} /\ channels = {} /\ usage = None /\ suppressed = {} /\ order = <<>>
    /\ clock = None /\ window = None /\ due = None /\ scores = None
    /\ queued = {} /\ blanks = {} /\ variant = None /\ sms = None

critical == event.type \in CRITICAL_EVENTS
mandated == event.type \in REGULATORY_MANDATORY_EVENTS

-----------------------------------------------------------------------------
(***************************************************************************)
(* EventsService: validation at the API boundary                           *)
(***************************************************************************)

\* validateEvent: an event lacking a field of its schema is refused.  What a
\* payload may bring besides is any field its template prints.
validateEvent(fields) ==
    /\ stage = "received"
    /\ payload' = fields
    /\ stage' = IF EVENT_VALIDATORS(event.type) \subseteq fields THEN "accepted" ELSE "refused"
    /\ UNCHANGED <<event, prefs, resolved, channels, usage, suppressed, order, clock, window, due,
                   scores, output>>

Printed(t) == UNION {templates[t][c] : c \in DOMAIN templates[t]}

Payloads(t) ==
    {EVENT_VALIDATORS(t), EVENT_VALIDATORS(t) \cup Printed(t)}
       \cup {EVENT_VALIDATORS(t) \ {f} : f \in EVENT_VALIDATORS(t)}

-----------------------------------------------------------------------------
(***************************************************************************)
(* PreferenceResolverService                                               *)
(***************************************************************************)

applySegmentOverride(defaults, account) ==
    IF account \in {"PREMIUM", "HNI"} THEN defaults \cup {"whatsapp"} ELSE defaults

\* Plausible slip: the category's entry wins over the event type's own.
Effective_CategoryFirst(p) == IF p.category # None THEN p.category ELSE p.own

\* The event type's own entry, else the category's.
Effective(p) == IF p.own # None THEN p.own ELSE p.category

\* An entry sets some channels on or off; the others keep their default.
applyUserPreferences(p, defaults) ==
    IF Effective(p) = None THEN defaults
    ELSE LET set == Effective(p).channels
         IN {c \in ALL_CHANNELS : IF c \in DOMAIN set THEN set[c] ELSE c \in defaults}

resolve(p) ==
    /\ stage = "accepted"
    /\ prefs' = p
    /\ resolved' = applyUserPreferences(
                      p, applySegmentOverride(SYSTEM_DEFAULTS[Category(event.type)], event.account))
                   \cup REGULATORY_CHANNELS(event.type)
    /\ channels' = resolved'
    /\ stage' = "resolved"
    /\ UNCHANGED <<event, payload, usage, suppressed, order, clock, window, due, scores, output>>

resolveDigestMode(p) == IF p.category = None THEN "IMMEDIATE" ELSE p.category.digest

-----------------------------------------------------------------------------
(***************************************************************************)
(* The user's clock                                                        *)
(***************************************************************************)

\* toLocaleString in the user's time zone.
userTime(t) == t + Offset

\* Plausible slip: a window whose ends coincide counts as an overnight one.
isWithinQuietHours_Whole(t, w) ==
    LET now == userTime(t) % Day IN
    IF w[1] >= w[2] THEN now >= w[1] \/ now < w[2] ELSE now >= w[1] /\ now < w[2]

isWithinQuietHours(t, w) ==
    LET now == userTime(t) % Day IN
    IF w[1] > w[2] THEN now >= w[1] \/ now < w[2] ELSE now >= w[1] /\ now < w[2]

\* The next time the user's clock shows slot, strictly later than t: today, or
\* tomorrow when target <= userNow, converted back to UTC.
NextOccurrence(t, slot) ==
    LET userNow == userTime(t)
        target  == userNow - (userNow % Day) + slot
    IN (IF target <= userNow THEN target + Day ELSE target) + (t - userNow)

nextActiveWindowStart(t, w) == NextOccurrence(t, w[2])

\* DigestBucketService.nextHour
nextHour(t) == ((t \div 2) + 1) * 2

-----------------------------------------------------------------------------
(***************************************************************************)
(* RoutingEngineService.route                                              *)
(***************************************************************************)

digestable == ~critical /\ ~mandated

\* A category the user wants as a digest is held for it, before caps and quiet
\* hours are looked at.
WantsDigest == digestable /\ channels # {} /\ resolveDigestMode(prefs) \in {"HOURLY", "DAILY"}

Digest(t, w) ==
    /\ stage = "resolved" /\ WantsDigest
    /\ clock' = t /\ window' = w
    /\ due' = IF resolveDigestMode(prefs) = "HOURLY" THEN nextHour(t) ELSE nextActiveWindowStart(t, w)
    /\ stage' = "digest"
    /\ UNCHANGED <<event, payload, prefs, resolved, channels, usage, suppressed, order, scores, output>>

\* Plausible slip: the channel's daily cap applies to mandated events too.
check_Mandated(u, c) ==
    IF critical THEN None
    ELSE IF ~mandated /\ u[c].cooldown THEN "COOLDOWN"
    ELSE IF u[c].category THEN "CATEGORY"
    ELSE IF u[c].channel THEN "CHANNEL"
    ELSE IF u[c].global THEN "GLOBAL" ELSE None

\* FrequencyCapService.check: the first cap a channel meets, most specific first.
check(u, c) ==
    IF critical THEN None
    ELSE IF ~mandated /\ u[c].cooldown THEN "COOLDOWN"
    ELSE IF u[c].category THEN "CATEGORY"
    ELSE IF ~mandated /\ u[c].channel THEN "CHANNEL"
    ELSE IF u[c].global THEN "GLOBAL" ELSE None

\* The channels are asked for one after the other, and each reads the counters
\* again: one that others count on may have been reached between two of them.
CheckCaps(u) ==
    /\ stage = "resolved" /\ ~WantsDigest
    /\ usage' = u
    /\ channels' = {c \in channels : check(u, c) = None}
    /\ suppressed' = {<<c, check(u, c)>> : c \in channels \ channels'}
    /\ stage' = "checked"
    /\ UNCHANGED <<event, payload, prefs, resolved, order, clock, window, due, scores, output>>

\* QuietHoursService.check; with nothing left after the caps it is not asked.
suppressedByQuietHours(t, w) == channels # {} /\ ~critical /\ isWithinQuietHours(t, w)

\* The engine holds the channels a template serves.  When none is left to hold
\* it goes on with no channels, as it does after the caps.
CheckQuietHours(t, w) ==
    /\ stage = "checked"
    /\ clock' = t /\ window' = w
    /\ LET quiet    == suppressedByQuietHours(t, w)
           deferred == {c \in channels : supportsChannel(event.type, c)}
       IN /\ suppressed' = IF quiet THEN {<<c, "QUIET_HOURS">> : c \in channels} ELSE suppressed
          /\ channels' = IF ~quiet THEN channels ELSE deferred
          /\ due' = IF quiet /\ deferred # {} THEN nextActiveWindowStart(t, w) ELSE None
          /\ stage' = IF quiet /\ deferred # {} THEN "held" ELSE "awake"
    /\ UNCHANGED <<event, payload, prefs, resolved, usage, order, scores, output>>

\* Three times the code's score, which makes it whole: regulatory weight,
\* preference weight, delivery rate and cost efficiency.
Score(c) ==
    (IF critical THEN 3000 ELSE 0)
    + (IF event.priority <= 2 /\ c \in {"sms", "push"} THEN 1200 ELSE 600)
    + 9 * CHANNEL_DELIVERY_RATE[c] + (600 - 2 * CHANNEL_COST_PAISA[c])

\* The candidates, the best score first.  No two channels score the same.
scoreChannels(cs) ==
    CHOOSE s \in [1..Cardinality(cs) -> cs] :
       \A i, j \in DOMAIN s : i < j => Score(s[i]) > Score(s[j])

\* The ranking, and the engine's filter by what the template serves.
Rank ==
    /\ stage = "awake"
    /\ channels' = {c \in channels : supportsChannel(event.type, c)}
    /\ order' = scoreChannels(channels')
    /\ suppressed' = suppressed \cup {<<c, "NO_TEMPLATE_FOR_CHANNEL">> : c \in channels \ channels'}
    /\ stage' = "ranked"
    /\ UNCHANGED <<event, payload, prefs, resolved, usage, clock, window, due, scores, output>>

-----------------------------------------------------------------------------
(***************************************************************************)
(* NotificationEngineService.process, after routing                        *)
(***************************************************************************)

\* Nothing left: CAPPED, and remembered for a digest when a cap was the reason.
Suppress ==
    /\ stage = "ranked" /\ order = <<>>
    /\ due' = IF \E s \in suppressed : s[2] # "NO_TEMPLATE_FOR_CHANNEL"
              THEN nextActiveWindowStart(clock, window) ELSE None
    /\ stage' = "capped"
    /\ UNCHANGED <<event, payload, prefs, resolved, channels, usage, suppressed, order, clock, window,
                   scores, output>>

MIN_SAMPLES == 10
MAX_DELAY_HOURS == 4

\* getBestHour: the highest score, the earliest hour among equals.
getBestHour(table) ==
    LET best == {h \in DOMAIN table : \A g \in DOMAIN table : table[g] <= table[h]} IN Min(best)

computeDelay(t, hour) == NextOccurrence(t, 2 * hour) - t

\* SendTimeOptimizationService.decide
decide(table) ==
    /\ ~critical /\ event.priority > 2
    /\ FoldFunction(LAMBDA x, y : x + y, 0, table) >= MIN_SAMPLES
    /\ \E h \in DOMAIN table : table[h] > 0
    /\ computeDelay(clock, getBestHour(table)) <= 2 * MAX_DELAY_HOURS

Optimise(table) ==
    /\ stage = "ranked" /\ order # <<>>
    /\ IF decide(table)
       THEN /\ due' = clock + computeDelay(clock, getBestHour(table))
            /\ scores' = table /\ stage' = "delayed"
       ELSE stage' = "sending" /\ UNCHANGED <<due, scores>>
    /\ UNCHANGED <<event, payload, prefs, resolved, channels, usage, suppressed, order, clock, window,
                   output>>

-----------------------------------------------------------------------------
(***************************************************************************)
(* Releases and digests                                                    *)
(***************************************************************************)

\* resume: what was held or delayed goes out, and is asked nothing again.
resume ==
    /\ stage \in {"held", "delayed"}
    /\ clock' = due /\ due' = None
    /\ stage' = "sending"
    /\ UNCHANGED <<event, payload, prefs, resolved, channels, usage, suppressed, order, window, scores, output>>

\* deferToDigest: more than five were held for the user, and this one goes into
\* the digest that is flushed at once.
deferToDigest ==
    /\ stage = "held"
    /\ clock' = due /\ stage' = "digest"
    /\ UNCHANGED <<event, payload, prefs, resolved, channels, usage, suppressed, order, window, due,
                   scores, output>>

DIGEST_MIN_CAPPED == 3

\* DigestFlushService.flush, for a bucket with n notifications.  A digest the
\* user asked for waits if they are asleep; fewer than three that the caps took
\* stay capped.  A digest has channels of its own, push and in_app.
flush(n) ==
    /\ stage \in {"digest", "capped"} /\ due # None
    /\ clock' = due
    /\ LET asleep == stage = "digest" /\ WantsDigest /\ isWithinQuietHours(due, window)
           tooFew == stage = "capped" /\ n < DIGEST_MIN_CAPPED
       IN /\ due' = IF asleep THEN nextActiveWindowStart(due, window) ELSE None
          /\ stage' = IF asleep \/ tooFew THEN stage ELSE "digested"
    /\ UNCHANGED <<event, payload, prefs, resolved, channels, usage, suppressed, order, window, scores, output>>

-----------------------------------------------------------------------------
(***************************************************************************)
(* renderAndQueue                                                          *)
(***************************************************************************)

\* AbTestingService.resolveVariant: buckets are allotted to the variants in
\* order, the remainder to the control.
resolveVariant(ws, bucket) ==
    LET cumulative(i) == FoldFunctionOnSet(LAMBDA x, y : x + y, 0, ws, 1..i)
        hit == {i \in DOMAIN ws : bucket < cumulative(i)}
    IN IF hit = {} THEN 0 ELSE Min(hit)

\* PersonalisationService: P&L is derived from three prices a payload may bring.
buildContext(fields) ==
    fields \cup (IF {"buy_price", "current_price", "qty"} \subseteq fields THEN {"pnl"} ELSE {})

\* TemplateEngineService.render throws for a template that is not registered.
renders(v, c) == v \in Loaded /\ supportsChannel(event.type, c)

GSM7_LIMIT == 160
UCS2_LIMIT == 70
SUFFIX == 7

\* The naira sign becomes "NGN ", so that it does not force UCS-2 on the message.
toSmsSafe(x) == [x EXCEPT !.naira = 0, !.length = @ + 3 * x.naira]

isGsm7(x) == x.gsm /\ x.naira = 0

limitFor(x) == IF isGsm7(x) THEN GSM7_LIMIT ELSE UCS2_LIMIT

\* A character of the extension table takes two septets.
encodedLength(x) == IF isGsm7(x) THEN x.length + x.extended ELSE x.length

\* Plausible slip: no room is kept for the suffix.
truncate_NoRoom(x) ==
    IF encodedLength(x) <= limitFor(x) THEN x
    ELSE LET available == limitFor(x)
             end == IF 10 * x.space > 8 * available THEN x.space ELSE available
         IN [x EXCEPT !.length = Min({available, end, @}) + SUFFIX]

\* SmsTruncationService.truncate: at the last space, if that is late enough.
\* Every extended character may be among those kept.
truncate(x) ==
    IF encodedLength(x) <= limitFor(x) THEN x
    ELSE LET available == limitFor(x) - SUFFIX
             end == IF 10 * x.space > 8 * available THEN x.space ELSE available
         IN [x EXCEPT !.length = Min({available, end, @}) + SUFFIX]

\* The signs are rewritten first, as that lengthens the text.
renderSms(x) == truncate(toSmsSafe(x))

\* renderAndQueue for every channel that is left, in the user's language.
fanOut(r) ==
    /\ stage = "sending"
    /\ variant' = resolveVariant(r.weights, r.bucket)
    /\ queued' = {c \in channels : renders(variant', c)}
    /\ blanks' = UNION {{<<c, f>> : f \in mergeChannels(event.type, r.locale, c) \ buildContext(payload)}
                        : c \in queued'}
    /\ sms' = IF "sms" \in queued' THEN [rendered |-> r.text, sent |-> renderSms(r.text)] ELSE None
    /\ stage' = "done"
    /\ UNCHANGED <<event, payload, prefs, resolved, channels, usage, suppressed, order, clock, window,
                   due, scores>>

\* Plausible slip: a channel without a template is shown too.
preview_Unserved(v) == IF v \in Loaded THEN resolved ELSE {}

\* The preview API: each enabled channel, with its text or the render error.
preview(v) == {c \in resolved : renders(v, c)}

Next ==
    \/ \E fields \in Payloads(event.type) : validateEvent(fields)
    \/ \E own, category \in Entries \cup {None} : resolve([own |-> own, category |-> category])
    \/ \E t \in Clocks, w \in Windows : Digest(t, w) \/ CheckQuietHours(t, w)
    \/ \E u \in Usages : CheckCaps(u)
    \/ Rank \/ Suppress
    \/ \E table \in ScoreTables : Optimise(table)
    \/ resume \/ deferToDigest
    \/ \E n \in {DIGEST_MIN_CAPPED - 1, DIGEST_MIN_CAPPED} : flush(n)
    \/ \E r \in Renderings : fanOut(r)

Spec == Init /\ [][Next]_vars

-----------------------------------------------------------------------------
(***************************************************************************)
(* Properties                                                              *)
(***************************************************************************)

\* The category and the global cap are the only ones a mandated event answers to.
Exceeds(c) == ~critical /\ (usage[c].category \/ usage[c].global)

\* "Regulatory channels are always ADDED, never removed by user prefs"
\* (preference-resolver.service.ts), and "must not be swallowed as too frequent"
\* (frequency-cap.service.ts): a mandated channel is lost only if the category
\* or the global cap was full when it was asked for, and then it can be lost
\* alone; never to the settings, the cooldown, its own cap, quiet hours, a delay,
\* a template of another channel or the ranking.  "CRITICAL events bypass ALL
\* caps", and quiet hours, digests and send-time optimisation too: a critical
\* event has every mandated channel and never waits.  Left out is what ends in a
\* digest: a pile held overnight does, and what a cap took, mandated or not.
MandatedKept ==
    /\ \A c \in REGULATORY_CHANNELS(event.type) :
          /\ stage \in {"held", "delayed", "sending", "done", "capped"} => c \in channels \/ Exceeds(c)
          /\ stage = "done" => c \in queued \/ Exceeds(c) \/ variant \notin Loaded
    /\ critical => stage \notin {"digest", "held", "capped", "delayed", "digested"}

\* The user's word counts, from the settings to the queue and whatever the event
\* went through in between: a channel turned off carries the event only when it
\* is mandated for it, one turned on is queued unless a cap took it or it has no
\* text, and an event type's own entry decides alone over its category's.  What
\* ends in a digest is not meant: a digest goes out on its own two channels.
SettingsObeyed ==
    stage = "done" =>
       \A e \in {prefs.own, prefs.category} \ {None} :
          e = prefs.own \/ prefs.own = None =>
             \A c \in DOMAIN e.channels :
                /\ c \in queued => e.channels[c] \/ c \in REGULATORY_CHANNELS(event.type)
                /\ e.channels[c] => c \in queued \/ check(usage, c) # None \/ ~renders(variant, c)

\* Reference: t is less than the window's length after its start.
Quiet(t, w) == (t + Offset - w[1]) % Day < (w[2] - w[1]) % Day

\* Spec A6.3: but for critical events, nothing is sent inside the user's quiet
\* window, be it at once, after it was held or in a digest, unless it was delayed
\* to the user's best hour, which may be one of those.  What is held is due at
\* the first moment that is not quiet, and so is a daily digest or one of what
\* was capped, within a day.
QuietHoursKept ==
    /\ stage \in {"sending", "done", "digested"} /\ ~critical => ~Quiet(clock, window) \/ scores # None
    /\ stage = "held" => /\ ~Quiet(due, window)
                         /\ \A t \in clock..(due - 1) : Quiet(t, window)
    /\ stage \in {"digest", "capped"} /\ due # None =>
          /\ due >= clock /\ due <= clock + Day
          /\ stage = "capped" \/ ~WantsDigest \/ resolveDigestMode(prefs) # "HOURLY" => ~Quiet(due, window)

\* Delays go to the hour at which the user reads most, on the user's clock, are
\* at most MAX_DELAY_HOURS and are for events of medium and low priority.
DelayedToBestHour ==
    stage = "delayed" =>
       /\ ~critical /\ event.priority \in {3, 5}
       /\ due \in (clock + 1)..(clock + 2 * MAX_DELAY_HOURS)
       /\ \E h \in DOMAIN scores :
             /\ userTime(due) % Day = 2 * h
             /\ \A g \in DOMAIN scores : scores[g] <= scores[h]

\* What does not go out at once is due at the right time of the user's day.
DueOnTime == QuietHoursKept /\ DelayedToBestHour

\* "Renders exactly what a user would receive across all enabled channels"
\* (notification-preview.service.ts): what is queued, at once or after a release,
\* is what the preview shows, less the channels a cap took when they were asked
\* for.
PreviewAgrees ==
    stage = "done" => queued = {c \in preview(variant) : check(usage, c) = None}

\* A margin call, a shortfall or a buy confirmation that passed validation is
\* rendered without a blank, on every channel and in every language.
MarginCallComplete ==
    event.type \in {"RISK-001", "RISK-002", "TXNX-001"} => blanks = {}

\* "Truncation that preserves meaning within one SMS segment"
\* (sms-truncation.service.ts): an SMS fits one segment, if it has no character
\* of the extension table.
OneSegment ==
    sms # None /\ sms.rendered.extended = 0 => encodedLength(sms.sent) <= limitFor(sms.sent)
=============================================================================
