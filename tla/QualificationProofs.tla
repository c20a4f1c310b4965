------------------------- MODULE QualificationProofs -------------------------
(***************************************************************************)
(* What Qualification decides for an event, for every catalogue of         *)
(* settings, usages, clocks, windows, scores and texts.  The facts about   *)
(* the operators come first: the ranking, the user's clock, the best hour, *)
(* the tables; then one inductive invariant per property, which says what  *)
(* each stage knows.                                                       *)
(***************************************************************************)
EXTENDS Qualification, TLAPS, FiniteSetTheorems, WellFoundedInduction

-----------------------------------------------------------------------------
(***************************************************************************)
(* Facts about numbers and finite sets                                     *)
(***************************************************************************)

\* A set of naturals that is not empty has a least element.
LEMMA Least ==
    ASSUME NEW S, S \subseteq Nat, S # {}
    PROVE  \E x \in S : \A y \in S : x <= y
<1>1. IsWellFoundedOn({ss \in Nat \X Nat : ss[1] < ss[2]}, Nat)
  BY NatLessThanWellFounded DEF OpToRel
<1>2. PICK x \in S : \A y \in S : ~(<<y, x>> \in {ss \in Nat \X Nat : ss[1] < ss[2]})
  BY <1>1, WFMin, Zenon
<1>3. ASSUME NEW y \in S PROVE x <= y
  <2>1. <<y, x>> \notin {ss \in Nat \X Nat : ss[1] < ss[2]} BY <1>2
  <2>2. x \in Nat /\ y \in Nat /\ <<y, x>> \in Nat \X Nat OBVIOUS
  <2>3. ~(y < x) BY <2>1, <2>2
  <2> QED BY <2>2, <2>3
<1> QED BY <1>3

LEMMA MinIsLeast ==
    ASSUME NEW S, S \subseteq Nat, S # {}
    PROVE  Min(S) \in S /\ \A y \in S : Min(S) <= y
BY Least DEF Min

\* A finite set in a strictly larger one has fewer elements.
LEMMA StrictlyFewer ==
    ASSUME NEW S, IsFiniteSet(S), NEW T, T \subseteq S, NEW x \in S, x \notin T
    PROVE  /\ Cardinality(T) \in Nat /\ Cardinality(S) \in Nat
           /\ Cardinality(T) < Cardinality(S)
<1>1. IsFiniteSet(T) /\ Cardinality(T) <= Cardinality(S) BY FS_Subset
<1>2. Cardinality(T) # Cardinality(S)
  <2>1. Cardinality(S) = Cardinality(T) => S = T BY FS_Subset
  <2>2. S # T OBVIOUS
  <2> QED BY <2>1, <2>2
<1>3. Cardinality(T) \in Nat /\ Cardinality(S) \in Nat BY <1>1, FS_CardinalityType
<1> QED BY <1>1, <1>2, <1>3

\* A function with natural values on a finite set has a greatest value.
LEMMA Greatest ==
    ASSUME NEW v, IsFiniteSet(DOMAIN v), DOMAIN v # {}, \A g \in DOMAIN v : v[g] \in Nat
    PROVE  \E h \in DOMAIN v : \A g \in DOMAIN v : v[g] <= v[h]
<1> DEFINE Above(h) == {g \in DOMAIN v : v[g] > v[h]}
           Sizes == {Cardinality(Above(h)) : h \in DOMAIN v}
<1>1. \A h \in DOMAIN v : IsFiniteSet(Above(h)) BY FS_Subset
<1>2. Sizes \subseteq Nat BY <1>1, FS_CardinalityType
<1>3. Sizes # {} OBVIOUS
<1>4. PICK k \in Sizes : \A y \in Sizes : k <= y BY <1>2, <1>3, Least
<1>5. PICK h \in DOMAIN v : k = Cardinality(Above(h)) OBVIOUS
<1>6. ASSUME NEW g \in DOMAIN v, ~(v[g] <= v[h]) PROVE FALSE
  <2>1. g \in Above(h) /\ g \notin Above(g) BY <1>6
  <2>2. Above(g) \subseteq Above(h) BY <1>6
  <2>3. Cardinality(Above(g)) \in Nat /\ Cardinality(Above(h)) \in Nat
        /\ Cardinality(Above(g)) < Cardinality(Above(h))
    <3> HIDE DEF Above
    <3> QED BY <1>1, <2>1, <2>2, StrictlyFewer
  <2>4. Cardinality(Above(g)) \in Sizes OBVIOUS
  <2>5. Cardinality(Above(h)) <= Cardinality(Above(g)) BY <1>4, <1>5, <2>4
  <2> HIDE DEF Above
  <2> QED BY <2>3, <2>5
<1> QED BY <1>6

-----------------------------------------------------------------------------
(***************************************************************************)
(* The ranking                                                             *)
(***************************************************************************)

LEMMA ChannelsFinite == IsFiniteSet(ALL_CHANNELS)
<1>1. IsFiniteSet({}) BY FS_EmptySet
<1>2. IsFiniteSet({} \cup {"sms"}) BY <1>1, FS_AddElement
<1>3. IsFiniteSet(({} \cup {"sms"}) \cup {"email"}) BY <1>2, FS_AddElement
<1>4. IsFiniteSet((({} \cup {"sms"}) \cup {"email"}) \cup {"push"}) BY <1>3, FS_AddElement
<1>5. IsFiniteSet(((({} \cup {"sms"}) \cup {"email"}) \cup {"push"}) \cup {"whatsapp"}) BY <1>4, FS_AddElement
<1>6. IsFiniteSet((((({} \cup {"sms"}) \cup {"email"}) \cup {"push"}) \cup {"whatsapp"}) \cup {"in_app"}) BY <1>5, FS_AddElement
<1>7. (((({} \cup {"sms"}) \cup {"email"}) \cup {"push"}) \cup {"whatsapp"}) \cup {"in_app"} = ALL_CHANNELS
  BY DEF ALL_CHANNELS
<1> QED BY <1>6, <1>7

\* No two channels score the same, whatever the event.
LEMMA ScoresDiffer ==
    ASSUME NEW a \in ALL_CHANNELS, NEW b \in ALL_CHANNELS
    PROVE  Score(a) \in Int /\ Score(b) \in Int /\ (Score(a) = Score(b) => a = b)
<1> DEFINE base == IF critical THEN 3000 ELSE 0
           high == event.priority <= 2
           fit(c) == IF high /\ c \in {"sms", "push"} THEN 1200 ELSE 600
<1>1. base \in Int OBVIOUS
<1>2. \A c \in ALL_CHANNELS :
         Score(c) = base + fit(c) + 9 * CHANNEL_DELIVERY_RATE[c] + (600 - 2 * CHANNEL_COST_PAISA[c])
  BY DEF Score
<1>3. /\ Score("sms") = base + fit("sms") + 1433 /\ Score("email") = base + fit("email") + 1404
      /\ Score("push") = base + fit("push") + 1230 /\ Score("whatsapp") = base + fit("whatsapp") + 1327
      /\ Score("in_app") = base + fit("in_app") + 1491
  BY <1>1, <1>2 DEF CHANNEL_DELIVERY_RATE, CHANNEL_COST_PAISA, ALL_CHANNELS
<1>4. /\ fit("sms") = fit("push") /\ fit("sms") \in {600, 1200}
      /\ fit("email") = 600 /\ fit("whatsapp") = 600 /\ fit("in_app") = 600
  OBVIOUS
<1> HIDE DEF base, high, fit
<1> QED BY <1>1, <1>3, <1>4 DEF ALL_CHANNELS

\* A list of all the candidates, best first, exists and is what the ranking is.
LEMMA Ranking ==
    ASSUME NEW cs, cs \subseteq ALL_CHANNELS
    PROVE  /\ ToSet(scoreChannels(cs)) = cs
           /\ scoreChannels(cs) = <<>> <=> cs = {}
<1> DEFINE n == Cardinality(cs)
           From(c) == {b \in cs : Score(b) >= Score(c)}
           place == [c \in cs |-> Cardinality(From(c))]
           Sorted(s) == \A i, j \in DOMAIN s : i < j => Score(s[i]) > Score(s[j])
<1>1. IsFiniteSet(cs) /\ n \in Nat BY ChannelsFinite, FS_Subset, FS_CardinalityType
<1>2. IsFiniteSet(1..n) /\ Cardinality(1..n) = n BY <1>1, FS_Interval
<1>3. \A a, b \in cs : Score(a) \in Int /\ Score(b) \in Int /\ (Score(a) = Score(b) => a = b)
  BY ScoresDiffer
<1>4. \A c \in cs : IsFiniteSet(From(c)) /\ place[c] \in 1..n
  <2> TAKE c \in cs
  <2>1. IsFiniteSet(From(c)) /\ Cardinality(From(c)) <= n BY <1>1, FS_Subset
  <2>2. c \in From(c) BY <1>3
  <2>3. Cardinality(From(c)) \in Nat BY <2>1, FS_CardinalityType
  <2>4. Cardinality(From(c)) # 0 BY <2>1, <2>2, FS_EmptySet
  <2> QED BY <1>1, <2>1, <2>3, <2>4
<1>5. \A a, b \in cs : Score(a) > Score(b) => place[a] < place[b]
  <2> SUFFICES ASSUME NEW a \in cs, NEW b \in cs, Score(a) > Score(b) PROVE place[a] < place[b]
    OBVIOUS
  <2>1. b \in From(b) /\ b \notin From(a) /\ From(a) \subseteq From(b) BY <1>3
  <2> HIDE DEF From
  <2>2. Cardinality(From(a)) < Cardinality(From(b)) BY <1>4, <2>1, StrictlyFewer
  <2> QED BY <2>2
<1>6. place \in Injection(cs, 1..n)
  <2>1. place \in [cs -> 1..n] BY <1>4
  <2>2. ASSUME NEW a \in cs, NEW b \in cs, place[a] = place[b] PROVE a = b
    <3>1. place[a] \in Nat /\ place[b] \in Nat BY <1>4
    <3>2. ~(Score(a) > Score(b)) /\ ~(Score(b) > Score(a)) BY <1>5, <2>2, <3>1
    <3> QED BY <1>3, <3>2
  <2> HIDE DEF place
  <2> QED BY <2>1, <2>2 DEF Injection, IsInjective
<1>7. place \in Surjection(cs, 1..n) BY <1>1, <1>2, <1>6, FS_Injection
<1>8. \E s \in [1..n -> cs] : Sorted(s)
  <2> DEFINE s == [i \in 1..n |-> CHOOSE c \in cs : place[c] = i]
  <2>1. \A i \in 1..n : s[i] \in cs /\ place[s[i]] = i
    <3>1. \A i \in 1..n : \E c \in cs : place[c] = i BY <1>7 DEF Surjection
    <3> HIDE DEF place
    <3> QED BY <3>1
  <2>2. s \in [1..n -> cs] BY <2>1
  <2>3. Sorted(s)
    <3> HIDE DEF s, place
    <3> SUFFICES ASSUME NEW i \in 1..n, NEW j \in 1..n, i < j PROVE Score(s[i]) > Score(s[j])
      BY <2>2
    <3>1. s[i] \in cs /\ s[j] \in cs /\ place[s[i]] = i /\ place[s[j]] = j BY <2>1
    <3>2. Score(s[i]) # Score(s[j]) BY <1>3, <3>1
    <3>3. ~(Score(s[j]) > Score(s[i])) BY <1>5, <3>1
    <3> QED BY <1>3, <3>1, <3>2, <3>3
  <2> QED BY <2>2, <2>3
<1> DEFINE s == scoreChannels(cs)
<1>9. s \in [1..n -> cs] /\ Sorted(s) BY <1>8 DEF scoreChannels
<1> HIDE DEF s
<1>10. s \in Injection(1..n, cs)
  <2> SUFFICES ASSUME NEW i \in 1..n, NEW j \in 1..n, s[i] = s[j] PROVE i = j
    BY <1>9 DEF Injection, IsInjective
  <2>1. s[i] \in cs /\ s[j] \in cs BY <1>9
  <2>2. ~(Score(s[i]) > Score(s[j])) /\ ~(Score(s[j]) > Score(s[i])) BY <1>3, <2>1
  <2>3. ~(i < j) /\ ~(j < i) BY <1>9, <2>2
  <2> QED BY <1>1, <2>3
<1>11. s \in Surjection(1..n, cs) BY <1>1, <1>2, <1>10, FS_Injection
<1>12. ToSet(s) = cs BY <1>9, <1>11 DEF ToSet, Surjection
<1>13. s = <<>> <=> cs = {}
  <2>1. ASSUME s = <<>> PROVE cs = {} BY <1>12, <2>1 DEF ToSet
  <2>2. ASSUME cs = {} PROVE s = <<>>
    <3>1. n = 0 BY <2>2, FS_EmptySet
    <3>2. s \in [1..0 -> cs] BY <1>9, <3>1
    <3> QED BY <3>2
  <2> QED BY <2>1, <2>2
<1> QED BY <1>12, <1>13 DEF s

-----------------------------------------------------------------------------
(***************************************************************************)
(* The user's clock                                                        *)
(***************************************************************************)

Slots == 0..(Day - 1)

\* The next time the clock shows a slot is within a day, and the clock shows it.
LEMMA Next48 ==
    ASSUME NEW t \in Nat, NEW slot \in Slots
    PROVE  /\ NextOccurrence(t, slot) \in Nat
           /\ t < NextOccurrence(t, slot) /\ NextOccurrence(t, slot) <= t + Day
           /\ userTime(NextOccurrence(t, slot)) % Day = slot
           /\ \A u \in t..(NextOccurrence(t, slot) - 1) : u # t => userTime(u) % Day # slot
<1>1. Offset \in 0..47 BY QualificationAssumption DEF Day
<1>2. t \in Nat /\ slot \in 0..47 BY DEF Slots, Day
<1> QED BY <1>1, <1>2 DEF NextOccurrence, userTime, Day

LEMMA WindowLength ==
    ASSUME NEW x \in 0..47, NEW y \in 0..47
    PROVE  (x - y) % 48 = IF x >= y THEN x - y ELSE x - y + 48
OBVIOUS

\* The tests of isWithinQuietHours say that t is less than the window's length
\* after its start.
LEMMA QuietTest ==
    ASSUME NEW t \in Nat, NEW w \in Slots \X Slots
    PROVE  isWithinQuietHours(t, w) <=> Quiet(t, w)
<1>1. t + Offset \in Nat BY QualificationAssumption DEF Day
<1>2. w[1] \in 0..47 /\ w[2] \in 0..47 BY DEF Slots, Day
<1> DEFINE now == (t + Offset) % 48
<1>3. now \in 0..47 BY <1>1
<1>4. (t + Offset - w[1]) % 48 = IF now >= w[1] THEN now - w[1] ELSE now - w[1] + 48
  <2> DEFINE x == t + Offset
             y == w[1]
  <2>1. x \in Nat /\ y \in 0..47 BY <1>1, <1>2
  <2> HIDE DEF x, y
  <2>2. (x - y) % 48 = IF x % 48 >= y THEN (x % 48) - y ELSE (x % 48) - y + 48 BY <2>1
  <2>3. t + Offset - w[1] = x - y BY <1>2, QualificationAssumption DEF x, y, Day
  <2>4. x % 48 = now BY DEF x
  <2>5. (t + Offset - w[1]) % 48 = (x - y) % 48 BY <2>3
  <2> QED BY <2>2, <2>4, <2>5 DEF y
<1>5. (w[2] - w[1]) % 48 = IF w[2] >= w[1] THEN w[2] - w[1] ELSE w[2] - w[1] + 48
  BY <1>2, WindowLength
<1>6. Quiet(t, w) <=> (t + Offset - w[1]) % 48 < (w[2] - w[1]) % 48 BY DEF Quiet, Day
<1>7. isWithinQuietHours(t, w) <=>
         IF w[1] > w[2] THEN now >= w[1] \/ now < w[2] ELSE now >= w[1] /\ now < w[2]
  BY DEF isWithinQuietHours, userTime, Day
<1> HIDE DEF now
<1>8. \A n, s, e \in 0..47 :
         (IF s > e THEN n >= s \/ n < e ELSE n >= s /\ n < e) <=>
            (IF n >= s THEN n - s ELSE n - s + 48) < (IF e >= s THEN e - s ELSE e - s + 48)
  OBVIOUS
<1> DEFINE s == w[1]
           e == w[2]
           after == (t + Offset - w[1]) % 48
           length == (w[2] - w[1]) % 48
<1>9. /\ after = IF now >= s THEN now - s ELSE now - s + 48
      /\ length = IF e >= s THEN e - s ELSE e - s + 48
      /\ s \in 0..47 /\ e \in 0..47
  BY <1>2, <1>4, <1>5
<1>10. isWithinQuietHours(t, w) <=> IF s > e THEN now >= s \/ now < e ELSE now >= s /\ now < e
  BY <1>7
<1>11. Quiet(t, w) <=> after < length BY <1>6
<1> HIDE DEF s, e, after, length
<1>12. (IF s > e THEN now >= s \/ now < e ELSE now >= s /\ now < e) <=> after < length
  BY <1>3, <1>8, <1>9
<1> QED BY <1>10, <1>11, <1>12, Zenon

\* A window is over when the clock shows its end, and not before.
LEMMA QuietEnds ==
    ASSUME NEW t \in Nat, NEW w \in Slots \X Slots
    PROVE  /\ ~Quiet(nextActiveWindowStart(t, w), w)
           /\ Quiet(t, w) => \A u \in t..(nextActiveWindowStart(t, w) - 1) : Quiet(u, w)
<1> DEFINE end == nextActiveWindowStart(t, w)
           now(u) == (u + Offset) % 48
           Inside(x) == IF w[1] > w[2] THEN x >= w[1] \/ x < w[2] ELSE x >= w[1] /\ x < w[2]
<1>1. Offset \in 0..47 BY QualificationAssumption DEF Day
<1>2. w[1] \in 0..47 /\ w[2] \in 0..47 /\ t \in Nat BY DEF Slots, Day
<1>3. \A u \in Nat : Quiet(u, w) <=> Inside(now(u))
  <2>1. \A u \in Nat : isWithinQuietHours(u, w) <=> Inside(now(u)) BY DEF isWithinQuietHours, userTime, Day
  <2> QED BY <2>1, QuietTest
<1>4. /\ end \in Nat /\ t < end /\ end <= t + 48 /\ now(end) = w[2]
      /\ \A u \in t..(end - 1) : u # t => now(u) # w[2]
  BY Next48 DEF nextActiveWindowStart, userTime, Day, Slots
<1> HIDE DEF end
<1>5. ~Inside(now(end)) BY <1>2, <1>4
<1>6. ASSUME Inside(now(t)), NEW u \in t..(end - 1) PROVE Inside(now(u))
  <2>1. u \in Nat /\ t <= u /\ u < end BY <1>2, <1>4
  <2>2. u # t => now(u) # w[2] BY <1>4
  <2>3. now(u) = IF now(t) + (u - t) < 48 THEN now(t) + (u - t) ELSE now(t) + (u - t) - 48
    BY <1>1, <1>2, <1>4, <2>1
  <2>4. now(end) = IF now(t) + (end - t) < 48 THEN now(t) + (end - t)
                   ELSE IF now(t) + (end - t) < 96 THEN now(t) + (end - t) - 48 ELSE now(t) + (end - t) - 96
    BY <1>1, <1>2, <1>4
  <2>5. now(t) \in 0..47 BY <1>1, <1>2
  <2>6. \A v \in Nat : t < v /\ v < end => now(v) # w[2] BY <1>2, <1>4
  <2> HIDE DEF now
  <2> QED BY <1>2, <1>4, <1>6, <2>1, <2>2, <2>3, <2>4, <2>5
<1> QED BY <1>2, <1>3, <1>4, <1>5, <1>6 DEF end

LEMMA NextHourIsLater ==
    ASSUME NEW t \in Slots
    PROVE  nextHour(t) \in Nat /\ t < nextHour(t) /\ nextHour(t) <= t + 2
<1>1. t \in 0..47 BY DEF Slots, Day
<1> QED BY <1>1 DEF nextHour

\* The best hour is an hour of the table that no other outdoes.
LEMMA BestHour ==
    ASSUME NEW table \in ScoreTables, DOMAIN table # {}
    PROVE  /\ getBestHour(table) \in DOMAIN table /\ getBestHour(table) \in 0..23
           /\ \A g \in DOMAIN table : table[g] <= table[getBestHour(table)]
<1>1. DOMAIN table \subseteq 0..23 /\ \A g \in DOMAIN table : table[g] \in Nat
  BY QualificationAssumption
<1>2. IsFiniteSet(DOMAIN table)
  <2>1. 0 \in Int /\ 23 \in Int OBVIOUS
  <2>2. IsFiniteSet(0..23) BY <2>1, FS_Interval
  <2> QED BY <1>1, <2>2, FS_Subset
<1> DEFINE best == {h \in DOMAIN table : \A g \in DOMAIN table : table[g] <= table[h]}
<1>3. best # {} BY <1>1, <1>2, Greatest
<1>4. best \subseteq Nat BY <1>1
<1>5. Min(best) \in best
  <2> HIDE DEF best
  <2> QED BY <1>3, <1>4, MinIsLeast
<1>6. getBestHour(table) = Min(best) BY DEF getBestHour
<1> QED BY <1>1, <1>5, <1>6

-----------------------------------------------------------------------------
(***************************************************************************)
(* The tables                                                              *)
(***************************************************************************)

LEMMA AllTypes ==
    EVENT_TYPES = {"TXNX-001", "TXNX-002", "TXNX-003", "TXNX-004", "TXNX-005",
                   "RISK-001", "RISK-002", "RISK-003", "RISK-004", "RISK-005",
                   "SIPX-001", "SIPX-002", "SIPX-003", "SIPX-004", "SIPX-005",
                   "MKTX-001", "MKTX-002", "MKTX-003", "MKTX-004", "MKTX-005",
                   "REGX-001", "REGX-002", "REGX-003", "REGX-004", "REGX-005"}
BY DEF EVENT_TYPES, EventTypesByCategory

\* Mandated channels exist and have a template; only mandated events have them,
\* and a critical one does.
LEMMA RegulatoryServed ==
    ASSUME NEW t \in EVENT_TYPES
    PROVE  /\ \A c \in REGULATORY_CHANNELS(t) : c \in ALL_CHANNELS /\ supportsChannel(t, c)
           /\ t \notin REGULATORY_MANDATORY_EVENTS => REGULATORY_CHANNELS(t) = {}
           /\ t \in CRITICAL_EVENTS => t \in REGULATORY_MANDATORY_EVENTS /\ REGULATORY_CHANNELS(t) # {}
<1>1. t \in {"RISK-001", "MKTX-002", "TXNX-003", "TXNX-005"} => REGULATORY_CHANNELS(t) = {"sms", "push"}
  BY DEF REGULATORY_CHANNELS
<1>2. t \in {"RISK-002", "RISK-003", "TXNX-001", "TXNX-002", "SIPX-003", "REGX-001"} =>
         REGULATORY_CHANNELS(t) = {"sms", "push", "email"}
  BY DEF REGULATORY_CHANNELS
<1>3. t = "SIPX-002" => REGULATORY_CHANNELS(t) = {"sms", "email"}
  BY DEF REGULATORY_CHANNELS
<1>4. t = "REGX-003" => REGULATORY_CHANNELS(t) = {"email"}
  BY DEF REGULATORY_CHANNELS
<1>5. t \notin REGULATORY_MANDATORY_EVENTS => REGULATORY_CHANNELS(t) = {}
  BY DEF REGULATORY_CHANNELS, REGULATORY_MANDATORY_EVENTS
<1>6. /\ templates["RISK-001"] = MarginCallWarning /\ templates["MKTX-002"] = CircuitBreakerHit
      /\ templates["TXNX-003"] = OrderRejected /\ templates["TXNX-005"] = FundsDeposited
      /\ templates["RISK-002"] = MarginShortfall /\ templates["RISK-003"] = PositionSquaredOff
  BY AllTypes DEF templates
<1>7. /\ templates["TXNX-001"] = BuyOrderExecuted /\ templates["TXNX-002"] = SellOrderExecuted
      /\ templates["SIPX-003"] = SipFailed /\ templates["REGX-001"] = KycExpiryWarning
      /\ templates["SIPX-002"] = SipExecuted /\ templates["REGX-003"] = ContractNoteGenerated
  BY AllTypes DEF templates
<1>8. \A x \in {"RISK-001", "MKTX-002", "TXNX-003", "TXNX-005"} :
         supportsChannel(x, "sms") /\ supportsChannel(x, "push")
  BY <1>6 DEF supportsChannel, MarginCallWarning, CircuitBreakerHit, OrderRejected, FundsDeposited
<1>9. \A x \in {"RISK-002", "RISK-003", "TXNX-001", "TXNX-002", "SIPX-003", "REGX-001"} :
         supportsChannel(x, "sms") /\ supportsChannel(x, "push") /\ supportsChannel(x, "email")
  BY <1>6, <1>7 DEF supportsChannel, MarginShortfall, PositionSquaredOff, BuyOrderExecuted,
                    SellOrderExecuted, SipFailed, KycExpiryWarning
<1>10. supportsChannel("SIPX-002", "sms") /\ supportsChannel("SIPX-002", "email") /\ supportsChannel("REGX-003", "email")
  BY <1>7 DEF supportsChannel, SipExecuted, ContractNoteGenerated
<1>11. t \in REGULATORY_MANDATORY_EVENTS =>
          t \in {"RISK-001", "MKTX-002", "TXNX-003", "TXNX-005"} \cup
                {"RISK-002", "RISK-003", "TXNX-001", "TXNX-002", "SIPX-003", "REGX-001"} \cup {"SIPX-002", "REGX-003"}
  BY DEF REGULATORY_MANDATORY_EVENTS
<1>12. \A c \in REGULATORY_CHANNELS(t) : c \in {"sms", "push", "email"}
  BY <1>1, <1>2, <1>3, <1>4, <1>5, <1>11
<1>13. t \in CRITICAL_EVENTS => t \in REGULATORY_MANDATORY_EVENTS /\ REGULATORY_CHANNELS(t) # {}
  BY <1>1, <1>2 DEF CRITICAL_EVENTS, REGULATORY_MANDATORY_EVENTS
<1>14. \A c \in REGULATORY_CHANNELS(t) : supportsChannel(t, c)
  BY <1>1, <1>2, <1>3, <1>4, <1>5, <1>8, <1>9, <1>10, <1>11
<1> QED BY <1>5, <1>12, <1>13, <1>14 DEF ALL_CHANNELS

\* For these three types the validator requires what any text prints.
LEMMA TextsArePrintable ==
    ASSUME NEW t \in {"RISK-001", "RISK-002", "TXNX-001"}, NEW l \in Locales,
           NEW c, supportsChannel(t, c)
    PROVE  mergeChannels(t, l, c) \subseteq EVENT_VALIDATORS(t)
<1>1. /\ templates["RISK-001"] = MarginCallWarning /\ templates["RISK-002"] = MarginShortfall
      /\ templates["TXNX-001"] = BuyOrderExecuted
  BY AllTypes DEF templates
<1>2. /\ EVENT_VALIDATORS("RISK-001") = marginPayload /\ EVENT_VALIDATORS("RISK-002") = marginPayload
      /\ EVENT_VALIDATORS("TXNX-001") = orderExecutedPayload
  BY DEF EVENT_VALIDATORS
<1>3. templates[t][c] \subseteq EVENT_VALIDATORS(t)
  <2>1. CASE t = "RISK-001"
    BY <1>1, <1>2, <2>1 DEF supportsChannel, MarginCallWarning, marginPayload
  <2>2. CASE t = "RISK-002"
    BY <1>1, <1>2, <2>2 DEF supportsChannel, MarginShortfall, marginPayload
  <2>3. CASE t = "TXNX-001"
    BY <1>1, <1>2, <2>3 DEF supportsChannel, BuyOrderExecuted, orderExecutedPayload
  <2> QED BY <2>1, <2>2, <2>3
<1>4. ASSUME NEW d \in DOMAIN localisations(t, l) PROVE localisations(t, l)[d] \subseteq EVENT_VALIDATORS(t)
  <2>1. CASE t = "RISK-001" /\ l = "hi"
    <3>1. localisations(t, l) = [sms  |-> {"shortfall_amount", "deadline", "auto_square_off_time"},
                                 push |-> {"shortfall_amount", "deadline"}]
      BY <2>1 DEF localisations
    <3> QED BY <1>2, <1>4, <2>1, <3>1 DEF marginPayload
  <2>2. CASE t = "RISK-001" /\ l = "ta"
    <3>1. localisations(t, l) = [sms |-> {"shortfall_amount", "deadline"}]
      BY <2>2 DEF localisations
    <3> QED BY <1>2, <1>4, <2>2, <3>1 DEF marginPayload
  <2>3. CASE t = "RISK-002" /\ l = "hi"
    <3>1. localisations(t, l) = [sms |-> {"shortfall_amount", "auto_square_off_time"}]
      BY <2>3 DEF localisations
    <3> QED BY <1>2, <1>4, <2>3, <3>1 DEF marginPayload
  <2>4. CASE t = "TXNX-001" /\ l = "hi"
    <3>1. localisations(t, l) = [sms |-> {"stock_name", "qty", "price", "total"}]
      BY <2>4 DEF localisations
    <3> QED BY <1>2, <1>4, <2>4, <3>1 DEF orderExecutedPayload
  <2>5. CASE l \notin {"hi", "ta"} \/ (l = "ta" /\ t # "RISK-001")
    <3>1. localisations(t, l) = <<>> BY <2>5 DEF localisations
    <3> QED BY <1>4, <3>1
  <2> QED BY <2>1, <2>2, <2>3, <2>4, <2>5
<1>5. ASSUME NEW d \in DOMAIN NG_LOCALISATIONS(t, l) PROVE NG_LOCALISATIONS(t, l)[d] \subseteq EVENT_VALIDATORS(t)
  <2>1. CASE t = "RISK-001" /\ l = "yo"
    <3>1. NG_LOCALISATIONS(t, l) = [sms  |-> {"shortfall_amount", "deadline", "auto_square_off_time"},
                                    push |-> {"shortfall_amount", "deadline"}]
      BY <2>1 DEF NG_LOCALISATIONS
    <3> QED BY <1>2, <1>5, <2>1, <3>1 DEF marginPayload
  <2>2. CASE t = "RISK-002" /\ l = "yo"
    <3>1. NG_LOCALISATIONS(t, l) = [sms |-> {"shortfall_amount", "auto_square_off_time"}]
      BY <2>2 DEF NG_LOCALISATIONS
    <3> QED BY <1>2, <1>5, <2>2, <3>1 DEF marginPayload
  <2>3. CASE t = "TXNX-001" /\ l = "yo"
    <3>1. NG_LOCALISATIONS(t, l) = [sms  |-> {"stock_name", "qty", "price", "total"},
                                    push |-> {"qty", "stock_name", "price", "order_id"}]
      BY <2>3 DEF NG_LOCALISATIONS
    <3> QED BY <1>2, <1>5, <2>3, <3>1 DEF orderExecutedPayload
  <2>4. CASE l # "yo"
    <3>1. NG_LOCALISATIONS(t, l) = <<>> BY <2>4 DEF NG_LOCALISATIONS
    <3> QED BY <1>5, <3>1
  <2> QED BY <2>1, <2>2, <2>3, <2>4
<1> QED BY <1>3, <1>4, <1>5 DEF mergeChannels

-----------------------------------------------------------------------------
(***************************************************************************)
(* The stages                                                              *)
(***************************************************************************)

Ended == {"digested", "sending", "done"}
Timed == {"digest", "held", "awake", "ranked", "capped", "delayed"}

Types ==
    /\ event \in [type : EVENT_TYPES, account : Accounts, priority : Priorities]
    /\ stage \in {"received", "accepted", "refused", "resolved", "checked"} \cup Timed \cup Ended
    /\ resolved \subseteq ALL_CHANNELS /\ channels \subseteq resolved
    /\ prefs.own \in Entries \cup {None} /\ prefs.category \in Entries \cup {None}
    /\ stage \in Timed => clock \in Nat /\ window \in Slots \X Slots
    /\ stage \in {"held", "digest"} => due \in Nat
    /\ stage = "capped" => due \in Nat \cup {None}

LEMMA ResolvedAreChannels ==
    ASSUME Types, NEW p, p.own \in Entries \cup {None}, p.category \in Entries \cup {None}, resolve(p)
    PROVE  resolved' \subseteq ALL_CHANNELS
<1>1. event.type \in EVENT_TYPES BY DEF Types
<1>2. Category(event.type) \in DOMAIN EventTypesByCategory
  <2>1. \E c \in DOMAIN EventTypesByCategory : event.type \in EventTypesByCategory[c]
    BY <1>1 DEF EVENT_TYPES
  <2> QED BY <2>1 DEF Category
<1>3. Category(event.type) \in {"TXNX", "RISK", "SIPX", "MKTX", "REGX"}
  BY <1>2 DEF EventTypesByCategory
<1>4. SYSTEM_DEFAULTS[Category(event.type)] \subseteq ALL_CHANNELS
  BY <1>3 DEF SYSTEM_DEFAULTS, ALL_CHANNELS
<1>5. applySegmentOverride(SYSTEM_DEFAULTS[Category(event.type)], event.account) \subseteq ALL_CHANNELS
  <2>1. "whatsapp" \in ALL_CHANNELS BY DEF ALL_CHANNELS
  <2> QED BY <1>4, <2>1 DEF applySegmentOverride
<1>6. \A d : d \subseteq ALL_CHANNELS => applyUserPreferences(p, d) \subseteq ALL_CHANNELS
  BY DEF applyUserPreferences
<1>7. REGULATORY_CHANNELS(event.type) \subseteq ALL_CHANNELS BY <1>1, RegulatoryServed
<1> QED BY <1>5, <1>6, <1>7 DEF resolve

\* The steps, and what none of them touches.
LEMMA Steps ==
    ASSUME [Next]_vars
    PROVE  /\ event' = event \/ UNCHANGED vars
           /\ \/ \E fields : validateEvent(fields)
              \/ \E p : /\ p.own \in Entries \cup {None} /\ p.category \in Entries \cup {None}
                        /\ resolve(p)
              \/ \E t \in Slots, w \in Slots \X Slots : Digest(t, w) \/ CheckQuietHours(t, w)
              \/ \E u : CheckCaps(u)
              \/ Rank \/ Suppress
              \/ \E table \in ScoreTables : Optimise(table)
              \/ resume \/ deferToDigest
              \/ \E n : flush(n)
              \/ \E r \in Renderings : fanOut(r)
              \/ UNCHANGED vars
<1>1. Clocks \subseteq Slots /\ Windows \subseteq Slots \X Slots BY QualificationAssumption DEF Slots
<1>2. ASSUME NEW own \in Entries \cup {None}, NEW category \in Entries \cup {None},
             resolve([own |-> own, category |-> category])
      PROVE  \E p : /\ p.own \in Entries \cup {None} /\ p.category \in Entries \cup {None}
                    /\ resolve(p)
  <2>1. /\ [own |-> own, category |-> category].own = own
        /\ [own |-> own, category |-> category].category = category
    OBVIOUS
  <2> QED BY <1>2, <2>1
<1>3. \/ \E fields : validateEvent(fields)
      \/ \E p : /\ p.own \in Entries \cup {None} /\ p.category \in Entries \cup {None}
                /\ resolve(p)
      \/ \E t \in Slots, w \in Slots \X Slots : Digest(t, w) \/ CheckQuietHours(t, w)
      \/ \E u : CheckCaps(u)
      \/ Rank \/ Suppress
      \/ \E table \in ScoreTables : Optimise(table)
      \/ resume \/ deferToDigest
      \/ \E n : flush(n)
      \/ \E r \in Renderings : fanOut(r)
      \/ UNCHANGED vars
  BY <1>1, <1>2, Zenon DEF Next
<1>4. event' = event \/ UNCHANGED vars
  BY <1>3 DEF validateEvent, resolve, Digest, CheckQuietHours, CheckCaps, Rank, Suppress, Optimise,
                resume, deferToDigest, flush, fanOut
<1> QED BY <1>3, <1>4

\* A bucket is flushed when it is due, which leaves it for later, for good or sent.
LEMMA FlushFacts ==
    ASSUME Types, NEW n, flush(n)
    PROVE  /\ stage \in {"digest", "capped"} /\ due \in Nat /\ clock' = due
           /\ UNCHANGED <<event, prefs, resolved, channels, usage, window, scores, queued, variant>>
           /\ \/ /\ stage = "digest" /\ stage' = "digest" /\ WantsDigest
                 /\ due' = nextActiveWindowStart(due, window)
              \/ stage = "capped" /\ stage' = "capped" /\ due' = None
              \/ /\ stage' = "digested" /\ due' = None
                 /\ stage = "capped" \/ ~WantsDigest \/ ~isWithinQuietHours(due, window)
BY DEF Types, flush, output

LEMMA TypesInit == Init => Types
<1> SUFFICES ASSUME Init PROVE Types OBVIOUS
<1>1. prefs.own = None /\ prefs.category = None BY DEF Init
<1> QED BY <1>1 DEF Init, Types, Timed

LEMMA DueAtDawn ==
    ASSUME NEW t \in Nat, NEW w \in Slots \X Slots
    PROVE  /\ nextActiveWindowStart(t, w) \in Nat /\ nextActiveWindowStart(t, w) > t
           /\ nextActiveWindowStart(t, w) <= t + Day
           /\ ~Quiet(nextActiveWindowStart(t, w), w)
<1>1. w[2] \in Slots OBVIOUS
<1>2. Day \in Nat BY DEF Day
<1>3. /\ nextActiveWindowStart(t, w) \in Nat /\ t < nextActiveWindowStart(t, w)
      /\ nextActiveWindowStart(t, w) <= t + Day
  BY <1>1, Next48 DEF nextActiveWindowStart
<1> QED BY <1>2, <1>3, QuietEnds

LEMMA TypesNext ==
    ASSUME Types, [Next]_vars
    PROVE  Types'
<1> USE DEF Timed, Ended
<1>0. Slots \subseteq Nat BY DEF Slots, Day
<1>1. ASSUME NEW fields, validateEvent(fields) PROVE Types' BY <1>1 DEF Types, validateEvent
<1>2. ASSUME NEW p, p.own \in Entries \cup {None}, p.category \in Entries \cup {None}, resolve(p) PROVE Types'
  <2>1. resolved' \subseteq ALL_CHANNELS BY <1>2, ResolvedAreChannels
  <2> QED BY <1>2, <2>1 DEF Types, resolve
<1>3. ASSUME NEW t \in Slots, NEW w \in Slots \X Slots, Digest(t, w) PROVE Types'
  <2>1. due' \in Nat BY <1>0, <1>3, NextHourIsLater, DueAtDawn DEF Digest
  <2> QED BY <1>0, <1>3, <2>1 DEF Types, Digest
<1>4. ASSUME NEW t \in Slots, NEW w \in Slots \X Slots, CheckQuietHours(t, w) PROVE Types'
  <2>1. /\ stage' \in {"held", "awake"} /\ channels' \subseteq channels
        /\ stage' = "held" => due' = nextActiveWindowStart(t, w)
    BY <1>4 DEF CheckQuietHours
  <2>2. clock' = t /\ window' = w /\ UNCHANGED <<event, resolved, prefs>> BY <1>4 DEF CheckQuietHours
  <2>3. nextActiveWindowStart(t, w) \in Nat BY <1>0, DueAtDawn
  <2> QED BY <1>0, <2>1, <2>2, <2>3 DEF Types
<1>5. ASSUME NEW u, CheckCaps(u) PROVE Types' BY <1>5 DEF Types, CheckCaps
<1>6. CASE Rank BY <1>6 DEF Types, Rank
<1>7. CASE Suppress
  <2>1. /\ stage = "ranked" /\ stage' = "capped" /\ due' \in {nextActiveWindowStart(clock, window), None}
        /\ UNCHANGED <<event, resolved, channels, prefs, clock, window>>
    BY <1>7 DEF Suppress
  <2>2. clock \in Nat /\ window \in Slots \X Slots BY <2>1 DEF Types
  <2>3. due' \in Nat \cup {None} BY <2>1, <2>2, DueAtDawn
  <2> QED BY <2>1, <2>2, <2>3 DEF Types
<1>8. ASSUME NEW table \in ScoreTables, Optimise(table) PROVE Types'
  <2>1. stage' \in {"delayed", "sending"} /\ stage = "ranked" BY <1>8, Zenon DEF Optimise
  <2>2. UNCHANGED <<event, resolved, channels, prefs, clock, window>> BY <1>8, Zenon DEF Optimise
  <2> QED BY <2>1, <2>2 DEF Types
<1>9. CASE resume BY <1>9 DEF Types, resume
<1>10. CASE deferToDigest BY <1>10 DEF Types, deferToDigest
<1>11. ASSUME NEW n, flush(n) PROVE Types'
  <2>1. due \in Nat /\ window \in Slots \X Slots BY <1>11, FlushFacts DEF Types
  <2>2. nextActiveWindowStart(due, window) \in Nat BY <2>1, DueAtDawn
  <2>3. /\ stage' \in {"digest", "capped", "digested"} /\ clock' = due
        /\ stage' = "digest" => due' = nextActiveWindowStart(due, window)
        /\ stage' = "capped" => due' = None
        /\ UNCHANGED <<event, resolved, channels, prefs, window>>
    BY <1>11, FlushFacts
  <2> QED BY <2>1, <2>2, <2>3 DEF Types
<1>12. ASSUME NEW r \in Renderings, fanOut(r) PROVE Types'
  <2>1. stage' = "done" /\ stage = "sending" BY <1>12 DEF fanOut
  <2>2. UNCHANGED <<event, resolved, channels, prefs, clock, window, due>> BY <1>12 DEF fanOut
  <2> QED BY <2>1, <2>2 DEF Types
<1>13. CASE UNCHANGED vars BY <1>13 DEF Types, vars
<1> QED BY <1>1, <1>2, <1>3, <1>4, <1>5, <1>6, <1>7, <1>8, <1>9, <1>10, <1>11, <1>12, <1>13, Steps

LEMMA TypesAlways == Spec => []Types
<1>1. Init => Types BY TypesInit
<1>2. Types /\ [Next]_vars => Types' BY TypesNext
<1> QED BY <1>1, <1>2, PTL DEF Spec

-----------------------------------------------------------------------------
(***************************************************************************)
(* The user's settings                                                     *)
(***************************************************************************)

Open == {"received", "refused", "accepted"}

\* The candidates are what the settings say.
SettingsResolved ==
    stage \notin Open =>
       \A e \in {prefs.own, prefs.category} \ {None} :
          e = prefs.own \/ prefs.own = None =>
             \A c \in DOMAIN e.channels : c \in resolved <=> e.channels[c] \/ c \in REGULATORY_CHANNELS(event.type)

\* What the settings decide is decided once.
LEMMA ResolvedOnce ==
    ASSUME [Next]_vars
    PROVE  \/ /\ UNCHANGED <<event, prefs, resolved>>
              /\ stage' \notin Open => stage \notin Open
           \/ \E p : /\ p.own \in Entries \cup {None} /\ p.category \in Entries \cup {None}
                     /\ resolve(p)
<1> USE DEF Open
<1> DEFINE Same == UNCHANGED <<event, prefs, resolved>> /\ (stage' \notin Open => stage \notin Open)
<1>1. ASSUME NEW fields, validateEvent(fields) PROVE Same BY <1>1 DEF validateEvent
<1>2. ASSUME NEW t, NEW w, Digest(t, w) \/ CheckQuietHours(t, w) PROVE Same BY <1>2 DEF Digest, CheckQuietHours
<1>3. ASSUME NEW u, CheckCaps(u) PROVE Same BY <1>3 DEF CheckCaps
<1>4. CASE Rank \/ Suppress \/ resume \/ deferToDigest
  <2>1. Same BY <1>4 DEF Rank, Suppress, resume, deferToDigest
  <2> QED BY <2>1
<1>5. ASSUME NEW table, Optimise(table) PROVE Same
  <2>1. stage = "ranked" /\ UNCHANGED <<event, prefs, resolved>> BY <1>5, Zenon DEF Optimise
  <2> QED BY <2>1
<1>6. ASSUME NEW n, flush(n) PROVE Same BY <1>6 DEF flush
<1>7. ASSUME NEW r, fanOut(r) PROVE Same
  <2>1. stage = "sending" /\ UNCHANGED <<event, prefs, resolved>> BY <1>7 DEF fanOut
  <2> QED BY <2>1
<1>8. CASE UNCHANGED vars
  <2>1. Same BY <1>8 DEF vars
  <2> QED BY <2>1
<1> QED BY <1>1, <1>2, <1>3, <1>4, <1>5, <1>6, <1>7, <1>8, Steps

LEMMA EntryDecides ==
    ASSUME NEW p, p.own \in Entries \cup {None}, p.category \in Entries \cup {None}, resolve(p),
           NEW e \in {p.own, p.category} \ {None}, e = p.own \/ p.own = None,
           NEW c \in DOMAIN e.channels
    PROVE  c \in resolved' <=> e.channels[c] \/ c \in REGULATORY_CHANNELS(event.type)
<1>1. e \in Entries /\ e # None /\ Effective(p) = e BY DEF Effective
<1>2. c \in ALL_CHANNELS /\ e.channels[c] \in BOOLEAN BY <1>1, QualificationAssumption
<1>3. \A d : c \in applyUserPreferences(p, d) <=> e.channels[c]
  <2>1. \A d : applyUserPreferences(p, d) =
                  {x \in ALL_CHANNELS : IF x \in DOMAIN e.channels THEN e.channels[x] ELSE x \in d}
    BY <1>1 DEF applyUserPreferences
  <2> QED BY <1>2, <2>1
<1> QED BY <1>3 DEF resolve

LEMMA SettingsAlwaysResolved == Spec => []SettingsResolved
<1>1. Init => SettingsResolved BY DEF Init, SettingsResolved, Open
<1>2. SettingsResolved /\ [Next]_vars => SettingsResolved'
  <2> SUFFICES ASSUME SettingsResolved, [Next]_vars PROVE SettingsResolved' OBVIOUS
  <2>1. CASE UNCHANGED <<event, prefs, resolved>> /\ (stage' \notin Open => stage \notin Open)
    BY <2>1 DEF SettingsResolved, Open
  <2>2. ASSUME NEW p, p.own \in Entries \cup {None}, p.category \in Entries \cup {None}, resolve(p)
        PROVE  SettingsResolved'
    <3>1. prefs' = p /\ event' = event BY <2>2 DEF resolve
    <3> SUFFICES ASSUME NEW e \in {p.own, p.category} \ {None}, e = p.own \/ p.own = None,
                        NEW c \in DOMAIN e.channels
                 PROVE  c \in resolved' <=> e.channels[c] \/ c \in REGULATORY_CHANNELS(event.type)
      BY <3>1, Zenon DEF SettingsResolved
    <3> QED BY <2>2, EntryDecides
  <2> QED BY <2>1, <2>2, ResolvedOnce
<1> QED BY <1>1, <1>2, PTL DEF Spec

-----------------------------------------------------------------------------
(***************************************************************************)
(* Mandated and critical events                                            *)
(***************************************************************************)

mandatory == REGULATORY_CHANNELS(event.type)

\* A mandated channel that is not there any more exceeded a cap.
Kept ==
    /\ stage = "resolved" => mandatory \subseteq channels
    /\ stage \in {"checked", "awake", "ranked", "held", "delayed", "sending", "done", "capped"} =>
          \A c \in mandatory : c \in channels \/ Exceeds(c)
    /\ stage = "ranked" => (order = <<>> <=> channels = {})
    /\ stage = "done" => \A c \in channels \ queued : variant \notin Loaded \/ c \notin mandatory
    /\ stage \in {"digest", "held", "capped", "delayed", "digested"} => ~critical

LEMMA DecideFacts ==
    ASSUME NEW table, decide(table)
    PROVE  /\ ~critical /\ event.priority > 2 /\ DOMAIN table # {}
           /\ computeDelay(clock, getBestHour(table)) <= 2 * MAX_DELAY_HOURS
<1>1. /\ ~critical /\ event.priority > 2
      /\ \E h \in DOMAIN table : table[h] > 0
      /\ computeDelay(clock, getBestHour(table)) <= 2 * MAX_DELAY_HOURS
  BY Zenon DEF decide
<1> QED BY <1>1

LEMMA MandatoryFacts ==
    ASSUME Types
    PROVE  /\ mandatory \subseteq ALL_CHANNELS /\ \A c \in mandatory : supportsChannel(event.type, c)
           /\ ~mandated => mandatory = {}
           /\ critical => mandated /\ mandatory # {}
BY RegulatoryServed DEF Types, mandatory, mandated, critical

LEMMA RankServed ==
    ASSUME Types, Rank
    PROVE  /\ channels' = {c \in channels : supportsChannel(event.type, c)}
           /\ order' = <<>> <=> channels' = {}
<1> DEFINE served == {c \in channels : supportsChannel(event.type, c)}
<1>1. served \subseteq ALL_CHANNELS BY DEF Types
<1>2. channels' = served /\ order' = scoreChannels(served) BY DEF Rank
<1> HIDE DEF served
<1>3. scoreChannels(served) = <<>> <=> served = {} BY <1>1, Ranking
<1>4. channels' = served /\ (order' = <<>> <=> channels' = {}) BY <1>2, <1>3
<1> QED BY <1>4 DEF served

LEMMA KeptNext ==
    ASSUME Types, Kept, [Next]_vars
    PROVE  Kept'
<1>0. event' = event => mandatory' = mandatory /\ (critical' <=> critical) BY DEF mandatory, critical
<1>00. event' = event /\ usage' = usage => \A c : Exceeds(c)' <=> Exceeds(c) BY DEF Exceeds, critical
<1>1. ASSUME NEW fields, validateEvent(fields) PROVE Kept' BY <1>1 DEF Kept, validateEvent
<1>2. ASSUME NEW p, resolve(p) PROVE Kept'
  <2>1. mandatory \subseteq channels' /\ stage' = "resolved" /\ event' = event BY <1>2 DEF resolve, mandatory
  <2> QED BY <1>0, <2>1 DEF Kept
<1>3. ASSUME NEW t \in Slots, NEW w \in Slots \X Slots, Digest(t, w) PROVE Kept'
  <2>1. stage' = "digest" /\ event' = event /\ ~critical
    BY <1>3 DEF Digest, WantsDigest, digestable
  <2> QED BY <1>0, <2>1 DEF Kept
<1>4. ASSUME NEW t \in Slots, NEW w \in Slots \X Slots, CheckQuietHours(t, w) PROVE Kept'
  <2> DEFINE quiet == suppressedByQuietHours(t, w)
             deferred == {c \in channels : supportsChannel(event.type, c)}
  <2>1. /\ stage = "checked" /\ event' = event /\ usage' = usage
        /\ channels' = IF ~quiet THEN channels ELSE deferred
        /\ stage' = IF quiet /\ deferred # {} THEN "held" ELSE "awake"
    BY <1>4 DEF CheckQuietHours
  <2>2. quiet => ~critical BY DEF suppressedByQuietHours
  <2>3. \A c \in mandatory : c \in channels => c \in deferred BY MandatoryFacts
  <2> HIDE DEF quiet, deferred
  <2>4. \A c \in mandatory : c \in channels' \/ Exceeds(c) BY <2>1, <2>3 DEF Kept
  <2>5. stage' \in {"held", "awake"} /\ (stage' = "held" => ~critical) BY <2>1, <2>2
  <2> QED BY <1>0, <1>00, <2>1, <2>4, <2>5 DEF Kept
<1>5. ASSUME NEW u, CheckCaps(u) PROVE Kept'
  <2>1. /\ stage = "resolved" /\ stage' = "checked" /\ event' = event /\ usage' = u
        /\ channels' = {c \in channels : check(u, c) = None}
    BY <1>5 DEF CheckCaps
  <2>2. \A c \in mandatory : c \in channels BY <2>1 DEF Kept
  <2>3. ASSUME NEW c \in mandatory, check(u, c) # None PROVE Exceeds(c)'
    <3>1. mandated /\ ~critical /\ (u[c].category \/ u[c].global)
      BY <2>3, MandatoryFacts DEF check
    <3> QED BY <2>1, <3>1 DEF Exceeds, critical
  <2> QED BY <1>0, <2>1, <2>2, <2>3 DEF Kept
<1>6. CASE Rank
  <2>1. stage = "awake" /\ stage' = "ranked" /\ event' = event /\ usage' = usage BY <1>6 DEF Rank
  <2>2. \A c \in mandatory : c \in channels => c \in channels' BY <1>6, RankServed, MandatoryFacts
  <2>3. order' = <<>> <=> channels' = {} BY <1>6, RankServed
  <2> QED BY <1>0, <1>00, <2>1, <2>2, <2>3 DEF Kept
<1>7. CASE Suppress
  <2>1. /\ stage = "ranked" /\ order = <<>> /\ stage' = "capped" /\ event' = event
        /\ usage' = usage /\ channels' = channels
    BY <1>7 DEF Suppress
  <2>2. ~critical
    <3>1. channels = {} /\ \A c \in mandatory : Exceeds(c) BY <2>1 DEF Kept
    <3>2. critical => \E c \in mandatory : TRUE BY MandatoryFacts
    <3> QED BY <3>1, <3>2 DEF Exceeds
  <2> QED BY <1>0, <1>00, <2>1, <2>2 DEF Kept
<1>8. ASSUME NEW table \in ScoreTables, Optimise(table) PROVE Kept'
  <2>1. /\ stage = "ranked" /\ order # <<>> /\ event' = event /\ channels' = channels /\ usage' = usage
        /\ \/ stage' = "delayed" /\ decide(table)
           \/ stage' = "sending"
    BY <1>8, Zenon DEF Optimise
  <2>2. stage' = "sending" \/ (stage' = "delayed" /\ ~critical) BY <2>1, DecideFacts
  <2>3. \A c \in mandatory : c \in channels \/ Exceeds(c) BY <2>1 DEF Kept
  <2>4. event' = event /\ channels' = channels /\ usage' = usage BY <2>1
  <2> QED BY <1>0, <1>00, <2>2, <2>3, <2>4 DEF Kept
<1>9. CASE resume \/ deferToDigest
  <2>1. /\ stage \in {"held", "delayed"} /\ stage' \in {"sending", "digest"}
        /\ UNCHANGED <<event, channels, usage>>
    BY <1>9 DEF resume, deferToDigest
  <2> QED BY <1>0, <1>00, <2>1 DEF Kept
<1>10. ASSUME NEW n, flush(n) PROVE Kept'
  <2>1. /\ stage \in {"digest", "capped"} /\ UNCHANGED <<event, channels, usage>>
        /\ stage' \in {stage, "digested"}
    BY <1>10, FlushFacts
  <2> QED BY <1>0, <1>00, <2>1 DEF Kept
<1>11. ASSUME NEW r \in Renderings, fanOut(r) PROVE Kept'
  <2>1. /\ stage = "sending" /\ stage' = "done" /\ UNCHANGED <<event, channels, usage>>
        /\ queued' = {c \in channels : renders(variant', c)}
    BY <1>11 DEF fanOut
  <2>2. \A c \in mandatory : renders(variant', c) <=> variant' \in Loaded BY MandatoryFacts DEF renders
  <2> QED BY <1>0, <1>00, <2>1, <2>2 DEF Kept
<1>12. CASE UNCHANGED vars BY <1>12 DEF Kept, vars, output, mandatory, critical, Exceeds
<1> QED BY <1>1, <1>2, <1>3, <1>4, <1>5, <1>6, <1>7, <1>8, <1>9, <1>10, <1>11, <1>12, Steps

\* A mandated channel is lost only to a category or a global cap that was full
\* when it was asked for, whatever the settings, the other counters, the clock,
\* the templates and the scores, up to the queue; a critical event never waits.
THEOREM MandatedAlwaysKept == Spec => []MandatedKept
<1>1. Init => Kept BY DEF Init, Kept
<1>2. Types /\ Kept /\ [Next]_vars => Kept' BY KeptNext
<1>3. Kept => MandatedKept BY DEF Kept, MandatedKept, mandatory
<1> QED BY <1>1, <1>2, <1>3, TypesAlways, PTL DEF Spec

-----------------------------------------------------------------------------
(***************************************************************************)
(* The preview                                                             *)
(***************************************************************************)

\* Of what was resolved and is served, what no cap took is left.
Served ==
    {c \in channels : supportsChannel(event.type, c)} =
       {c \in resolved : supportsChannel(event.type, c) /\ check(usage, c) = None}

Accounted ==
    /\ stage = "resolved" => channels = resolved
    /\ stage \in {"checked", "awake", "ranked", "held", "delayed", "sending"} => Served
    /\ PreviewAgrees

LEMMA AccountedNext ==
    ASSUME Types, Accounted, [Next]_vars
    PROVE  Accounted'
<1>0. event' = event /\ usage' = usage => \A c : check(usage, c)' = check(usage, c)
  BY DEF check, critical, mandated
<1>1. ASSUME NEW fields, validateEvent(fields) PROVE Accounted'
  BY <1>1 DEF Accounted, PreviewAgrees, validateEvent
<1>2. ASSUME NEW p, resolve(p) PROVE Accounted'
  BY <1>2 DEF Accounted, PreviewAgrees, resolve
<1>3. ASSUME NEW t \in Slots, NEW w \in Slots \X Slots, Digest(t, w) PROVE Accounted'
  BY <1>3 DEF Accounted, PreviewAgrees, Digest
<1>4. ASSUME NEW t \in Slots, NEW w \in Slots \X Slots, CheckQuietHours(t, w) PROVE Accounted'
  <2>1. /\ stage = "checked" /\ stage' \in {"held", "awake"} /\ UNCHANGED <<event, resolved, usage>>
        /\ channels' \in {channels, {c \in channels : supportsChannel(event.type, c)}}
    BY <1>4 DEF CheckQuietHours
  <2>2. Served' BY <1>0, <2>1 DEF Accounted, Served
  <2> QED BY <2>1, <2>2 DEF Accounted, PreviewAgrees
<1>5. ASSUME NEW u, CheckCaps(u) PROVE Accounted'
  <2>1. /\ stage = "resolved" /\ stage' = "checked" /\ resolved' = resolved /\ event' = event /\ usage' = u
        /\ channels' = {c \in channels : check(u, c) = None}
    BY <1>5 DEF CheckCaps
  <2>2. channels = resolved BY <2>1 DEF Accounted
  <2>3. \A c : check(usage, c)' = check(u, c) BY <2>1 DEF check, critical, mandated
  <2>4. Served' BY <2>1, <2>2, <2>3 DEF Served
  <2> QED BY <2>1, <2>4 DEF Accounted, PreviewAgrees
<1>6. CASE Rank
  <2>1. stage = "awake" /\ stage' = "ranked" /\ UNCHANGED <<event, resolved, usage>> BY <1>6 DEF Rank
  <2>2. channels' = {c \in channels : supportsChannel(event.type, c)} BY <1>6, RankServed
  <2>3. Served' BY <1>0, <2>1, <2>2 DEF Accounted, Served
  <2> QED BY <2>1, <2>3 DEF Accounted, PreviewAgrees
<1>7. CASE Suppress BY <1>7 DEF Accounted, PreviewAgrees, Suppress
<1>8. ASSUME NEW table \in ScoreTables, Optimise(table) PROVE Accounted'
  <2>1. /\ stage = "ranked" /\ stage' \in {"delayed", "sending"}
        /\ UNCHANGED <<event, resolved, channels, usage>>
    BY <1>8, Zenon DEF Optimise
  <2>2. Served' BY <1>0, <2>1 DEF Accounted, Served
  <2> QED BY <2>1, <2>2 DEF Accounted, PreviewAgrees
<1>9. CASE resume \/ deferToDigest
  <2>1. /\ stage \in {"held", "delayed"} /\ stage' \in {"sending", "digest"}
        /\ UNCHANGED <<event, resolved, channels, usage>>
    BY <1>9 DEF resume, deferToDigest
  <2>2. Served' BY <1>0, <2>1 DEF Accounted, Served
  <2> QED BY <2>1, <2>2 DEF Accounted, PreviewAgrees
<1>10. ASSUME NEW n, flush(n) PROVE Accounted'
  <2>1. stage' \in {"digest", "capped", "digested"} BY <1>10, FlushFacts
  <2> QED BY <2>1 DEF Accounted, PreviewAgrees
<1>11. ASSUME NEW r \in Renderings, fanOut(r) PROVE Accounted'
  <2>1. /\ stage = "sending" /\ stage' = "done" /\ UNCHANGED <<event, resolved, usage>>
        /\ queued' = {c \in channels : renders(variant', c)}
    BY <1>11 DEF fanOut
  <2>2. Served BY <2>1 DEF Accounted
  <2>3. \A c : renders(variant', c) <=> variant' \in Loaded /\ supportsChannel(event.type, c) BY DEF renders
  <2>4. queued' = {c \in resolved : renders(variant', c) /\ check(usage, c) = None}
    BY <2>1, <2>2, <2>3 DEF Served
  <2>5. preview(variant)' = {c \in resolved : renders(variant', c)} BY <2>1 DEF preview, renders
  <2>6. PreviewAgrees' BY <1>0, <2>1, <2>4, <2>5 DEF PreviewAgrees
  <2> QED BY <2>1, <2>6 DEF Accounted
<1>12. CASE UNCHANGED vars
  <2>1. \A c : check(usage, c)' = check(usage, c) BY <1>0, <1>12 DEF vars
  <2>2. preview(variant)' = preview(variant) BY <1>12 DEF vars, output, preview, renders
  <2> QED BY <1>12, <2>1, <2>2 DEF Accounted, PreviewAgrees, Served, vars, output
<1> QED BY <1>1, <1>2, <1>3, <1>4, <1>5, <1>6, <1>7, <1>8, <1>9, <1>10, <1>11, <1>12, Steps

\* What is queued is what the preview API shows for the same settings and
\* variant, less the channels a cap took.
THEOREM PreviewAlwaysAgrees == Spec => []PreviewAgrees
<1>1. Init => Accounted BY DEF Init, Accounted, PreviewAgrees
<1>2. Types /\ Accounted /\ [Next]_vars => Accounted' BY AccountedNext
<1>3. Accounted => PreviewAgrees BY DEF Accounted
<1> QED BY <1>1, <1>2, <1>3, TypesAlways, PTL DEF Spec

\* From the settings to the queue, through holds, delays and releases: a channel
\* the user turned off carries an event only when the regulator mandates it, and
\* one turned on is lost only to a cap or for want of a text.
THEOREM SettingsAlwaysObeyed == Spec => []SettingsObeyed
<1>1. SettingsResolved /\ PreviewAgrees => SettingsObeyed
  <2> SUFFICES ASSUME SettingsResolved, PreviewAgrees, stage = "done",
                      NEW e \in {prefs.own, prefs.category} \ {None},
                      e = prefs.own \/ prefs.own = None, NEW c \in DOMAIN e.channels
               PROVE  /\ c \in queued => e.channels[c] \/ c \in REGULATORY_CHANNELS(event.type)
                      /\ e.channels[c] => c \in queued \/ check(usage, c) # None \/ ~renders(variant, c)
    BY Zenon DEF SettingsObeyed
  <2>1. c \in resolved <=> e.channels[c] \/ c \in REGULATORY_CHANNELS(event.type)
    <3>1. stage \notin Open BY DEF Open
    <3> QED BY <3>1, Zenon DEF SettingsResolved
  <2>2. c \in queued <=> c \in resolved /\ renders(variant, c) /\ check(usage, c) = None
    BY DEF PreviewAgrees, preview
  <2> QED BY <2>1, <2>2, Zenon
<1> QED BY <1>1, SettingsAlwaysResolved, PreviewAlwaysAgrees, PTL

-----------------------------------------------------------------------------
(***************************************************************************)
(* What is rendered                                                        *)
(***************************************************************************)

Complete == {"RISK-001", "RISK-002", "TXNX-001"}

\* What passed validation, and what it rendered as.
Rendered ==
    /\ stage \notin {"received", "refused"} => EVENT_VALIDATORS(event.type) \subseteq payload
    /\ MarginCallComplete

\* Between the validation and the rendering neither is touched.
LEMMA RenderedOnce ==
    ASSUME [Next]_vars
    PROVE  \/ \E fields : validateEvent(fields)
           \/ \E r \in Renderings : fanOut(r)
           \/ /\ UNCHANGED <<event, payload, blanks, sms>>
              /\ stage' \notin {"received", "refused"} => stage \notin {"received", "refused"}
<1> USE DEF output
<1> DEFINE Same == /\ UNCHANGED <<event, payload, blanks, sms>>
                   /\ stage' \notin {"received", "refused"} => stage \notin {"received", "refused"}
<1>1. ASSUME NEW p, resolve(p) PROVE Same BY <1>1 DEF resolve
<1>2. ASSUME NEW t, NEW w, Digest(t, w) \/ CheckQuietHours(t, w) PROVE Same BY <1>2 DEF Digest, CheckQuietHours
<1>3. ASSUME NEW u, CheckCaps(u) PROVE Same BY <1>3 DEF CheckCaps
<1>4. CASE Rank \/ Suppress \/ resume \/ deferToDigest
  <2>1. Same BY <1>4 DEF Rank, Suppress, resume, deferToDigest
  <2> QED BY <2>1
<1>5. ASSUME NEW table, Optimise(table) PROVE Same
  <2>1. stage = "ranked" /\ UNCHANGED <<event, payload, output>> BY <1>5, Zenon DEF Optimise
  <2> QED BY <2>1
<1>6. ASSUME NEW n, flush(n) PROVE Same BY <1>6 DEF flush
<1>7. CASE UNCHANGED vars
  <2>1. Same BY <1>7 DEF vars
  <2> QED BY <2>1
<1> QED BY <1>1, <1>2, <1>3, <1>4, <1>5, <1>6, <1>7, Steps

LEMMA RenderedNext ==
    ASSUME Types, Rendered, [Next]_vars
    PROVE  Rendered'
<1>1. ASSUME NEW fields, validateEvent(fields) PROVE Rendered'
  BY <1>1 DEF Rendered, MarginCallComplete, validateEvent, output
<1>2. CASE UNCHANGED <<event, payload, blanks>> /\ (stage' \notin {"received", "refused"} => stage \notin {"received", "refused"})
  BY <1>2 DEF Rendered, MarginCallComplete
<1>3. ASSUME NEW r \in Renderings, fanOut(r) PROVE Rendered'
  <2>1. /\ stage = "sending" /\ stage' = "done" /\ UNCHANGED <<event, payload>>
        /\ queued' = {c \in channels : renders(variant', c)}
        /\ blanks' = UNION {{<<c, f>> : f \in mergeChannels(event.type, r.locale, c) \ buildContext(payload)}
                            : c \in queued'}
    BY <1>3 DEF fanOut
  <2>2. EVENT_VALIDATORS(event.type) \subseteq buildContext(payload) BY <2>1 DEF Rendered, buildContext
  <2>3. r.locale \in Locales BY QualificationAssumption
  <2>4. ASSUME event.type \in Complete PROVE blanks' = {}
    <3>1. \A c \in queued' : mergeChannels(event.type, r.locale, c) \subseteq EVENT_VALIDATORS(event.type)
      <4>1. \A c \in queued' : supportsChannel(event.type, c) BY <2>1 DEF renders
      <4> QED BY <2>3, <2>4, <4>1, TextsArePrintable DEF Complete
    <3>2. \A c \in queued' : mergeChannels(event.type, r.locale, c) \ buildContext(payload) = {}
      BY <2>2, <3>1
    <3> QED BY <2>1, <3>2
  <2>5. MarginCallComplete' BY <2>1, <2>4 DEF MarginCallComplete, Complete
  <2> QED BY <2>1, <2>5 DEF Rendered
<1> QED BY <1>1, <1>2, <1>3, RenderedOnce

\* A margin call, a shortfall or a buy confirmation that passed validation never
\* renders with a blank, whatever the channel, the language and the variant.
THEOREM MarginCallAlwaysComplete == Spec => []MarginCallComplete
<1>1. Init => Rendered BY DEF Init, Rendered, MarginCallComplete
<1>2. Types /\ Rendered /\ [Next]_vars => Rendered' BY RenderedNext
<1>3. Rendered => MarginCallComplete BY DEF Rendered
<1> QED BY <1>1, <1>2, <1>3, TypesAlways, PTL DEF Spec

\* A text that is cut fits one segment, unless the extension table widens it.
LEMMA CutFits ==
    ASSUME NEW x \in [gsm : BOOLEAN, length : Nat, extended : Nat, naira : Nat, space : Nat],
           x.extended = 0
    PROVE  encodedLength(renderSms(x)) <= limitFor(renderSms(x))
<1> DEFINE y == toSmsSafe(x)
<1>1. y \in [gsm : BOOLEAN, length : Nat, extended : Nat, naira : Nat, space : Nat]
      /\ y.extended = 0 /\ y.naira = 0
  <2> DEFINE longer == x.length + 3 * x.naira
  <2>1. longer \in Nat OBVIOUS
  <2>2. y = [x EXCEPT !.naira = 0, !.length = longer] BY DEF toSmsSafe
  <2> HIDE DEF longer, y
  <2>3. y = [gsm |-> x.gsm, length |-> longer, extended |-> x.extended, naira |-> 0, space |-> x.space] BY <2>2
  <2> QED BY <2>1, <2>3
<1> HIDE DEF y
<1>2. limitFor(y) \in {160, 70} BY DEF limitFor, GSM7_LIMIT, UCS2_LIMIT
<1>3. encodedLength(y) = y.length BY <1>1 DEF encodedLength
<1>4. CASE encodedLength(y) <= limitFor(y)
  <2>1. renderSms(x) = y BY <1>4 DEF renderSms, truncate, y
  <2> QED BY <1>4, <2>1
<1>5. CASE ~(encodedLength(y) <= limitFor(y))
  <2> DEFINE available == limitFor(y) - SUFFIX
             end == IF 10 * y.space > 8 * available THEN y.space ELSE available
             kept == Min({available, end, y.length})
             z == [y EXCEPT !.length = kept + SUFFIX]
  <2>1. available \in Nat BY <1>2 DEF SUFFIX
  <2>2. end \in Nat /\ y.length \in Nat BY <1>1, <2>1
  <2>3. kept \in Nat /\ kept <= available
    <3> HIDE DEF available, end
    <3>1. {available, end, y.length} \subseteq Nat /\ {available, end, y.length} # {} BY <2>1, <2>2
    <3>2. kept \in {available, end, y.length} /\ \A v \in {available, end, y.length} : kept <= v
      BY <3>1, MinIsLeast
    <3> QED BY <2>1, <2>2, <3>2
  <2>4. renderSms(x) = z BY <1>5 DEF renderSms, truncate, y
  <2>5. z.length = kept + SUFFIX /\ z.gsm = y.gsm /\ z.naira = y.naira /\ z.extended = 0
    <3> HIDE DEF kept
    <3> QED BY <1>1
  <2>6. limitFor(z) = limitFor(y) BY <2>5 DEF limitFor, isGsm7
  <2>7. encodedLength(z) = kept + SUFFIX
    <3> HIDE DEF kept, z
    <3> QED BY <2>3, <2>5 DEF encodedLength, SUFFIX
  <2>8. kept + SUFFIX <= limitFor(y)
    <3> HIDE DEF kept, z
    <3> QED BY <1>2, <2>3 DEF SUFFIX
  <2> HIDE DEF z, kept
  <2> QED BY <2>4, <2>6, <2>7, <2>8
<1> QED BY <1>4, <1>5

\* An SMS without characters of the extension table fits one segment, however
\* long it was and however many signs were rewritten.
THEOREM OneSegmentAlways == Spec => []OneSegment
<1>1. Init => OneSegment BY DEF Init, OneSegment
<1>2. OneSegment /\ [Next]_vars => OneSegment'
  <2> SUFFICES ASSUME OneSegment, [Next]_vars PROVE OneSegment' OBVIOUS
  <2>1. ASSUME NEW r \in Renderings, fanOut(r) PROVE OneSegment'
    <3> DEFINE shown == [rendered |-> r.text, sent |-> renderSms(r.text)]
    <3>1. sms' = shown \/ sms' = None BY <2>1 DEF fanOut
    <3>2. r.text \in [gsm : BOOLEAN, length : Nat, extended : Nat, naira : Nat, space : Nat]
      BY QualificationAssumption
    <3>3. r.text.extended = 0 => encodedLength(renderSms(r.text)) <= limitFor(renderSms(r.text))
      BY <3>2, CutFits
    <3>4. shown.rendered = r.text /\ shown.sent = renderSms(r.text) OBVIOUS
    <3> HIDE DEF shown
    <3> QED BY <3>1, <3>3, <3>4 DEF OneSegment
  <2>2. CASE sms' = sms BY <2>2 DEF OneSegment
  <2>3. sms' = sms \/ \E r \in Renderings : fanOut(r) BY RenderedOnce DEF validateEvent, output
  <2> QED BY <2>1, <2>2, <2>3
<1> QED BY <1>1, <1>2, PTL DEF Spec

-----------------------------------------------------------------------------
(***************************************************************************)
(* Quiet hours and delays                                                  *)
(***************************************************************************)

\* Past the quiet hours, whatever is left to send was not caught by them.
Awake ==
    /\ stage = "awake" /\ ~critical => channels = {} \/ ~Quiet(clock, window)
    /\ stage = "ranked" /\ ~critical => order = <<>> \/ ~Quiet(clock, window)
    /\ stage = "delayed" => scores # None
    /\ DueOnTime

LEMMA NotDue ==
    ASSUME Awake, stage' \in {"received", "accepted", "refused", "resolved", "checked"}
    PROVE  Awake'
BY DEF Awake, DueOnTime, QuietHoursKept, DelayedToBestHour

LEMMA AwakeNext ==
    ASSUME Types, Awake, [Next]_vars
    PROVE  Awake'
<1>0. Slots \subseteq Nat BY DEF Slots, Day
<1>1. ASSUME NEW fields, validateEvent(fields) PROVE Awake' BY <1>1, NotDue DEF validateEvent
<1>2. ASSUME NEW p, resolve(p) PROVE Awake' BY <1>2, NotDue DEF resolve
<1>3. ASSUME NEW t \in Slots, NEW w \in Slots \X Slots, Digest(t, w) PROVE Awake'
  <2>1. /\ stage' = "digest" /\ clock' = t /\ window' = w /\ prefs' = prefs
        /\ due' = IF resolveDigestMode(prefs) = "HOURLY" THEN nextHour(t) ELSE nextActiveWindowStart(t, w)
        /\ WantsDigest /\ UNCHANGED <<event, channels>>
    BY <1>3 DEF Digest
  <2>2. resolveDigestMode(prefs)' = resolveDigestMode(prefs) /\ WantsDigest'
    BY <2>1 DEF resolveDigestMode, WantsDigest, digestable, critical, mandated
  <2>3. t \in Nat BY <1>0
  <2>4. due' >= clock' /\ due' <= clock' + Day
    <3>1. nextHour(t) >= t /\ nextHour(t) <= t + Day BY <2>3, NextHourIsLater DEF Day
    <3>2. nextActiveWindowStart(t, w) >= t /\ nextActiveWindowStart(t, w) <= t + Day
      BY <2>3, DueAtDawn
    <3> QED BY <2>1, <3>1, <3>2
  <2>5. resolveDigestMode(prefs) # "HOURLY" => ~Quiet(due, window)'
    <3>1. resolveDigestMode(prefs) # "HOURLY" => ~Quiet(due', w) BY <2>1, <2>3, DueAtDawn
    <3> QED BY <2>1, <3>1 DEF Quiet
  <2> QED BY <2>1, <2>2, <2>4, <2>5 DEF Awake, DueOnTime, QuietHoursKept, DelayedToBestHour
<1>4. ASSUME NEW t \in Slots, NEW w \in Slots \X Slots, CheckQuietHours(t, w) PROVE Awake'
  <2> DEFINE quiet == suppressedByQuietHours(t, w)
             deferred == {c \in channels : supportsChannel(event.type, c)}
  <2>1. /\ event' = event /\ clock' = t /\ window' = w
        /\ channels' = IF ~quiet THEN channels ELSE deferred
        /\ due' = IF quiet /\ deferred # {} THEN nextActiveWindowStart(t, w) ELSE None
        /\ stage' = IF quiet /\ deferred # {} THEN "held" ELSE "awake"
    BY <1>4 DEF CheckQuietHours
  <2>2. quiet <=> channels # {} /\ ~critical /\ Quiet(t, w) BY <1>0, QuietTest DEF suppressedByQuietHours
  <2>3. critical' <=> critical BY <2>1 DEF critical
  <2> HIDE DEF quiet, deferred
  <2>4. CASE quiet /\ deferred # {}
    <3>1. stage' = "held" /\ due' = nextActiveWindowStart(t, w) BY <2>1, <2>4
    <3>2. ~Quiet(due', w) /\ \A u \in t..(due' - 1) : Quiet(u, w) BY <1>0, <2>2, <2>4, <3>1, QuietEnds
    <3> QED BY <2>1, <3>1, <3>2 DEF Awake, DueOnTime, QuietHoursKept, DelayedToBestHour, Quiet
  <2>5. CASE ~(quiet /\ deferred # {})
    <3>1. stage' = "awake" BY <2>1, <2>5
    <3>2. ~critical => channels' = {} \/ ~Quiet(t, w) BY <2>1, <2>2, <2>5
    <3> QED BY <2>1, <2>3, <3>1, <3>2 DEF Awake, DueOnTime, QuietHoursKept, DelayedToBestHour, Quiet
  <2> QED BY <2>4, <2>5
<1>5. ASSUME NEW u, CheckCaps(u) PROVE Awake' BY <1>5, NotDue DEF CheckCaps
<1>6. CASE Rank
  <2>1. stage = "awake" /\ stage' = "ranked" /\ UNCHANGED <<event, clock, window>> BY <1>6 DEF Rank
  <2>2. channels = {} => order' = <<>> BY <1>6, RankServed
  <2>3. critical' <=> critical BY <2>1 DEF critical
  <2>4. Quiet(clock, window)' <=> Quiet(clock, window) BY <2>1 DEF Quiet
  <2> QED BY <2>1, <2>2, <2>3, <2>4 DEF Awake, DueOnTime, QuietHoursKept, DelayedToBestHour
<1>7. CASE Suppress
  <2>1. /\ stage = "ranked" /\ stage' = "capped" /\ UNCHANGED <<clock, window>>
        /\ due' \in {nextActiveWindowStart(clock, window), None}
    BY <1>7 DEF Suppress
  <2>2. clock \in Nat /\ window \in Slots \X Slots BY <2>1 DEF Types, Timed
  <2>3. /\ nextActiveWindowStart(clock, window) >= clock
        /\ nextActiveWindowStart(clock, window) <= clock + Day
        /\ ~Quiet(nextActiveWindowStart(clock, window), window)
    BY <2>2, DueAtDawn
  <2>4. due' # None => due' >= clock' /\ due' <= clock' + Day /\ ~Quiet(due, window)'
    BY <2>1, <2>3 DEF Quiet
  <2> QED BY <2>1, <2>4 DEF Awake, DueOnTime, QuietHoursKept, DelayedToBestHour
<1>8. ASSUME NEW table \in ScoreTables, Optimise(table) PROVE Awake'
  <2> DEFINE hour == getBestHour(table)
  <2>1. /\ stage = "ranked" /\ order # <<>> /\ UNCHANGED <<event, clock, window>>
        /\ \/ /\ decide(table) /\ stage' = "delayed" /\ scores' = table
              /\ due' = clock + computeDelay(clock, hour)
           \/ stage' = "sending"
    BY <1>8, Zenon DEF Optimise
  <2>0. table # None BY QualificationAssumption
  <2>2. CASE stage' = "sending"
    <3>1. ~critical => ~Quiet(clock, window) BY <2>1 DEF Awake
    <3>2. UNCHANGED <<event, clock, window>> BY <2>1
    <3>3. (critical' <=> critical) /\ (Quiet(clock, window)' <=> Quiet(clock, window))
      BY <3>2 DEF critical, Quiet
    <3> QED BY <2>2, <3>1, <3>3 DEF Awake, DueOnTime, QuietHoursKept, DelayedToBestHour
  <2>3. CASE /\ decide(table) /\ stage' = "delayed" /\ scores' = table
             /\ due' = clock + computeDelay(clock, hour)
    <3>1. ~critical /\ event.priority > 2 /\ DOMAIN table # {} /\ computeDelay(clock, hour) <= 8
      BY <2>3, DecideFacts DEF MAX_DELAY_HOURS
    <3>2. /\ hour \in DOMAIN table /\ hour \in 0..23
          /\ \A g \in DOMAIN table : table[g] <= table[hour]
      BY <3>1, BestHour
    <3>3. clock \in Nat BY <2>1 DEF Types, Timed
    <3>4. 2 * hour \in Slots BY <3>2 DEF Slots, Day
    <3> HIDE DEF hour
    <3> DEFINE next == NextOccurrence(clock, 2 * hour)
    <3>5. next \in Nat /\ clock < next /\ userTime(next) % Day = 2 * hour BY <3>3, <3>4, Next48
    <3> HIDE DEF next
    <3>6. computeDelay(clock, hour) = next - clock BY DEF computeDelay, next
    <3>7. due' = next BY <2>3, <3>3, <3>5, <3>6
    <3>8. due' \in (clock + 1)..(clock + 2 * MAX_DELAY_HOURS)
      BY <3>1, <3>3, <3>5, <3>6, <3>7 DEF MAX_DELAY_HOURS
    <3>9. event.priority \in {3, 5}
      <4>1. event.priority \in {1, 2, 3, 5} BY QualificationAssumption DEF Types
      <4> QED BY <3>1, <4>1
    <3>10. UNCHANGED <<event, clock, window>> BY <2>1
    <3>11. ~critical' /\ event.priority' \in {3, 5} BY <3>1, <3>9, <3>10 DEF critical
    <3>12. userTime(due') % Day = 2 * hour BY <3>5, <3>7
    <3>13. \E h \in DOMAIN scores' : userTime(due') % Day = 2 * h /\ \A g \in DOMAIN scores' : scores'[g] <= scores'[h]
      BY <2>3, <3>2, <3>12
    <3>14. DelayedToBestHour' BY <3>8, <3>10, <3>11, <3>13 DEF DelayedToBestHour, userTime
    <3> QED BY <2>0, <2>3, <3>14 DEF Awake, DueOnTime, QuietHoursKept
  <2> QED BY <2>1, <2>2, <2>3
<1>9. CASE resume
  <2>1. /\ stage \in {"held", "delayed"} /\ stage' = "sending" /\ clock' = due
        /\ UNCHANGED <<event, window, scores>>
    BY <1>9 DEF resume
  <2>2. ~Quiet(due, window) \/ scores # None BY <2>1 DEF Awake, DueOnTime, QuietHoursKept
  <2>3. ~Quiet(clock, window)' \/ scores' # None BY <2>1, <2>2 DEF Quiet
  <2> QED BY <2>1, <2>3 DEF Awake, DueOnTime, QuietHoursKept, DelayedToBestHour
<1>10. CASE deferToDigest
  <2>1. /\ stage = "held" /\ stage' = "digest" /\ clock' = due /\ due' = due /\ window' = window
    BY <1>10 DEF deferToDigest
  <2>2. due \in Nat /\ ~Quiet(due, window) BY <2>1 DEF Types, Awake, DueOnTime, QuietHoursKept
  <2>3. due' >= clock' /\ due' <= clock' + Day BY <2>1, <2>2 DEF Day
  <2>4. ~Quiet(due, window)' BY <2>1, <2>2 DEF Quiet
  <2> QED BY <2>1, <2>3, <2>4 DEF Awake, DueOnTime, QuietHoursKept, DelayedToBestHour
<1>11. ASSUME NEW n, flush(n) PROVE Awake'
  <2>1. /\ stage \in {"digest", "capped"} /\ due \in Nat /\ clock' = due
        /\ UNCHANGED <<event, prefs, channels, window>>
    BY <1>11, FlushFacts
  <2>2. window \in Slots \X Slots BY <2>1 DEF Types, Timed
  <2>3. CASE stage' = "digest" /\ due' = nextActiveWindowStart(due, window)
    <3>1. due' >= clock' /\ due' <= clock' + Day /\ ~Quiet(due', window)
      BY <2>1, <2>2, <2>3, DueAtDawn
    <3>2. ~Quiet(due, window)' BY <2>1, <3>1 DEF Quiet
    <3> QED BY <2>3, <3>1, <3>2 DEF Awake, DueOnTime, QuietHoursKept, DelayedToBestHour
  <2>4. CASE stage' = "capped" /\ due' = None
    BY <2>4 DEF Awake, DueOnTime, QuietHoursKept, DelayedToBestHour
  <2>5. CASE /\ stage' = "digested"
             /\ stage = "capped" \/ ~WantsDigest \/ ~isWithinQuietHours(due, window)
    <3>1. ~Quiet(due, window)
      <4>1. CASE stage = "capped" \/ ~WantsDigest
        <5>1. due # None BY <1>11 DEF flush
        <5> QED BY <2>1, <4>1, <5>1 DEF Awake, DueOnTime, QuietHoursKept
      <4>2. CASE ~isWithinQuietHours(due, window) BY <2>1, <2>2, <4>2, QuietTest
      <4> QED BY <2>5, <4>1, <4>2
    <3>2. ~Quiet(clock, window)' BY <2>1, <3>1 DEF Quiet
    <3> QED BY <2>5, <3>2 DEF Awake, DueOnTime, QuietHoursKept, DelayedToBestHour
  <2> QED BY <1>11, <2>3, <2>4, <2>5, FlushFacts
<1>12. ASSUME NEW r \in Renderings, fanOut(r) PROVE Awake'
  <2>1. stage = "sending" /\ stage' = "done" /\ UNCHANGED <<event, clock, window, scores>> BY <1>12 DEF fanOut
  <2>2. (critical' <=> critical) /\ (Quiet(clock, window)' <=> Quiet(clock, window))
    BY <2>1 DEF critical, Quiet
  <2> QED BY <2>1, <2>2 DEF Awake, DueOnTime, QuietHoursKept, DelayedToBestHour
<1>13. CASE UNCHANGED vars
  <2>1. UNCHANGED <<stage, event, prefs, channels, order, clock, window, due, scores>> BY <1>13 DEF vars
  <2> QED BY <2>1 DEF Awake, DueOnTime, QuietHoursKept, DelayedToBestHour, Quiet, critical, mandated,
                      digestable, WantsDigest, resolveDigestMode, userTime
<1> QED BY <1>1, <1>2, <1>3, <1>4, <1>5, <1>6, <1>7, <1>8, <1>9, <1>10, <1>11, <1>12, <1>13, Steps

\* But for critical events nothing goes out inside the user's quiet window, what
\* is held for it is due at the first moment that is not quiet, and a delay ends
\* at the user's best hour: for every window, overnight or not, every time zone
\* and every table of scores.
THEOREM AlwaysDueOnTime == Spec => []DueOnTime
<1>1. Init => Awake
  BY DEF Init, Awake, DueOnTime, QuietHoursKept, DelayedToBestHour
<1>2. Types /\ Awake /\ [Next]_vars => Awake' BY AwakeNext
<1>3. Awake => DueOnTime BY DEF Awake
<1> QED BY <1>1, <1>2, <1>3, TypesAlways, PTL DEF Spec
=============================================================================
