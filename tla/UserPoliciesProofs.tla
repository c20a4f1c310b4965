------------------------- MODULE UserPoliciesProofs -------------------------
(***************************************************************************)
(* What the caches guarantee for any number of readers and writers, any    *)
(* hours and any number of updates and faults.                             *)
(***************************************************************************)
EXTENDS UserPolicies, TLAPS

Hours == 0..23
Dtos  == [start : Starts \cup {None}, end : Ends \cup {None}, loaded : Nat \cup {None}]

\* Versions are naturals, and what is to be cached has been read.
Types ==
    /\ db \in [Policies -> Nat] /\ known \in [Policies -> Nat]
    /\ cache \in [Policies -> Nat \cup {None}] /\ raced \in [Policies -> BOOLEAN]
    /\ rpc \in [Readers -> {"idle", "load", "fill", "digest"}]
    /\ policy \in [Readers -> Policies]
    /\ got \in [Readers -> Nat \cup {None}] /\ asked \in [Readers -> Nat]
    /\ doubt \in [Readers -> BOOLEAN]
    /\ \A r \in Readers : rpc[r] = "fill" => got[r] \in Nat
    /\ wpc \in [Writers -> {"idle", "invalidate", "pipeline", "upsert", "quietHours"}]
    /\ target \in [Writers -> Policies]
    /\ start \in Hours /\ end \in Hours
    /\ dto \in [Writers -> Dtos]
    /\ \A w \in Writers : wpc[w] = "pipeline" => dto[w].loaded \in Nat

\* What is answered was committed; what is cached is at least what was
\* answered, unless a fill has overtaken an update; and a reader under way
\* has an answer at least as new as what was answered when it began.
Fresh ==
    /\ \A p \in Policies : known[p] <= db[p]
    /\ \A p \in Policies : cache[p] # None /\ ~raced[p] => cache[p] >= known[p]
    /\ \A r \in Readers : asked[r] <= known[policy[r]]

CacheInv == Types /\ Fresh /\ ReadsLastUpdate

\* Nothing is cached and nobody has asked at the start.
LEMMA CacheInit == Init => CacheInv
<1> SUFFICES ASSUME Init PROVE CacheInv
  OBVIOUS
<1>1. NoDto \in Dtos
  BY DEF NoDto, Dtos
<1> QED BY <1>1 DEF Init, CacheInv, Types, Fresh, ReadsLastUpdate, Policies, Hours

\* A request's hours are noted in its writer's locals.
LEMMA WithHours ==
    ASSUME NEW d \in Dtos, NEW s \in Starts \cup {None}, NEW e \in Ends \cup {None}
    PROVE  [d EXCEPT !.start = s, !.end = e] \in Dtos
  BY DEF Dtos

\* Hours, named or stored, are hours.
LEMMA ProvidedHours ==
    ASSUME NEW x \in Starts \cup Ends \cup {None}, NEW stored \in Hours
    PROVE  Provided(x, stored) \in Hours
  BY PoliciesAssumption DEF PoliciesAssumption, Provided, Hours

\* A read or a write of the cache keeps every variable's type.
LEMMA TypesStep == ASSUME Types, Next PROVE Types'
<1> USE DEF Types, Policies, reader, writer, redis, window
<1>0. NoDto \in Dtos
  BY DEF NoDto, Dtos
<1>1. ASSUME NEW r \in Readers, NEW p \in Policies, NEW hit \in {"idle", "digest"}, Get(r, p, hit)
      PROVE  Types'
  BY <1>1 DEF Get
<1>2. ASSUME NEW r \in Readers, Load(r) PROVE Types'
  BY <1>2 DEF Load
<1>3. ASSUME NEW r \in Readers, Fill(r) PROVE Types'
  BY <1>3 DEF Fill, setex
<1>4. ASSUME NEW r \in Readers, resolveDigestMode(r) PROVE Types'
  BY <1>4 DEF resolveDigestMode
<1>5. ASSUME NEW w \in Writers, updateDndStatus(w) PROVE Types'
  BY <1>5 DEF updateDndStatus, Begin
<1>6. ASSUME NEW w \in Writers, refreshDndCache(w) PROVE Types'
  <2>1. dto' \in [Writers -> Dtos] /\ dto'[w].loaded \in Nat
        /\ \A v \in Writers : v # w => dto'[v] = dto[v]
    BY <1>6 DEF refreshDndCache, Dtos
  <2> QED BY <1>6, <2>1 DEF refreshDndCache, Begin
<1>7. ASSUME NEW w \in Writers, RefreshPipeline(w) PROVE Types'
  BY <1>0, <1>7 DEF RefreshPipeline, setex
<1>8. ASSUME NEW w \in Writers, NEW s \in Starts \cup {None}, NEW e \in Ends \cup {None},
             assertQuietWindow(w, s, e)
      PROVE  Types'
  <2>1. dto' \in [Writers -> Dtos] /\ \A v \in Writers : v # w => dto'[v] = dto[v]
    <3>1. [dto[w] EXCEPT !.start = s, !.end = e] \in Dtos
      BY WithHours
    <3>2. dto' = [dto EXCEPT ![w] = [dto[w] EXCEPT !.start = s, !.end = e]]
      BY <1>8 DEF assertQuietWindow
    <3> QED BY <3>1, <3>2
  <2> QED BY <1>8, <2>1 DEF assertQuietWindow, Begin
<1>9. ASSUME NEW w \in Writers, Upsert(w) PROVE Types'
  BY <1>9 DEF Upsert
<1>10. ASSUME NEW w \in Writers, WriteQuietHours(w) PROVE Types'
  <2>1. dto[w].start \in Starts \cup {None} /\ dto[w].end \in Ends \cup {None}
    BY DEF Dtos
  <2>2. start' \in Hours /\ end' \in Hours
    BY <1>10, <2>1, ProvidedHours DEF WriteQuietHours
  <2> QED BY <1>10, <2>2 DEF WriteQuietHours
<1>11. ASSUME NEW w \in Writers, Invalidate(w) PROVE Types'
  BY <1>0, <1>11 DEF Invalidate, del
<1>12. ASSUME NEW w \in Writers, WriterFails(w) PROVE Types'
  BY <1>0, <1>12 DEF WriterFails
<1>13. ASSUME NEW p \in Policies, Expire(p) PROVE Types'
  BY <1>13 DEF Expire, del
<1> QED BY <1>1, <1>2, <1>3, <1>4, <1>5, <1>6, <1>7, <1>8, <1>9, <1>10, <1>11, <1>12, <1>13
        DEF Next, Read, Write, isDndRegistered, resolve

\* A version written to the cache is marked when the database has moved on.
LEMMA SetexFresh ==
    ASSUME CacheInv, NEW p \in Policies, NEW v \in Nat, setex(p, v),
           UNCHANGED <<db, known, policy, asked>>
    PROVE  Fresh'
<1> USE DEF CacheInv, Types, Fresh
<1> DEFINE b == v < db[p]
<1>1. cache' = [cache EXCEPT ![p] = v] /\ raced' = [raced EXCEPT ![p] = b] /\ (~b <=> v >= db[p])
  BY DEF setex
<1> HIDE DEF b
<1>2. ASSUME NEW x \in Policies, cache'[x] # None, ~raced'[x] PROVE cache'[x] >= known[x]
  <2>1. CASE x = p
    BY <1>1, <1>2, <2>1
  <2>2. CASE x # p
    BY <1>1, <1>2, <2>2
  <2> QED BY <2>1, <2>2
<1> QED BY <1>2

\* Every step keeps answers fresh.
LEMMA CacheStep == ASSUME CacheInv, Next PROVE Fresh' /\ ReadsLastUpdate'
<1> USE DEF CacheInv, Types, Fresh, ReadsLastUpdate, Policies, reader, writer, redis, window
<1>1. ASSUME NEW r \in Readers, NEW p \in Policies, NEW hit \in {"idle", "digest"}, Get(r, p, hit)
      PROVE  Fresh' /\ ReadsLastUpdate'
  BY <1>1 DEF Get
<1>2. ASSUME NEW r \in Readers, Load(r) PROVE Fresh' /\ ReadsLastUpdate'
  BY <1>2 DEF Load
<1>3. ASSUME NEW r \in Readers, Fill(r) PROVE Fresh' /\ ReadsLastUpdate'
  <2>1. Fresh'
    BY <1>3, SetexFresh DEF Fill
  <2>2. ReadsLastUpdate'
    BY <1>3 DEF Fill
  <2> QED BY <2>1, <2>2
<1>4. ASSUME NEW r \in Readers, resolveDigestMode(r) PROVE Fresh' /\ ReadsLastUpdate'
  BY <1>4 DEF resolveDigestMode
<1>5. ASSUME NEW w \in Writers, updateDndStatus(w) PROVE Fresh' /\ ReadsLastUpdate'
  BY <1>5 DEF updateDndStatus
<1>6. ASSUME NEW w \in Writers, refreshDndCache(w) PROVE Fresh' /\ ReadsLastUpdate'
  BY <1>6 DEF refreshDndCache
<1>7. ASSUME NEW w \in Writers, RefreshPipeline(w) PROVE Fresh' /\ ReadsLastUpdate'
  <2>1. Fresh'
    BY <1>7, SetexFresh DEF RefreshPipeline
  <2>2. ReadsLastUpdate'
    BY <1>7 DEF RefreshPipeline
  <2> QED BY <2>1, <2>2
<1>8. ASSUME NEW w \in Writers, NEW s \in Starts \cup {None}, NEW e \in Ends \cup {None},
             assertQuietWindow(w, s, e)
      PROVE  Fresh' /\ ReadsLastUpdate'
  BY <1>8 DEF assertQuietWindow
<1>9. ASSUME NEW w \in Writers, Upsert(w) PROVE Fresh' /\ ReadsLastUpdate'
  BY <1>9 DEF Upsert
<1>10. ASSUME NEW w \in Writers, WriteQuietHours(w) PROVE Fresh' /\ ReadsLastUpdate'
  BY <1>10 DEF WriteQuietHours
<1>11. ASSUME NEW w \in Writers, Invalidate(w) PROVE Fresh' /\ ReadsLastUpdate'
  BY <1>11 DEF Invalidate, del
<1>12. ASSUME NEW w \in Writers, WriterFails(w) PROVE Fresh' /\ ReadsLastUpdate'
  BY <1>12 DEF WriterFails
<1>13. ASSUME NEW p \in Policies, Expire(p) PROVE Fresh' /\ ReadsLastUpdate'
  BY <1>13 DEF Expire, del
<1> QED BY <1>1, <1>2, <1>3, <1>4, <1>5, <1>6, <1>7, <1>8, <1>9, <1>10, <1>11, <1>12, <1>13
        DEF Next, Read, Write, isDndRegistered, resolve

\* However checks, fills, updates, expiries and failures interleave: a check or
\* a resolution that begins after an update was answered sees it, unless it
\* meets an entry that a fill wrote over the update or a failed update left.
THEOREM AlwaysReadsLastUpdate == Spec => []ReadsLastUpdate
<1>1. CacheInv /\ UNCHANGED vars => CacheInv'
  BY DEF CacheInv, Types, Fresh, ReadsLastUpdate, vars, reader, writer, redis, window
<1>2. CacheInv /\ [Next]_vars => CacheInv'
  BY <1>1, TypesStep, CacheStep DEF CacheInv
<1>3. CacheInv => ReadsLastUpdate
  BY DEF CacheInv
<1> QED BY CacheInit, <1>2, <1>3, PTL DEF Spec

=============================================================================
