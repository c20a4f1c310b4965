--------------------------- MODULE UserPolicies ---------------------------
(***************************************************************************)
(* What one user has asked for, in PostgreSQL, and the two Redis caches in *)
(* front of it: the DND status (DndService) and the preferences            *)
(* (PreferencesService, PreferenceResolverService, PreferenceCacheService),*)
(* read through by checks and resolutions, invalidated by updates and      *)
(* left to expire.  The quiet window, which has no cache, is validated     *)
(* against what is stored and written later.                               *)
(*                                                                         *)
(* A policy's value is the number of updates it has seen, which is what    *)
(* tells a stale answer from a current one.  Each command is a step.       *)
(***************************************************************************)
EXTENDS Naturals, FiniteSets

CONSTANTS
    Readers,        \* concurrent checks and resolutions
    Writers,        \* concurrent updates
    Starts, Ends,   \* hours a request may set the quiet window to
    MinWindow,      \* MIN_QUIET_WINDOW_MINUTES, in hours
    MaxUpdates,     \* bound on updates
    MaxReads,       \* bound on reads
    MaxFaults, None

ASSUME PoliciesAssumption ==
    /\ Starts \subseteq 0..23 /\ Ends \subseteq 0..23 /\ None \notin 0..23
    /\ MinWindow \in 1..23 /\ {MaxUpdates, MaxReads, MaxFaults} \subseteq Nat

Policies == {"dnd", "prefs"}

VARIABLES
    db,            \* users.dndStatus, user_preferences: updates committed
    cache, expiry, \* Redis: the value cached, or None; it has a TTL
    start, end,    \* users.quietHoursStart, quietHoursEnd
    rpc, policy,   \* reader: where it is, what it reads
    got,           \* its answer (channels, or the DND status)
    mode,          \* the version its digest mode comes from; None for IMMEDIATE
    wpc, target,   \* writer: where it is, what it updates
    dto,           \* its quiet hours, and what a refresh has read
    known,         \* history: by policy, updates that have been answered
    asked,         \* history: known when the reader began
    raced,         \* history: a fill has overtaken an update, and lives
    doubt,         \* history: the reader met such a fill
    updates, reads, faults

reader == <<rpc, policy, got, mode, asked, doubt>>
writer == <<wpc, target, dto>>
redis  == <<cache, expiry, raced>>
window == <<start, end>>
vars   == <<db, redis, window, reader, writer, known, updates, reads, faults>>

NoDto == [start |-> None, end |-> None, loaded |-> None]

Init ==
    /\ db = [p \in Policies |-> 0] /\ cache = [p \in Policies |-> None]
    /\ expiry = [p \in Policies |-> FALSE] /\ raced = [p \in Policies |-> FALSE]
    /\ start = 21 /\ end = 8
    /\ rpc = [r \in Readers |-> "idle"] /\ policy = [r \in Readers |-> "dnd"]
    /\ got = [r \in Readers |-> None] /\ mode = [r \in Readers |-> None]
    /\ wpc = [w \in Writers |-> "idle"] /\ target = [w \in Writers |-> "dnd"]
    /\ dto = [w \in Writers |-> NoDto]
    /\ known = [p \in Policies |-> 0] /\ asked = [r \in Readers |-> 0]
    /\ doubt = [r \in Readers |-> FALSE]
    /\ updates = 0 /\ reads = 0 /\ faults = 0

-----------------------------------------------------------------------------
(***************************************************************************)
(* The cache-aside pattern both services follow.                           *)
(***************************************************************************)

\* GET: a hit is the answer, a miss goes to the database.
Get(r, p, hit) ==
    /\ rpc[r] = "idle" /\ reads < MaxReads
    /\ reads' = reads + 1
    /\ policy' = [policy EXCEPT ![r] = p]
    /\ asked' = [asked EXCEPT ![r] = known[p]]
    /\ doubt' = [doubt EXCEPT ![r] = raced[p]]
    /\ got' = [got EXCEPT ![r] = cache[p]]
    /\ mode' = [mode EXCEPT ![r] = None]
    /\ rpc' = [rpc EXCEPT ![r] = IF cache[p] = None THEN "load" ELSE hit]
    /\ UNCHANGED <<db, redis, window, writer, known, updates, faults>>

\* SETEX of a value read before: it may be older than the database.
setex(p, v) ==
    /\ cache' = [cache EXCEPT ![p] = v] /\ expiry' = [expiry EXCEPT ![p] = TRUE]
    /\ raced' = [raced EXCEPT ![p] = v < db[p]]

del(p) ==
    /\ cache' = [cache EXCEPT ![p] = None] /\ expiry' = [expiry EXCEPT ![p] = FALSE]
    /\ raced' = [raced EXCEPT ![p] = FALSE]

\* A TTL runs out: 24 hours for the DND status, one for the preferences.
Expire(p) ==
    /\ expiry[p]
    /\ del(p)
    /\ UNCHANGED <<db, window, reader, writer, known, updates, reads, faults>>

-----------------------------------------------------------------------------
(***************************************************************************)
(* DndService                                                              *)
(***************************************************************************)

isDndRegistered(r) == Get(r, "dnd", "idle")

\* PreferenceResolverService.resolve: the channels, and after them the digest
\* mode, which asks the cache again.
resolve(r) == Get(r, "prefs", "digest")

\* The miss: the database is read ...
Load(r) ==
    /\ rpc[r] = "load"
    /\ got' = [got EXCEPT ![r] = db[policy[r]]]
    /\ rpc' = [rpc EXCEPT ![r] = "fill"]
    /\ UNCHANGED <<db, redis, window, policy, mode, asked, doubt, writer, known, updates, reads, faults>>

\* ... and the cache populated with what it said.
Fill(r) ==
    /\ rpc[r] = "fill"
    /\ setex(policy[r], got[r])
    /\ rpc' = [rpc EXCEPT ![r] = IF policy[r] = "prefs" THEN "digest" ELSE "idle"]
    /\ UNCHANGED <<db, window, policy, got, mode, asked, doubt, writer, known, updates, reads, faults>>

\* resolveDigestMode: whatever the cache holds by now.
resolveDigestMode(r) ==
    /\ rpc[r] = "digest"
    /\ mode' = [mode EXCEPT ![r] = cache["prefs"]]
    /\ rpc' = [rpc EXCEPT ![r] = "idle"]
    /\ UNCHANGED <<db, redis, window, policy, got, asked, doubt, writer, known, updates, reads, faults>>

Begin(w, p, pcn) ==
    /\ wpc[w] = "idle" /\ updates < MaxUpdates
    /\ updates' = updates + 1
    /\ target' = [target EXCEPT ![w] = p]
    /\ wpc' = [wpc EXCEPT ![w] = pcn]

\* updateDndStatus: the row, then the cache (Invalidate).
updateDndStatus(w) ==
    /\ Begin(w, "dnd", "invalidate")
    /\ db' = [db EXCEPT !["dnd"] = @ + 1]
    /\ UNCHANGED <<redis, window, reader, dto, known, reads, faults>>

\* refreshDndCache: the rows are read, then written to the cache in a pipeline.
refreshDndCache(w) ==
    /\ Begin(w, "dnd", "pipeline")
    /\ dto' = [dto EXCEPT ![w].loaded = db["dnd"]]
    /\ UNCHANGED <<db, redis, window, reader, known, reads, faults>>

RefreshPipeline(w) ==
    /\ wpc[w] = "pipeline"
    /\ setex("dnd", dto[w].loaded)
    /\ dto' = [dto EXCEPT ![w] = NoDto] /\ wpc' = [wpc EXCEPT ![w] = "idle"]
    /\ UNCHANGED <<db, window, reader, target, known, updates, reads, faults>>

-----------------------------------------------------------------------------
(***************************************************************************)
(* PreferencesService.updatePreferences                                    *)
(***************************************************************************)

Provided(x, stored) == IF x = None THEN stored ELSE x

\* (end - start + 1440) % 1440, in hours.
WindowLength(s, e) == (e + 24 - s) % 24

\* assertQuietWindow: a request that leaves too short a window is refused
\* before anything is written.
assertQuietWindow(w, s, e) ==
    /\ Begin(w, "prefs", "upsert")
    /\ s # None \/ e # None => WindowLength(Provided(s, start), Provided(e, end)) >= MinWindow
    /\ dto' = [dto EXCEPT ![w].start = s, ![w].end = e]
    /\ UNCHANGED <<db, redis, window, reader, known, reads, faults>>

\* The upserts of all channels, in one transaction.
Upsert(w) ==
    /\ wpc[w] = "upsert"
    /\ db' = [db EXCEPT !["prefs"] = @ + 1]
    /\ wpc' = [wpc EXCEPT ![w] = "quietHours"]
    /\ UNCHANGED <<redis, window, reader, target, dto, known, updates, reads, faults>>

\* The quiet hours the request names, and only those.
WriteQuietHours(w) ==
    /\ wpc[w] = "quietHours"
    /\ start' = Provided(dto[w].start, start) /\ end' = Provided(dto[w].end, end)
    /\ wpc' = [wpc EXCEPT ![w] = "invalidate"]
    /\ UNCHANGED <<db, redis, reader, target, dto, known, updates, reads, faults>>

\* Plausible slip: the cached entry is left to expire by itself.
Invalidate_LeftToExpire(w) ==
    /\ wpc[w] = "invalidate"
    /\ known' = [known EXCEPT ![target[w]] = db[target[w]]]
    /\ wpc' = [wpc EXCEPT ![w] = "idle"] /\ dto' = [dto EXCEPT ![w] = NoDto]
    /\ UNCHANGED <<db, redis, window, reader, target, updates, reads, faults>>

\* DEL: "invalidate cache immediately", and the update is answered.  What is
\* committed by now is what later reads should see.
Invalidate(w) ==
    /\ wpc[w] = "invalidate"
    /\ del(target[w])
    /\ known' = [known EXCEPT ![target[w]] = db[target[w]]]
    /\ wpc' = [wpc EXCEPT ![w] = "idle"] /\ dto' = [dto EXCEPT ![w] = NoDto]
    /\ UNCHANGED <<db, window, reader, target, updates, reads, faults>>

\* A command throws, or the process dies: the update is not answered.
WriterFails(w) ==
    /\ wpc[w] # "idle" /\ faults < MaxFaults
    /\ faults' = faults + 1
    /\ wpc' = [wpc EXCEPT ![w] = "idle"] /\ dto' = [dto EXCEPT ![w] = NoDto]
    /\ raced' = [raced EXCEPT ![target[w]] = cache[target[w]] \notin {None, db[target[w]]}]
    /\ UNCHANGED <<db, cache, expiry, window, reader, target, known, updates, reads>>

-----------------------------------------------------------------------------
Read(r) == Load(r) \/ Fill(r) \/ resolveDigestMode(r)
Write(w) == Upsert(w) \/ WriteQuietHours(w) \/ Invalidate(w) \/ RefreshPipeline(w)

Next ==
    \/ \E r \in Readers : isDndRegistered(r) \/ resolve(r) \/ Read(r)
    \/ \E w \in Writers :
          \/ updateDndStatus(w) \/ refreshDndCache(w) \/ Write(w) \/ WriterFails(w)
          \/ \E s \in Starts \cup {None}, e \in Ends \cup {None} : assertQuietWindow(w, s, e)
    \/ \E p \in Policies : Expire(p)

Spec == Init /\ [][Next]_vars

-----------------------------------------------------------------------------
\* "Immediately invalidates cache so next check reflects new status"
\* (updateDndStatus, updatePreferences): a check that begins after an update
\* was answered sees it.  Excused is one that meets an entry written by a fill
\* that read the database before the update and wrote the cache after it, or
\* left behind by an update that failed half-way.
ReadsLastUpdate ==
    \A r \in Readers :
       rpc[r] \in {"fill", "digest", "idle"} /\ got[r] # None /\ ~doubt[r] => got[r] >= asked[r]
=============================================================================
