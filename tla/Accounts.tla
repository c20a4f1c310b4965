------------------------------ MODULE Accounts ------------------------------
(***************************************************************************)
(* Sign-up, login by one-time code and token rotation: SignupService,      *)
(* OtpService, OtpCodeStore, OtpCodeDeliveryService and AuthService.       *)
(*                                                                         *)
(* Each step of a client is one Redis, PostgreSQL or provider call of the  *)
(* request it makes; the requests of several clients interleave at those   *)
(* calls.  Whether a presented code is the right one is a choice, which    *)
(* only somebody the code was delivered to can make; hashing, signatures   *)
(* and the wording of answers are left out, and a TTL is a flag: a key     *)
(* that has one may expire at any time.                                    *)
(*                                                                         *)
(* A request id stands for everything that begins with it: the stored      *)
(* code, and the account when the request was a sign-up.  A token family   *)
(* is named by its first token.                                            *)
(***************************************************************************)
EXTENDS Naturals, FiniteSets

CONSTANTS
    Clients,            \* concurrent HTTP requests
    Identifiers,        \* phone numbers and email addresses, by blind index
    Phones,             \* the identifiers that are phone numbers
    OTP_MAX_ATTEMPTS,   \* wrong codes after which a request is dropped
    RATE_LIMIT,         \* codes per identifier and window (3 in the code)
    MaxRequests,        \* bound: code requests in a behaviour
    MaxTokens,          \* bound: refresh tokens in a behaviour
    MaxFaults,          \* bound: Redis outages, processes cut short, erasures
    None

ASSUME AccountsAssumption ==
    /\ Phones \subseteq Identifiers
    /\ {OTP_MAX_ATTEMPTS, RATE_LIMIT} \subseteq Nat \ {0}
    /\ {MaxRequests, MaxTokens, MaxFaults} \subseteq Nat
    /\ None \notin Nat \cup Identifiers
    /\ IsFiniteSet(Clients)

Kinds == {"login", "signup"}
Requests == 1..MaxRequests
Jtis == 1..MaxTokens

VARIABLES
    limit,      \* by kind and identifier: rate counter, its TTL, the cooldown key
    code,       \* otp:request / signup:request keys: kind, identifier, user, attempts
    accounts,   \* rows of users: identifier, sign-up, and whether they were erased
    prefs,      \* accounts with their starter preferences
    token,      \* refresh tokens handed out
    live,       \* auth:refresh keys
    revoked,    \* auth:revoked keys, each with the token whose lifetime it has
    expired,    \* refresh tokens past their exp
    client,
    hist        \* what happened: requests made, codes delivered, tokens, faults

redis == <<limit, code, live, revoked, expired>>
db    == <<accounts, prefs>>
vars  == <<redis, db, token, client, hist>>

RequestPc == {"cooldown", "incr", "expire", "setCooldown", "find", "store", "deliver"}
VerifyPc  == {"wrong", "saveAttempts", "spend", "exists", "create", "prefs"}
RefreshPc == {"isRevoked", "getdel", "revoke"}
Idle == [pc |-> "idle", kind |-> "login", id |-> None, q |-> 0, user |-> 0, attempts |-> 0,
         left |-> 0, jti |-> 0, late |-> FALSE]

\* Every variable has its type; a request never holds more wrong attempts than allowed.
TypeOK ==
    /\ limit \in [Kinds \X Identifiers -> [count : 0..RATE_LIMIT + 1, ttl : BOOLEAN,
                                           cooldown : BOOLEAN, cut : BOOLEAN]]
    /\ \A q \in Requests : code[q] = None \/
          code[q] \in [kind : Kinds, id : Identifiers, user : 0..MaxRequests,
                       attempts : 0..OTP_MAX_ATTEMPTS - 1]
    /\ accounts \subseteq [id : Identifiers, by : Requests, erased : BOOLEAN]
    /\ prefs \subseteq Requests
    /\ \A j \in Jtis : token[j] = None \/
          token[j] \in [user : 0..MaxRequests, fam : Jtis, opened : Requests]
    /\ live \subseteq Jtis /\ expired \subseteq Jtis
    /\ revoked \subseteq [fam : Jtis, jti : Jtis]
    /\ \A c \in Clients :
          client[c].pc \in RequestPc \cup VerifyPc \cup RefreshPc \cup {"idle", "issue"}
    /\ hist \in [requests : 0..MaxRequests, delivered : [Requests -> Identifiers \cup {None}],
                 tokens : 0..MaxTokens, faults : 0..MaxFaults]

Init ==
    /\ limit = [k \in Kinds \X Identifiers |->
                  [count |-> 0, ttl |-> FALSE, cooldown |-> FALSE, cut |-> FALSE]]
    /\ code = [q \in Requests |-> None]
    /\ accounts = {} /\ prefs = {}
    /\ token = [j \in Jtis |-> None]
    /\ live = {} /\ revoked = {} /\ expired = {}
    /\ client = [c \in Clients |-> Idle]
    /\ hist = [requests |-> 0, delivered |-> [q \in Requests |-> None], tokens |-> 0,
               faults |-> 0]

At(c, pc) == client[c].pc = pc
Go(c, pc) == client' = [client EXCEPT ![c].pc = pc]
Done(c)   == client' = [client EXCEPT ![c] = Idle]
Key(c)    == <<client[c].kind, client[c].id>>

\* The lookup by blind index, which an erased row no longer has.
AccountOf(i) == {a.by : a \in {b \in accounts : b.id = i /\ ~b.erased}}

-----------------------------------------------------------------------------
(***************************************************************************)
(* OtpService.request and SignupService.request                            *)
(***************************************************************************)

\* Bound: every request under way may still store a code.
RequestsLeft ==
    hist.requests + Cardinality({d \in Clients : client[d].pc \in RequestPc \ {"deliver"}})
        < MaxRequests

request(c, k, i) ==
    /\ At(c, "idle") /\ RequestsLeft
    /\ client' = [client EXCEPT ![c] = [Idle EXCEPT !.pc = "cooldown", !.kind = k, !.id = i]]
    /\ UNCHANGED <<redis, db, token, hist>>

\* checkRateLimit: EXISTS on the cooldown key.
checkRateLimit(c) ==
    /\ At(c, "cooldown")
    /\ IF limit[Key(c)].cooldown THEN Done(c) ELSE Go(c, "incr")
    /\ UNCHANGED <<redis, db, token, hist>>

\* INCR; the first one of a window sets the TTL in a second command.
Incr(c) ==
    /\ At(c, "incr") /\ limit[Key(c)].count <= RATE_LIMIT
    /\ limit' = [limit EXCEPT ![Key(c)].count = @ + 1]
    /\ LET n == limit'[Key(c)].count
       IN CASE n = 1 -> Go(c, "expire")
            [] n > RATE_LIMIT -> Done(c)
            [] OTHER -> Go(c, "setCooldown")
    /\ UNCHANGED <<code, live, revoked, expired, db, token, hist>>

\* Bound: a counter past its limit refuses, and is not counted further.
TooMany(c) ==
    /\ At(c, "incr") /\ limit[Key(c)].count > RATE_LIMIT
    /\ Done(c)
    /\ UNCHANGED <<redis, db, token, hist>>

\* Plausible slip: EXPIRE XX, which only renews a TTL that exists.
ExpireRate_WhenTimed(c) ==
    /\ At(c, "expire")
    /\ limit' = [limit EXCEPT ![Key(c)].ttl = @]
    /\ Go(c, "setCooldown")
    /\ UNCHANGED <<code, live, revoked, expired, db, token, hist>>

\* EXPIRE
ExpireRate(c) ==
    /\ At(c, "expire")
    /\ limit' = [limit EXCEPT ![Key(c)].ttl = limit[Key(c)].count > 0]
    /\ Go(c, "setCooldown")
    /\ UNCHANGED <<code, live, revoked, expired, db, token, hist>>

\* SET EX
SetCooldown(c) ==
    /\ At(c, "setCooldown")
    /\ limit' = [limit EXCEPT ![Key(c)].cooldown = TRUE]
    /\ Go(c, "find")
    /\ UNCHANGED <<code, live, revoked, expired, db, token, hist>>

\* A Redis error anywhere in checkRateLimit lets the request through.
FailsOpen(c) ==
    /\ client[c].pc \in {"cooldown", "incr", "expire", "setCooldown"}
    /\ hist.faults < MaxFaults /\ hist' = [hist EXCEPT !.faults = @ + 1]
    /\ limit' = [limit EXCEPT ![Key(c)].cut = @ \/ At(c, "expire")]
    /\ Go(c, "find")
    /\ UNCHANGED <<code, live, revoked, expired, db, token>>

\* Sign-up refuses an identifier that has an account; login goes on without one.
FindUser(c) ==
    /\ At(c, "find")
    /\ LET found == AccountOf(client[c].id)
       IN IF client[c].kind = "signup" /\ found # {} THEN Done(c)
          ELSE \E u \in IF found = {} THEN {0} ELSE found :
                  client' = [client EXCEPT ![c].pc = "store", ![c].user = u]
    /\ UNCHANGED <<redis, db, token, hist>>

\* OtpCodeStore.store; a login code nobody owns is stored and not sent.
store(c) ==
    /\ At(c, "store")
    /\ hist' = [hist EXCEPT !.requests = @ + 1]
    /\ code' = [code EXCEPT ![hist'.requests] =
                  [kind |-> client[c].kind, id |-> client[c].id, user |-> client[c].user,
                   attempts |-> 0]]
    /\ IF client[c].kind = "login" /\ client[c].user = 0 THEN Done(c)
       ELSE client' = [client EXCEPT ![c].pc = "deliver", ![c].q = hist'.requests,
                                     ![c].left = IF client[c].id \in Phones THEN 2 ELSE 1]
    /\ UNCHANGED <<limit, live, revoked, expired, db, token>>

\* sendSms tries two providers, sendEmail one: a circuit that is open or a
\* failed send (which may have reached the user) leads to the next one; when
\* none is left the request is answered all the same.
sendSms(c, arrives, accepted) ==
    /\ At(c, "deliver")
    /\ accepted => arrives
    /\ hist' = [hist EXCEPT !.delivered[client[c].q] = IF arrives THEN client[c].id ELSE @]
    /\ IF accepted \/ client[c].left = 1 THEN Done(c)
       ELSE client' = [client EXCEPT ![c].left = @ - 1]
    /\ UNCHANGED <<redis, db, token>>

-----------------------------------------------------------------------------
(***************************************************************************)
(* OtpCodeStore.verify and what login and sign-up do with its answer       *)
(***************************************************************************)

\* Bound: every request under way may still need a token.
TokensLeft ==
    hist.tokens + Cardinality({d \in Clients : client[d].pc \in VerifyPc \cup RefreshPc \cup {"issue"}})
        < MaxTokens

\* GET, then the comparison with what was read.
verify(c, q, right) ==
    /\ At(c, "idle") /\ TokensLeft
    /\ code[q] # None
    /\ right => hist.delivered[q] # None
    /\ client' = [client EXCEPT ![c] =
                    [Idle EXCEPT !.pc = IF right THEN "spend" ELSE "wrong", !.q = q,
                                 !.kind = code[q].kind, !.id = code[q].id,
                                 !.user = code[q].user, !.attempts = code[q].attempts]]
    /\ UNCHANGED <<redis, db, token, hist>>

\* Plausible slip: the attempt that reaches the limit is still counted.
WrongCode_OffByOne(c) ==
    /\ At(c, "wrong")
    /\ IF client[c].attempts + 1 > OTP_MAX_ATTEMPTS
       THEN code' = [code EXCEPT ![client[c].q] = None] /\ Done(c)
       ELSE Go(c, "saveAttempts") /\ UNCHANGED code
    /\ UNCHANGED <<limit, live, revoked, expired, db, token, hist>>

\* The last wrong attempt deletes the code; others read its TTL.
WrongCode(c) ==
    /\ At(c, "wrong")
    /\ IF client[c].attempts + 1 >= OTP_MAX_ATTEMPTS
       THEN code' = [code EXCEPT ![client[c].q] = None] /\ Done(c)
       ELSE Go(c, "saveAttempts") /\ UNCHANGED code
    /\ UNCHANGED <<limit, live, revoked, expired, db, token, hist>>

\* SET with the remaining TTL, or a second when the key has gone meanwhile.
SaveAttempts(c) ==
    /\ At(c, "saveAttempts")
    /\ code' = [code EXCEPT ![client[c].q] =
                  [kind |-> client[c].kind, id |-> client[c].id, user |-> client[c].user,
                   attempts |-> client[c].attempts + 1]]
    /\ Done(c)
    /\ UNCHANGED <<limit, live, revoked, expired, db, token, hist>>

\* DEL, then OtpService.verify's null check or SignupService.verify.
Spend(c) ==
    /\ At(c, "spend")
    /\ code' = [code EXCEPT ![client[c].q] = None]
    /\ CASE client[c].kind = "signup" -> Go(c, "exists")
         [] client[c].user = 0 -> Done(c)
         [] OTHER -> Go(c, "issue")
    /\ UNCHANGED <<limit, live, revoked, expired, db, token, hist>>

\* The friendly check before the insert.
AlreadyExists(c) ==
    /\ At(c, "exists")
    /\ IF AccountOf(client[c].id) # {} THEN Done(c) ELSE Go(c, "create")
    /\ UNCHANGED <<redis, db, token, hist>>

\* Plausible slip: the blind index is not unique.
CreateUser_NoIndex(c) ==
    /\ At(c, "create")
    /\ accounts' = accounts \cup {[id |-> client[c].id, by |-> client[c].q, erased |-> FALSE]}
    /\ client' = [client EXCEPT ![c].pc = "prefs", ![c].user = client[c].q]
    /\ UNCHANGED <<redis, prefs, token, hist>>

\* Plausible slip: the index's refusal is swallowed.
CreateUser_Swallowed(c) ==
    /\ At(c, "create")
    /\ accounts' = IF AccountOf(client[c].id) # {} THEN accounts
                   ELSE accounts \cup {[id |-> client[c].id, by |-> client[c].q, erased |-> FALSE]}
    /\ client' = [client EXCEPT ![c].pc = "prefs", ![c].user = client[c].q]
    /\ UNCHANGED <<redis, prefs, token, hist>>

\* The unique index on the blind index refuses a second row.
CreateUser(c) ==
    /\ At(c, "create")
    /\ IF AccountOf(client[c].id) # {} THEN Done(c) /\ UNCHANGED accounts
       ELSE /\ accounts' = accounts \cup {[id |-> client[c].id, by |-> client[c].q, erased |-> FALSE]}
            /\ client' = [client EXCEPT ![c].pc = "prefs", ![c].user = client[c].q]
    /\ UNCHANGED <<redis, prefs, token, hist>>

\* userPreference.createMany
CreatePreferences(c) ==
    /\ At(c, "prefs")
    /\ prefs' = prefs \cup {client[c].q}
    /\ Go(c, "issue")
    /\ UNCHANGED <<redis, accounts, token, hist>>

-----------------------------------------------------------------------------
(***************************************************************************)
(* AuthService                                                             *)
(***************************************************************************)

\* A pair with a fresh jti: in a new family after a code, in the old one
\* after a refresh.
issue(c) ==
    /\ At(c, "issue")
    /\ hist' = [hist EXCEPT !.tokens = @ + 1]
    /\ LET j == hist'.tokens
           old == client[c].jti
       IN /\ token' = [token EXCEPT ![j] =
                         IF old = 0
                         THEN [user |-> client[c].user, fam |-> j, opened |-> client[c].q]
                         ELSE token[old]]
          /\ live' = live \cup {j}
    /\ Done(c)
    /\ UNCHANGED <<limit, code, revoked, expired, db>>

IsRevoked(f) == \E r \in revoked : r.fam = f

\* jwt.verify accepts any token that has not expired, used or not.
refresh(c, j) ==
    /\ At(c, "idle") /\ TokensLeft
    /\ token[j] # None /\ j \notin expired
    /\ client' = [client EXCEPT ![c] = [Idle EXCEPT !.pc = "isRevoked", !.jti = j,
                                                    !.late = IsRevoked(token[j].fam)]]
    /\ UNCHANGED <<redis, db, token, hist>>

CheckRevoked(c) ==
    /\ At(c, "isRevoked")
    /\ IF IsRevoked(token[client[c].jti].fam) THEN Done(c) ELSE Go(c, "getdel")
    /\ UNCHANGED <<redis, db, token, hist>>

\* Plausible slip: GET in place of GETDEL.
Redeem_Get(c) ==
    /\ At(c, "getdel")
    /\ Go(c, IF client[c].jti \in live THEN "issue" ELSE "revoke")
    /\ UNCHANGED <<redis, db, token, hist>>

\* GETDEL
Redeem(c) ==
    /\ At(c, "getdel")
    /\ live' = live \ {client[c].jti}
    /\ Go(c, IF client[c].jti \in live THEN "issue" ELSE "revoke")
    /\ UNCHANGED <<limit, code, revoked, expired, db, token, hist>>

\* A token that was used before revokes its family.
Revoke(c) ==
    /\ At(c, "revoke")
    /\ revoked' = revoked \cup {[fam |-> token[client[c].jti].fam, jti |-> client[c].jti]}
    /\ Done(c)
    /\ UNCHANGED <<limit, code, live, expired, db, token, hist>>

-----------------------------------------------------------------------------
(***************************************************************************)
(* Expiry, and requests cut short                                          *)
(***************************************************************************)

ExpireLimit(k) ==
    /\ limit[k].ttl
    /\ limit' = [limit EXCEPT ![k].count = 0, ![k].ttl = FALSE]
    /\ UNCHANGED <<code, live, revoked, expired, db, token, client, hist>>

ExpireCooldown(k) ==
    /\ limit[k].cooldown
    /\ limit' = [limit EXCEPT ![k].cooldown = FALSE]
    /\ UNCHANGED <<code, live, revoked, expired, db, token, client, hist>>

ExpireCode(q) ==
    /\ code[q] # None
    /\ code' = [code EXCEPT ![q] = None]
    /\ UNCHANGED <<limit, live, revoked, expired, db, token, client, hist>>

\* A token, its key and the revocation that has its lifetime end together.
ExpireToken(j) ==
    /\ token[j] # None
    /\ j \notin expired \/ \E r \in revoked : r.jti = j
    /\ expired' = expired \cup {j} /\ live' = live \ {j}
    /\ revoked' = {r \in revoked : r.jti # j}
    /\ client' = [c \in Clients |->
                    [client[c] EXCEPT !.late = @ /\ \E r \in revoked' : r.fam = token[client[c].jti].fam]]
    /\ UNCHANGED <<limit, code, db, token, hist>>

\* The process dies, or a call throws: the request ends where it is.
CutShort(c) ==
    /\ ~At(c, "idle")
    /\ hist.faults < MaxFaults
    /\ hist' = [hist EXCEPT !.faults = @ + 1]
    /\ limit' = IF At(c, "expire") THEN [limit EXCEPT ![Key(c)].cut = TRUE] ELSE limit
    /\ Done(c)
    /\ UNCHANGED <<code, live, revoked, expired, db, token>>

\* NotificationsService.eraseUserData: the row stays, without its identifier.
eraseUserData(a) ==
    /\ ~a.erased
    /\ hist.faults < MaxFaults /\ hist' = [hist EXCEPT !.faults = @ + 1]
    /\ accounts' = (accounts \ {a}) \cup {[id |-> a.id, by |-> a.by, erased |-> TRUE]}
    /\ UNCHANGED <<redis, prefs, token, client>>

Step(c) ==
    \/ checkRateLimit(c) \/ Incr(c) \/ TooMany(c) \/ ExpireRate(c) \/ SetCooldown(c)
    \/ FindUser(c) \/ store(c)
    \/ \E arrives, accepted \in BOOLEAN : sendSms(c, arrives, accepted)
    \/ WrongCode(c) \/ SaveAttempts(c) \/ Spend(c)
    \/ AlreadyExists(c) \/ CreateUser(c) \/ CreatePreferences(c)
    \/ issue(c) \/ CheckRevoked(c) \/ Redeem(c) \/ Revoke(c)

Next ==
    \/ \E c \in Clients :
          \/ \E k \in Kinds, i \in Identifiers : request(c, k, i)
          \/ \E q \in Requests, right \in BOOLEAN : verify(c, q, right)
          \/ \E j \in Jtis : refresh(c, j)
          \/ Step(c) \/ FailsOpen(c) \/ CutShort(c)
    \/ \E k \in Kinds \X Identifiers : ExpireLimit(k) \/ ExpireCooldown(k)
    \/ \E q \in Requests : ExpireCode(q)
    \/ \E j \in Jtis : ExpireToken(j)
    \/ \E a \in accounts : eraseUserData(a)

Spec == Init /\ [][Next]_vars

-----------------------------------------------------------------------------
(***************************************************************************)
(* Properties                                                              *)
(***************************************************************************)

\* Two verifications that both saw no account create one: whatever overtakes
\* what between SignupService.verify's check and its insert, an identifier
\* has one row, besides those of accounts that were erased.
OneAccountPerIdentifier ==
    \A a, b \in accounts : a.id = b.id /\ ~a.erased /\ ~b.erased => a = b

\* A session belongs to an existing account, and was opened with a code that
\* was delivered to that account's own phone or mailbox.
SessionIsOwners ==
    \A j \in Jtis : token[j] # None =>
        \E a \in accounts : a.by = token[j].user /\ hist.delivered[token[j].opened] = a.id

\* Rotation: of a session at most one refresh token can be redeemed, counting
\* the one that is about to be handed out.
OneLiveToken ==
    \A f \in Jtis :
        Cardinality({j \in live : token[j].fam = f})
      + Cardinality({c \in Clients : At(c, "issue") /\ client[c].jti # 0
                                     /\ token[client[c].jti].fam = f}) <= 1

\* No token of a session that has stood revoked since a refresh began is
\* renewed by it, whichever of the session's tokens is presented.
RevokedIsNotRenewed ==
    \A c \in Clients : client[c].late => client[c].pc \in {"isRevoked", "getdel", "revoke"}

\* AuthService.refresh under concurrent use of a session's tokens, old and new:
\* one of them can be redeemed, and none once the session is revoked.
Rotation == OneLiveToken /\ RevokedIsNotRenewed

\* No identifier is refused for good: a counter without a TTL belongs to a
\* request that is about to set it, or that was cut short between INCR and
\* EXPIRE.
WindowIsTimed ==
    \A k \in Kinds \X Identifiers : limit[k].count > 0 =>
        limit[k].ttl \/ limit[k].cut \/ \E c \in Clients : At(c, "expire") /\ Key(c) = k
=============================================================================
