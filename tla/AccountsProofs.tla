--------------------------- MODULE AccountsProofs ---------------------------
(***************************************************************************)
(* Proofs about Accounts, for any number of clients, identifiers, requests *)
(* and tokens, any limits and any number of faults.                        *)
(***************************************************************************)
EXTENDS Accounts, FiniteSetTheorems, TLAPS

-----------------------------------------------------------------------------
(***************************************************************************)
(* The inductive invariant of the types.  Besides TypeOK it says what a    *)
(* client holds at each step of its request, that codes and tokens are     *)
(* numbered without gaps, and that each client under way has room left     *)
(* under the bounds for the code or the token it is still to write.        *)
(***************************************************************************)

Pcs      == RequestPc \cup VerifyPc \cup RefreshPc \cup {"idle", "issue"}
Counters == [count : 0..RATE_LIMIT + 1, ttl : BOOLEAN, cooldown : BOOLEAN, cut : BOOLEAN]
Codes    == [kind : Kinds, id : Identifiers, user : 0..MaxRequests,
             attempts : 0..OTP_MAX_ATTEMPTS - 1]
Rows     == [id : Identifiers, by : Requests, erased : BOOLEAN]
Tokens   == [user : 0..MaxRequests, fam : Jtis, opened : Requests]
States   == [pc : Pcs, kind : Kinds, id : Identifiers \cup {None}, q : 0..MaxRequests,
             user : 0..MaxRequests, attempts : 0..OTP_MAX_ATTEMPTS - 1, left : 0..2,
             jti : 0..MaxTokens, late : BOOLEAN]

\* What a client at step p of its request holds in its locals r.
Holds(p, r, h) ==
    /\ p \in RequestPc \cup VerifyPc => r.id \in Identifiers
    /\ p \in VerifyPc \cup {"deliver"} => r.q \in 1..h.requests
    /\ p = "deliver" => r.left \in 1..2
    /\ p = "saveAttempts" => r.attempts + 1 < OTP_MAX_ATTEMPTS
    /\ p \in VerifyPc => r.jti = 0
    /\ p \in RefreshPc => r.jti \in 1..h.tokens
    /\ p = "issue" => \/ r.jti \in 1..h.tokens
                      \/ r.jti = 0 /\ r.q \in 1..h.requests

LimitType == limit \in [Kinds \X Identifiers -> Counters]
HistType  == hist \in [requests : 0..MaxRequests,
                       delivered : [Requests -> Identifiers \cup {None}],
                       tokens : 0..MaxTokens, faults : 0..MaxFaults]
RowType   == accounts \subseteq Rows /\ prefs \subseteq Requests
CodeType  ==
    /\ code \in [Requests -> Codes \cup {None}]
    /\ \A q \in Requests : q > hist.requests => code[q] = None /\ hist.delivered[q] = None
TokenType ==
    /\ token \in [Jtis -> Tokens \cup {None}]
    /\ \A j \in Jtis : IF j <= hist.tokens
                       THEN token[j] \in Tokens /\ token[j].fam <= hist.tokens
                       ELSE token[j] = None
KeyType   ==
    /\ live \subseteq 1..hist.tokens
    /\ expired \subseteq Jtis
    /\ revoked \subseteq [fam : Jtis, jti : Jtis]
ClientType == client \in [Clients -> States] /\ \A c \in Clients : Holds(client[c].pc, client[c], hist)

Types == LimitType /\ HistType /\ RowType /\ CodeType /\ TokenType /\ KeyType /\ ClientType

\* The clients that may still store a code, and those that may still need a token.
StorePc == RequestPc \ {"deliver"}
TokenPc == VerifyPc \cup RefreshPc \cup {"issue"}
Storing == {c \in Clients : client[c].pc \in StorePc}
Issuing == {c \in Clients : client[c].pc \in TokenPc}

Reserved ==
    /\ hist.requests + Cardinality(Storing) <= MaxRequests
    /\ hist.tokens + Cardinality(Issuing) <= MaxTokens

\* What the reservations are for.
Room ==
    /\ \A c \in Clients : client[c].pc = "store" => hist.requests < MaxRequests
    /\ \A c \in Clients : client[c].pc = "issue" => hist.tokens < MaxTokens

\* The bounds are naturals, and None is no identifier.
LEMMA Constants ==
    /\ OTP_MAX_ATTEMPTS \in Nat /\ OTP_MAX_ATTEMPTS > 0
    /\ RATE_LIMIT \in Nat /\ RATE_LIMIT > 0
    /\ MaxRequests \in Nat /\ MaxTokens \in Nat /\ MaxFaults \in Nat
    /\ None \notin Identifiers
  BY AccountsAssumption DEF AccountsAssumption

\* The parts of the types are what TypeOK asks for.
LEMMA TypesImply == Types => TypeOK
<1> SUFFICES ASSUME Types PROVE TypeOK
  OBVIOUS
<1>1. /\ limit \in [Kinds \X Identifiers -> [count : 0..RATE_LIMIT + 1, ttl : BOOLEAN,
                                             cooldown : BOOLEAN, cut : BOOLEAN]]
      /\ accounts \subseteq [id : Identifiers, by : Requests, erased : BOOLEAN]
      /\ prefs \subseteq Requests
  BY DEF Types, LimitType, Counters, RowType, Rows
<1>2. /\ \A q \in Requests : code[q] = None \/ code[q] \in Codes
      /\ \A j \in Jtis : token[j] = None \/ token[j] \in Tokens
  BY DEF Types, CodeType, TokenType
<1>3. /\ live \subseteq Jtis /\ expired \subseteq Jtis
      /\ revoked \subseteq [fam : Jtis, jti : Jtis]
  BY Constants DEF Types, KeyType, HistType, Jtis
<1>4. \A c \in Clients : client[c].pc \in Pcs
  BY DEF Types, ClientType, States
<1> QED BY <1>1, <1>2, <1>3, <1>4 DEF TypeOK, Types, HistType, Codes, Tokens, Pcs

-----------------------------------------------------------------------------
(***************************************************************************)
(* Which actions write which variable.                                     *)
(***************************************************************************)

\* The rate limit is written by checkRateLimit, whether it completes or is cut, and by expiry.
LEMMA LimitWriters ==
    ASSUME Next, limit' # limit
    PROVE  \/ \E c \in Clients : \/ Incr(c) \/ ExpireRate(c) \/ SetCooldown(c)
                                 \/ FailsOpen(c) \/ CutShort(c)
           \/ \E k \in Kinds \X Identifiers : ExpireLimit(k) \/ ExpireCooldown(k)
<1>1. ASSUME NEW c \in Clients, Step(c)
      PROVE  Incr(c) \/ ExpireRate(c) \/ SetCooldown(c)
  BY <1>1
  DEF Step, checkRateLimit, TooMany, FindUser, store, sendSms, WrongCode, SaveAttempts, Spend,
      AlreadyExists, CreateUser, CreatePreferences, issue, CheckRevoked, Redeem, Revoke, redis
<1> QED
  BY <1>1
  DEF Next, request, verify, refresh, ExpireCode, ExpireToken, eraseUserData, redis

\* The history is written when a code is stored or sent, a token issued, or a fault met.
LEMMA HistWriters ==
    ASSUME Next, hist' # hist
    PROVE  \/ \E c \in Clients : \/ store(c) \/ issue(c) \/ FailsOpen(c) \/ CutShort(c)
                                 \/ \E arrives, accepted \in BOOLEAN : sendSms(c, arrives, accepted)
           \/ \E a \in accounts : eraseUserData(a)
<1>1. ASSUME NEW c \in Clients, Step(c)
      PROVE  store(c) \/ issue(c) \/ \E arrives, accepted \in BOOLEAN : sendSms(c, arrives, accepted)
  BY <1>1
  DEF Step, checkRateLimit, Incr, TooMany, ExpireRate, SetCooldown, FindUser, WrongCode,
      SaveAttempts, Spend, AlreadyExists, CreateUser, CreatePreferences, CheckRevoked, Redeem,
      Revoke
<1> QED
  BY <1>1
  DEF Next, request, verify, refresh, ExpireLimit, ExpireCooldown, ExpireCode, ExpireToken

\* A sign-up's insert and an erasure write the table of users; a sign-up its preferences.
LEMMA RowWriters ==
    ASSUME Next, accounts' # accounts \/ prefs' # prefs
    PROVE  \/ \E c \in Clients : CreateUser(c) \/ CreatePreferences(c)
           \/ \E a \in accounts : eraseUserData(a)
<1>1. ASSUME NEW c \in Clients, Step(c)
      PROVE  CreateUser(c) \/ CreatePreferences(c)
  BY <1>1
  DEF Step, checkRateLimit, Incr, TooMany, ExpireRate, SetCooldown, FindUser, store, sendSms,
      WrongCode, SaveAttempts, Spend, AlreadyExists, issue, CheckRevoked, Redeem, Revoke, db
<1> QED
  BY <1>1
  DEF Next, request, verify, refresh, FailsOpen, CutShort, ExpireLimit, ExpireCooldown,
      ExpireCode, ExpireToken, db

\* A code is stored, saved with one more wrong attempt, deleted, or expires.
LEMMA CodeWriters ==
    ASSUME Next, code' # code
    PROVE  \/ \E c \in Clients : store(c) \/ WrongCode(c) \/ SaveAttempts(c) \/ Spend(c)
           \/ \E q \in Requests : ExpireCode(q)
<1>1. ASSUME NEW c \in Clients, Step(c)
      PROVE  store(c) \/ WrongCode(c) \/ SaveAttempts(c) \/ Spend(c)
  BY <1>1
  DEF Step, checkRateLimit, Incr, TooMany, ExpireRate, SetCooldown, FindUser, sendSms,
      AlreadyExists, CreateUser, CreatePreferences, issue, CheckRevoked, Redeem, Revoke, redis
<1> QED
  BY <1>1
  DEF Next, request, verify, refresh, FailsOpen, CutShort, ExpireLimit, ExpireCooldown,
      ExpireToken, eraseUserData, redis

\* Tokens are handed out by issue; their keys also go by GETDEL, reuse and expiry.
LEMMA TokenWriters ==
    ASSUME Next, token' # token \/ live' # live \/ revoked' # revoked \/ expired' # expired
    PROVE  \/ \E c \in Clients : issue(c) \/ Redeem(c) \/ Revoke(c)
           \/ \E j \in Jtis : ExpireToken(j)
<1>1. ASSUME NEW c \in Clients, Step(c)
      PROVE  issue(c) \/ Redeem(c) \/ Revoke(c)
  BY <1>1
  DEF Step, checkRateLimit, Incr, TooMany, ExpireRate, SetCooldown, FindUser, store, sendSms,
      WrongCode, SaveAttempts, Spend, AlreadyExists, CreateUser, CreatePreferences,
      CheckRevoked, redis
<1> QED
  BY <1>1
  DEF Next, request, verify, refresh, FailsOpen, CutShort, ExpireLimit, ExpireCooldown,
      ExpireCode, eraseUserData, redis

-----------------------------------------------------------------------------
(***************************************************************************)
(* Every step keeps the types.                                             *)
(***************************************************************************)

\* A counter keeps its type when one of its fields does.
LEMMA CounterFields ==
    ASSUME NEW r \in Counters
    PROVE  /\ \A n \in 0..RATE_LIMIT + 1 : [r EXCEPT !.count = n] \in Counters
           /\ \A b \in BOOLEAN : /\ [r EXCEPT !.ttl = b] \in Counters
                                 /\ [r EXCEPT !.cooldown = b] \in Counters
                                 /\ [r EXCEPT !.cut = b] \in Counters
  BY DEF Counters

\* The rate limit keeps its type: INCR stops one past the limit.
LEMMA LimitTypeStep == ASSUME LimitType, Next PROVE LimitType'
<1> DEFINE Written(k, r) == limit' = [limit EXCEPT ![k] = r] /\ (limit[k] \in Counters => r \in Counters)
<1>1. SUFFICES ASSUME limit' # limit
               PROVE  \E k, r : Written(k, r)
  BY DEF LimitType
<1>2. ASSUME NEW c \in Clients, Incr(c) PROVE \E k, r : Written(k, r)
  <2> DEFINE k == Key(c)
             r == [limit[k] EXCEPT !.count = limit[k].count + 1]
  <2>1. limit' = [limit EXCEPT ![k] = r]
    BY <1>2 DEF Incr
  <2>2. ASSUME limit[k] \in Counters PROVE r \in Counters
    <3>1. limit[k].count + 1 \in 0..RATE_LIMIT + 1
      BY <1>2, <2>2, Constants DEF Incr, Counters
    <3> QED BY <2>2, <3>1, CounterFields
  <2> QED BY <2>1, <2>2
<1>3. ASSUME NEW c \in Clients, ExpireRate(c) PROVE \E k, r : Written(k, r)
  <2> DEFINE k == Key(c)
             b == limit[k].count > 0
             r == [limit[k] EXCEPT !.ttl = b]
  <2>1. limit' = [limit EXCEPT ![k] = r]
    BY <1>3 DEF ExpireRate
  <2>2. b \in BOOLEAN
    OBVIOUS
  <2> HIDE DEF b
  <2> QED BY <2>1, <2>2, CounterFields
<1>4. ASSUME NEW c \in Clients, SetCooldown(c) PROVE \E k, r : Written(k, r)
  <2>1. limit' = [limit EXCEPT ![Key(c)] = [limit[Key(c)] EXCEPT !.cooldown = TRUE]]
    BY <1>4 DEF SetCooldown
  <2> QED BY <2>1, CounterFields
<1>5. ASSUME NEW c \in Clients, FailsOpen(c) PROVE \E k, r : Written(k, r)
  <2> DEFINE k == Key(c)
             b == limit[k].cut \/ At(c, "expire")
             r == [limit[k] EXCEPT !.cut = b]
  <2>1. limit' = [limit EXCEPT ![k] = r]
    BY <1>5 DEF FailsOpen
  <2>2. b \in BOOLEAN
    OBVIOUS
  <2> HIDE DEF b
  <2> QED BY <2>1, <2>2, CounterFields
<1>6. ASSUME NEW c \in Clients, CutShort(c) PROVE \E k, r : Written(k, r)
  <2>1. limit' = [limit EXCEPT ![Key(c)] = [limit[Key(c)] EXCEPT !.cut = TRUE]]
    BY <1>1, <1>6 DEF CutShort
  <2> QED BY <2>1, CounterFields
<1>7. ASSUME NEW k \in Kinds \X Identifiers, ExpireLimit(k) PROVE \E l, r : Written(l, r)
  <2> DEFINE z == [limit[k] EXCEPT !.count = 0]
             r == [z EXCEPT !.ttl = FALSE]
  <2>1. limit' = [limit EXCEPT ![k] = r]
    BY <1>7 DEF ExpireLimit
  <2>2. limit[k] \in Counters => z \in Counters
    BY CounterFields, Constants
  <2>3. z \in Counters => r \in Counters
    BY CounterFields
  <2> QED BY <2>1, <2>2, <2>3
<1>8. ASSUME NEW k \in Kinds \X Identifiers, ExpireCooldown(k) PROVE \E l, r : Written(l, r)
  <2>1. limit' = [limit EXCEPT ![k] = [limit[k] EXCEPT !.cooldown = FALSE]]
    BY <1>8 DEF ExpireCooldown
  <2> QED BY <2>1, CounterFields
<1> HIDE DEF Written
<1> QED BY <1>1, <1>2, <1>3, <1>4, <1>5, <1>6, <1>7, <1>8, LimitWriters

\* What happened stays within the bounds, and no counter of it runs back.
LEMMA HistTypeStep ==
    ASSUME HistType, Room, ClientType, Next
    PROVE  /\ HistType'
           /\ hist.requests <= hist'.requests /\ hist.tokens <= hist'.tokens
<1> USE Constants DEF HistType
<1>1. CASE hist' = hist
  BY <1>1
<1>2. ASSUME NEW c \in Clients, store(c)
      PROVE  HistType' /\ hist.requests <= hist'.requests /\ hist.tokens <= hist'.tokens
  BY <1>2 DEF store, Room, At
<1>3. ASSUME NEW c \in Clients, issue(c)
      PROVE  HistType' /\ hist.requests <= hist'.requests /\ hist.tokens <= hist'.tokens
  BY <1>3 DEF issue, Room, At
<1>4. ASSUME NEW c \in Clients, FailsOpen(c) \/ CutShort(c)
      PROVE  HistType' /\ hist.requests <= hist'.requests /\ hist.tokens <= hist'.tokens
  BY <1>4 DEF FailsOpen, CutShort
<1>5. ASSUME NEW a \in accounts, eraseUserData(a)
      PROVE  HistType' /\ hist.requests <= hist'.requests /\ hist.tokens <= hist'.tokens
  BY <1>5 DEF eraseUserData
<1>6. ASSUME NEW c \in Clients, NEW arrives \in BOOLEAN, NEW accepted \in BOOLEAN,
             sendSms(c, arrives, accepted)
      PROVE  HistType' /\ hist.requests <= hist'.requests /\ hist.tokens <= hist'.tokens
  <2>1. client[c].id \in Identifiers
    BY <1>6 DEF sendSms, At, ClientType, Holds, RequestPc
  <2> QED BY <1>6, <2>1 DEF sendSms
<1> QED BY <1>1, <1>2, <1>3, <1>4, <1>5, <1>6, HistWriters

\* A row is written whole, for the identifier and by the request of its sign-up.
LEMMA RowTypeStep == ASSUME Types, Next PROVE RowType'
<1> USE DEF Types, RowType
<1>1. ASSUME NEW c \in Clients, CreateUser(c) PROVE RowType'
  <2> DEFINE row == [id |-> client[c].id, by |-> client[c].q, erased |-> FALSE]
  <2>1. client[c].id \in Identifiers /\ client[c].q \in Requests
    BY <1>1, Constants DEF CreateUser, At, ClientType, Holds, VerifyPc, HistType, Requests
  <2>2. row \in Rows
    BY <2>1 DEF Rows
  <2>3. accounts' \in {accounts, accounts \cup {row}} /\ prefs' = prefs
    BY <1>1 DEF CreateUser
  <2> QED BY <2>2, <2>3
<1>2. ASSUME NEW c \in Clients, CreatePreferences(c) PROVE RowType'
  <2>1. client[c].q \in Requests
    BY <1>2, Constants DEF CreatePreferences, At, ClientType, Holds, VerifyPc, HistType, Requests
  <2> QED BY <1>2, <2>1 DEF CreatePreferences
<1>3. ASSUME NEW a \in accounts, eraseUserData(a) PROVE RowType'
  <2>1. [id |-> a.id, by |-> a.by, erased |-> TRUE] \in Rows
    BY DEF Rows
  <2> QED BY <1>3, <2>1 DEF eraseUserData
<1> QED BY <1>1, <1>2, <1>3, RowWriters

\* A stored code has the number of its request, and fewer wrong attempts than are allowed.
LEMMA CodeTypeStep == ASSUME Types, Room, Next PROVE CodeType'
<1> USE DEF Types
<1>0. /\ hist.requests \in Nat /\ hist'.requests \in Nat /\ hist.requests <= hist'.requests
      /\ \A q \in Requests : q \in Nat
  BY HistTypeStep, Constants DEF HistType, Requests
<1>1. CASE hist' = hist /\ code' = code
  BY <1>1 DEF CodeType
<1>2. ASSUME NEW c \in Clients, store(c) PROVE CodeType'
  <2> DEFINE new == [kind |-> client[c].kind, id |-> client[c].id, user |-> client[c].user,
                     attempts |-> 0]
             q == hist.requests + 1
  <2>1. new \in Codes
    BY <1>2, Constants DEF store, At, ClientType, States, Holds, RequestPc, Codes
  <2>2. /\ q \in Requests /\ hist'.requests = q /\ hist'.delivered = hist.delivered
        /\ code' = [code EXCEPT ![q] = new]
    BY <1>2, Constants DEF store, At, Room, HistType, Requests
  <2> HIDE DEF new
  <2> QED BY <1>0, <2>1, <2>2 DEF CodeType
<1>3. ASSUME NEW c \in Clients, WrongCode(c) PROVE CodeType'
  BY <1>3 DEF WrongCode, CodeType
<1>4. ASSUME NEW c \in Clients, SaveAttempts(c) PROVE CodeType'
  <2> DEFINE new == [kind |-> client[c].kind, id |-> client[c].id, user |-> client[c].user,
                     attempts |-> client[c].attempts + 1]
  <2>1. /\ client[c].id \in Identifiers /\ client[c].q \in 1..hist.requests
        /\ client[c].attempts + 1 < OTP_MAX_ATTEMPTS
        /\ client[c] \in States
    BY <1>4 DEF SaveAttempts, At, ClientType, Holds, VerifyPc
  <2>2. new \in Codes
    BY <2>1, Constants DEF States, Codes
  <2>3. code' = [code EXCEPT ![client[c].q] = new] /\ hist' = hist
    BY <1>4 DEF SaveAttempts
  <2> HIDE DEF new
  <2>4. code' \in [Requests -> Codes \cup {None}]
    BY <2>2, <2>3 DEF CodeType
  <2>5. \A q \in Requests : q > hist.requests => q # client[c].q
    BY <1>0, <2>1
  <2> QED BY <2>3, <2>4, <2>5 DEF CodeType
<1>5. ASSUME NEW c \in Clients, Spend(c) PROVE CodeType'
  BY <1>5 DEF Spend, CodeType
<1>6. ASSUME NEW q \in Requests, ExpireCode(q) PROVE CodeType'
  BY <1>6 DEF ExpireCode, CodeType
<1>7. ASSUME NEW c \in Clients, NEW arrives \in BOOLEAN, NEW accepted \in BOOLEAN,
             sendSms(c, arrives, accepted)
      PROVE  CodeType'
  <2>1. client[c].q \in 1..hist.requests
    BY <1>7 DEF sendSms, At, ClientType, Holds
  <2>2. /\ hist'.requests = hist.requests
        /\ \A q \in Requests : q # client[c].q => hist'.delivered[q] = hist.delivered[q]
    BY <1>7 DEF sendSms, HistType
  <2>3. code' = code
    BY <1>7 DEF sendSms, redis
  <2> QED BY <1>0, <2>1, <2>2, <2>3 DEF CodeType
<1>8. CASE /\ \/ \E c \in Clients : issue(c) \/ FailsOpen(c) \/ CutShort(c)
              \/ \E a \in accounts : eraseUserData(a)
  <2>1. hist'.requests = hist.requests /\ hist'.delivered = hist.delivered /\ code' = code
    BY <1>8 DEF issue, FailsOpen, CutShort, eraseUserData, HistType, redis
  <2> QED BY <2>1 DEF CodeType
<1> QED BY <1>1, <1>2, <1>3, <1>4, <1>5, <1>6, <1>7, <1>8, CodeWriters, HistWriters

\* A new token takes the next number, in a family that begins with it or that it is given.
LEMMA Issued ==
    ASSUME Types, Room, NEW c \in Clients, issue(c)
    PROVE  LET j   == hist.tokens + 1
               old == client[c].jti
               new == token'[j]
           IN /\ j \in Jtis /\ j \notin live
              /\ hist'.tokens = j /\ hist'.requests = hist.requests
              /\ hist'.delivered = hist.delivered
              /\ live' = live \cup {j}
              /\ token' = [token EXCEPT ![j] = new]
              /\ new \in Tokens
              /\ old # 0 => old \in 1..hist.tokens /\ new = token[old]
              /\ old = 0 => /\ new.fam = j /\ new.user = client[c].user
                            /\ new.opened = client[c].q /\ client[c].q \in 1..hist.requests
<1> USE DEF Types
<1> DEFINE j == hist.tokens + 1
           old == client[c].jti
           new == IF old = 0 THEN [user |-> client[c].user, fam |-> j, opened |-> client[c].q]
                  ELSE token[old]
<1>1. /\ j \in Jtis /\ hist'.tokens = j /\ hist'.requests = hist.requests
      /\ hist'.delivered = hist.delivered
      /\ live' = live \cup {j} /\ token' = [token EXCEPT ![j] = new]
  BY Constants DEF issue, At, Room, HistType, Jtis
<1>2. client[c] \in States /\ Holds(client[c].pc, client[c], hist) /\ client[c].pc = "issue"
  BY DEF issue, At, ClientType
<1>3. old # 0 => old \in 1..hist.tokens
  BY <1>2, Constants DEF Holds, HistType
<1>4. old # 0 => token[old] \in Tokens
  BY <1>3, Constants DEF TokenType, HistType, Jtis
<1>5. old = 0 => client[c].q \in 1..hist.requests /\ client[c].user \in 0..MaxRequests
  BY <1>2, Constants DEF Holds, HistType, States
<1>6. new \in Tokens
  BY <1>1, <1>4, <1>5, Constants DEF Tokens, HistType, Requests
<1>7. token'[j] = new
  BY <1>1 DEF TokenType
<1>8. j \notin live
  BY Constants DEF KeyType, HistType
<1>9. old = 0 => new.fam = j /\ new.user = client[c].user /\ new.opened = client[c].q
  OBVIOUS
<1>10. old # 0 => new = token[old]
  OBVIOUS
<1> HIDE DEF new
<1> QED BY <1>1, <1>3, <1>5, <1>6, <1>7, <1>8, <1>9, <1>10

\* Tokens keep their type, and families begin with tokens that exist.
LEMMA TokenTypeStep == ASSUME Types, Room, Next PROVE TokenType'
<1> USE DEF Types
<1>1. ASSUME NEW c \in Clients, issue(c) PROVE TokenType'
  <2> DEFINE j == hist.tokens + 1
             new == token'[j]
  <2>1. /\ j \in Jtis /\ hist'.tokens = j /\ new \in Tokens
        /\ token' = [token EXCEPT ![j] = new]
    BY <1>1, Issued
  <2>2. hist.tokens \in Nat /\ Jtis \subseteq Nat /\ \A x \in Tokens : x.fam \in Nat
    BY Constants DEF HistType, Jtis, Tokens
  <2>3. new.fam <= j
    <3>1. CASE client[c].jti = 0
      BY <1>1, <3>1, <2>2, Issued
    <3>2. CASE client[c].jti # 0
      <4>1. client[c].jti \in 1..hist.tokens /\ new = token[client[c].jti]
        BY <1>1, <3>2, Issued
      <4>2. client[c].jti \in Jtis
        BY <4>1, Constants DEF HistType, Jtis
      <4> QED BY <4>1, <4>2, <2>2 DEF TokenType
    <3> QED BY <3>1, <3>2
  <2> HIDE DEF new
  <2>4. token' \in [Jtis -> Tokens \cup {None}]
    BY <2>1 DEF TokenType
  <2>5. ASSUME NEW i \in Jtis
        PROVE  IF i <= j THEN token'[i] \in Tokens /\ token'[i].fam <= j ELSE token'[i] = None
    <3>1. CASE i = j
      BY <2>1, <2>2, <2>3, <3>1 DEF TokenType
    <3>2. CASE i # j
      BY <2>1, <2>2, <3>2 DEF TokenType
    <3> QED BY <3>1, <3>2
  <2> QED BY <2>1, <2>4, <2>5 DEF TokenType
<1>2. CASE token' = token /\ hist'.tokens = hist.tokens
  BY <1>2 DEF TokenType
<1>3. ASSUME NEW c \in Clients, Redeem(c) \/ Revoke(c)
      PROVE  token' = token
  BY <1>3 DEF Redeem, Revoke
<1>4. ASSUME NEW j \in Jtis, ExpireToken(j) PROVE token' = token
  BY <1>4 DEF ExpireToken
<1>5. \/ hist'.tokens = hist.tokens
      \/ \E c \in Clients : issue(c)
  BY HistWriters DEF store, FailsOpen, CutShort, sendSms, eraseUserData, HistType
<1> QED BY <1>1, <1>2, <1>3, <1>4, <1>5, TokenWriters

\* The keys of tokens are those of tokens that were handed out.
LEMMA KeyTypeStep == ASSUME Types, Room, Next PROVE KeyType'
<1> USE DEF Types
<1>0. hist.tokens \in Nat /\ hist'.tokens \in Nat /\ hist.tokens <= hist'.tokens
  BY HistTypeStep, Constants DEF HistType
<1>1. ASSUME NEW c \in Clients, issue(c) PROVE KeyType'
  <2>1. hist'.tokens = hist.tokens + 1 /\ live' = live \cup {hist.tokens + 1}
    BY <1>1, Issued
  <2>2. expired' = expired /\ revoked' = revoked
    BY <1>1 DEF issue
  <2>3. live' \subseteq 1..hist'.tokens
    <3> SUFFICES ASSUME NEW x \in live' PROVE x \in 1..hist'.tokens
      OBVIOUS
    <3>1. CASE x \in live
      BY <1>0, <3>1 DEF KeyType
    <3>2. CASE x = hist.tokens + 1
      BY <1>0, <2>1, <3>2
    <3> QED BY <2>1, <3>1, <3>2
  <2> QED BY <2>2, <2>3 DEF KeyType
<1>2. ASSUME NEW c \in Clients, Redeem(c) PROVE KeyType'
  <2>1. live' = live \ {client[c].jti} /\ UNCHANGED <<expired, revoked, hist>>
    BY <1>2 DEF Redeem
  <2> QED BY <2>1 DEF KeyType
<1>3. ASSUME NEW c \in Clients, Revoke(c) PROVE KeyType'
  <2>1. client[c].jti \in 1..hist.tokens
    BY <1>3 DEF Revoke, At, ClientType, Holds, RefreshPc
  <2>2. client[c].jti \in Jtis
    BY <2>1, Constants DEF HistType, Jtis
  <2>3. token[client[c].jti].fam \in Jtis
    BY <2>1, <2>2, Constants DEF TokenType, HistType, Jtis, Tokens
  <2>4. /\ live' = live /\ expired' = expired /\ hist' = hist
        /\ revoked' = revoked \cup {[fam |-> token[client[c].jti].fam, jti |-> client[c].jti]}
    BY <1>3 DEF Revoke
  <2> QED BY <2>2, <2>3, <2>4 DEF KeyType
<1>4. ASSUME NEW j \in Jtis, ExpireToken(j) PROVE KeyType'
  BY <1>4 DEF ExpireToken, KeyType
<1>5. CASE UNCHANGED <<live, expired, revoked>>
  BY <1>0, <1>5 DEF KeyType
<1> QED BY <1>1, <1>2, <1>3, <1>4, <1>5, TokenWriters

\* How a step of client c changes the clients.
Becomes(c, r) == client' = [client EXCEPT ![c] = r]

\* A step of c leads to a state of its request, about the same token, and
\* begins no new request.
Moves(c) ==
    \E r \in States :
        /\ Becomes(c, r)
        /\ Holds(r.pc, r, hist')
        /\ r.pc \in StorePc => client[c].pc \in StorePc
        /\ r.pc \in TokenPc => client[c].pc \in TokenPc
        /\ r.pc = "idle" \/ r.jti = client[c].jti
        /\ r.late => client[c].late

\* A state with a new pc is a state with everything else as it was.
LEMMA WithPc ==
    ASSUME NEW r \in States, NEW p \in Pcs
    PROVE  LET s == [r EXCEPT !.pc = p]
           IN /\ s \in States /\ s.pc = p
              /\ s.kind = r.kind /\ s.id = r.id /\ s.q = r.q /\ s.user = r.user
              /\ s.attempts = r.attempts /\ s.left = r.left /\ s.jti = r.jti /\ s.late = r.late
  BY DEF States

\* An idle client holds nothing.
LEMMA IdleState ==
    /\ Idle \in States /\ Idle.pc = "idle" /\ Idle.late = FALSE
    /\ Idle.kind = "login" /\ Idle.id = None /\ Idle.q = 0 /\ Idle.user = 0
    /\ Idle.attempts = 0 /\ Idle.left = 0 /\ Idle.jti = 0
  BY Constants DEF Idle, States, Pcs, Kinds

\* A request that ends.
LEMMA DoneMoves == ASSUME NEW c \in Clients, Done(c) PROVE Moves(c)
<1>1. Holds(Idle.pc, Idle, hist')
  BY IdleState DEF Holds, RequestPc, VerifyPc, RefreshPc
<1> QED BY <1>1, IdleState
  DEF Done, Moves, Becomes, StorePc, TokenPc, RequestPc, VerifyPc, RefreshPc

\* A request that goes on.
LEMMA GoMoves ==
    ASSUME ClientType, NEW c \in Clients, NEW p \in Pcs, Go(c, p), Holds(p, client[c], hist'),
           p \in StorePc => client[c].pc \in StorePc,
           p \in TokenPc => client[c].pc \in TokenPc
    PROVE  Moves(c)
<1> DEFINE r == [client[c] EXCEPT !.pc = p]
<1>1. client[c] \in States
  BY DEF ClientType
<1>2. /\ r \in States /\ r.pc = p /\ r.id = client[c].id /\ r.q = client[c].q
      /\ r.attempts = client[c].attempts /\ r.left = client[c].left /\ r.jti = client[c].jti
      /\ r.late = client[c].late
  BY <1>1, WithPc
<1>3. Becomes(c, r)
  BY DEF Go, Becomes
<1> HIDE DEF r
<1>4. Holds(r.pc, r, hist')
  BY <1>2 DEF Holds
<1> QED BY <1>2, <1>3, <1>4 DEF Moves

\* The clients keep their types when the one that moves does.
LEMMA ClientTypeBecomes ==
    ASSUME Types, NEW c \in Clients, NEW r \in States, Becomes(c, r), Holds(r.pc, r, hist'),
           hist'.requests \in Nat, hist'.tokens \in Nat,
           hist.requests <= hist'.requests, hist.tokens <= hist'.tokens
    PROVE  ClientType'
<1> USE DEF Types
<1>1. client' \in [Clients -> States]
  BY DEF Becomes, ClientType
<1>2. ASSUME NEW d \in Clients, d # c PROVE Holds(client'[d].pc, client'[d], hist')
  <2>1. client'[d] = client[d] /\ client[d] \in States /\ Holds(client[d].pc, client[d], hist)
    BY <1>2 DEF Becomes, ClientType
  <2>2. client[d].q \in Nat /\ client[d].jti \in Nat /\ hist.requests \in Nat /\ hist.tokens \in Nat
    BY <2>1, Constants DEF States, HistType
  <2> QED BY <2>1, <2>2 DEF Holds
<1>3. Holds(client'[c].pc, client'[c], hist')
  BY DEF Becomes, ClientType
<1> QED BY <1>1, <1>2, <1>3 DEF ClientType

\* Every step of a request under way is such a move.
LEMMA StepMoves ==
    ASSUME Types, Room, NEW c \in Clients, Step(c) \/ FailsOpen(c) \/ CutShort(c)
    PROVE  Moves(c)
<1> USE DEF Types
<1>0. /\ client[c] \in States /\ Holds(client[c].pc, client[c], hist)
      /\ \A p : Go(c, p) /\ p \in Pcs /\ Holds(p, client[c], hist') /\
                (p \in StorePc => client[c].pc \in StorePc) /\
                (p \in TokenPc => client[c].pc \in TokenPc) => Moves(c)
      /\ Done(c) => Moves(c)
  BY GoMoves, DoneMoves DEF ClientType
<1> USE DEF At, Pcs, StorePc, TokenPc, RequestPc, VerifyPc, RefreshPc
<1>1. CASE checkRateLimit(c)
  BY <1>0, <1>1 DEF checkRateLimit, Holds
<1>2. CASE Incr(c) \/ TooMany(c)
  BY <1>0, <1>2 DEF Incr, TooMany, Holds
<1>3. CASE ExpireRate(c) \/ SetCooldown(c)
  BY <1>0, <1>3 DEF ExpireRate, SetCooldown, Holds
<1>4. CASE FailsOpen(c)
  BY <1>0, <1>4 DEF FailsOpen, Holds
<1>5. CASE CutShort(c)
  BY <1>0, <1>5 DEF CutShort
<1>6. CASE WrongCode(c)
  <2>1. CASE client[c].attempts + 1 >= OTP_MAX_ATTEMPTS
    BY <1>0, <1>6, <2>1 DEF WrongCode
  <2>2. CASE ~(client[c].attempts + 1 >= OTP_MAX_ATTEMPTS)
    <3>1. client[c].attempts + 1 < OTP_MAX_ATTEMPTS
      BY <1>0, <2>2, Constants DEF States
    <3> QED BY <1>0, <1>6, <2>2, <3>1 DEF WrongCode, Holds
  <2> QED BY <2>1, <2>2
<1>7. CASE SaveAttempts(c) \/ Revoke(c) \/ issue(c)
  BY <1>0, <1>7 DEF SaveAttempts, Revoke, issue
<1>8. CASE Spend(c)
  <2>1. client[c].kind = "signup" \/ client[c].user = 0 \/ (client[c].kind # "signup" /\ client[c].user # 0)
    OBVIOUS
  <2> QED BY <1>0, <1>8, <2>1 DEF Spend, Holds
<1>9. CASE AlreadyExists(c)
  BY <1>0, <1>9 DEF AlreadyExists, Holds
<1>10. CASE CreatePreferences(c)
  BY <1>0, <1>10 DEF CreatePreferences, Holds
<1>11. CASE CheckRevoked(c)
  BY <1>0, <1>11 DEF CheckRevoked, Holds
<1>12. CASE Redeem(c)
  BY <1>0, <1>12 DEF Redeem, Holds
<1>13. CASE FindUser(c)
  <2>1. CASE Done(c)
    BY <1>0, <2>1
  <2>2. ASSUME NEW u \in 0..MaxRequests,
               client' = [client EXCEPT ![c].pc = "store", ![c].user = u]
        PROVE  Moves(c)
    <3> DEFINE s == [client[c] EXCEPT !.pc = "store"]
               r == [s EXCEPT !.user = u]
    <3>1. s \in States /\ s.pc = "store" /\ s.id = client[c].id
          /\ s.jti = client[c].jti /\ s.late = client[c].late
      BY <1>0, WithPc
    <3>2. r \in States /\ r.pc = "store" /\ r.id = client[c].id
          /\ r.jti = client[c].jti /\ r.late = client[c].late
      BY <3>1 DEF States
    <3>3. Becomes(c, r)
      BY <2>2 DEF Becomes
    <3>4. client[c].pc = "find" /\ client[c].id \in Identifiers
      BY <1>0, <1>13 DEF FindUser, Holds
    <3> HIDE DEF r
    <3>5. Holds(r.pc, r, hist')
      BY <3>2, <3>4 DEF Holds
    <3> QED BY <3>2, <3>3, <3>4, <3>5 DEF Moves
  <2>3. AccountOf(client[c].id) \subseteq 0..MaxRequests /\ 0 \in 0..MaxRequests
    BY Constants DEF AccountOf, RowType, Rows, Requests
  <2> QED BY <1>13, <2>1, <2>2, <2>3 DEF FindUser
<1>14. CASE store(c)
  <2>1. CASE Done(c)
    BY <1>0, <2>1
  <2>2. CASE ~Done(c)
    <3> DEFINE q == hist.requests + 1
               l == IF client[c].id \in Phones THEN 2 ELSE 1
               s == [client[c] EXCEPT !.pc = "deliver"]
               t == [s EXCEPT !.q = q]
               r == [t EXCEPT !.left = l]
    <3>1. client[c].pc = "store" /\ client[c].id \in Identifiers
      BY <1>0, <1>14 DEF store, Holds
    <3>2. q \in 0..MaxRequests /\ q \in 1..hist'.requests /\ hist'.requests = q
      BY <1>14, <3>1, Constants DEF store, Room, HistType
    <3>3. s \in States /\ s.pc = "deliver" /\ s.id = client[c].id
          /\ s.jti = client[c].jti /\ s.late = client[c].late
      BY <1>0, WithPc
    <3>4. t \in States /\ t.pc = "deliver" /\ t.id = client[c].id /\ t.q = q
          /\ t.jti = client[c].jti /\ t.late = client[c].late
      BY <3>2, <3>3 DEF States
    <3>5. l \in 1..2 /\ l \in 0..2
      OBVIOUS
    <3> HIDE DEF q, t, l
    <3>6. r \in States /\ r.pc = "deliver" /\ r.id = client[c].id /\ r.q = q /\ r.left = l
          /\ r.jti = client[c].jti /\ r.late = client[c].late
      BY <3>4, <3>5 DEF States
    <3>7. Becomes(c, r)
      BY <1>14, <2>2, <3>2 DEF store, Becomes, q, t, l
    <3> HIDE DEF r
    <3>8. Holds(r.pc, r, hist')
      BY <3>1, <3>2, <3>5, <3>6 DEF Holds
    <3> QED BY <3>6, <3>7, <3>8 DEF Moves
  <2> QED BY <2>1, <2>2
<1>15. CASE CreateUser(c)
  <2>1. CASE Done(c)
    BY <1>0, <2>1
  <2>2. CASE ~Done(c)
    <3> DEFINE s == [client[c] EXCEPT !.pc = "prefs"]
               r == [s EXCEPT !.user = client[c].q]
    <3>1. client[c].pc = "create" /\ client[c].id \in Identifiers /\ client[c].jti = 0
          /\ client[c].q \in 1..hist.requests /\ client[c].q \in 0..MaxRequests /\ hist' = hist
      BY <1>0, <1>15 DEF CreateUser, Holds, States
    <3>2. s \in States /\ s.pc = "prefs" /\ s.id = client[c].id /\ s.q = client[c].q /\ s.jti = 0
          /\ s.late = client[c].late
      BY <1>0, <3>1, WithPc
    <3>3. r \in States /\ r.pc = "prefs" /\ r.id = client[c].id /\ r.q = client[c].q /\ r.jti = 0
          /\ r.late = client[c].late
      BY <3>1, <3>2 DEF States
    <3>4. Becomes(c, r)
      BY <1>15, <2>2 DEF CreateUser, Becomes
    <3> HIDE DEF r
    <3>5. Holds(r.pc, r, hist')
      BY <3>1, <3>3 DEF Holds
    <3> QED BY <3>1, <3>3, <3>4, <3>5 DEF Moves
  <2> QED BY <2>1, <2>2
<1>16. ASSUME NEW arrives \in BOOLEAN, NEW accepted \in BOOLEAN, sendSms(c, arrives, accepted)
       PROVE  Moves(c)
  <2>1. CASE Done(c)
    BY <1>0, <2>1
  <2>2. CASE ~Done(c)
    <3> DEFINE r == [client[c] EXCEPT !.left = client[c].left - 1]
    <3>1. /\ client[c].pc = "deliver" /\ client[c].id \in Identifiers
          /\ client[c].q \in 1..hist.requests /\ client[c].left = 2
          /\ hist'.requests = hist.requests
      BY <1>0, <1>16, <2>2 DEF sendSms, Holds, HistType
    <3>2. r \in States /\ r.pc = "deliver" /\ r.id = client[c].id /\ r.q = client[c].q
          /\ r.left = 1 /\ r.jti = client[c].jti /\ r.late = client[c].late
      BY <1>0, <3>1 DEF States
    <3>3. Becomes(c, r)
      BY <1>16, <2>2 DEF sendSms, Becomes
    <3> HIDE DEF r
    <3>4. Holds(r.pc, r, hist')
      BY <3>1, <3>2 DEF Holds
    <3> QED BY <3>1, <3>2, <3>3, <3>4 DEF Moves
  <2> QED BY <2>1, <2>2
<1> QED BY <1>1, <1>2, <1>3, <1>4, <1>5, <1>6, <1>7, <1>8, <1>9, <1>10, <1>11, <1>12, <1>13,
           <1>14, <1>15, <1>16 DEF Step

\* A request that begins holds what its caller sent, or what it read of the code.
Begins(c, p) ==
    \E r \in States : Becomes(c, r) /\ r.pc = p /\ Holds(p, r, hist')

\* A code request.
LEMMA RequestBegins ==
    ASSUME Types, NEW c \in Clients, NEW k \in Kinds, NEW i \in Identifiers, request(c, k, i)
    PROVE  Begins(c, "cooldown")
<1> DEFINE r == [Idle EXCEPT !.pc = "cooldown", !.kind = k, !.id = i]
<1>1. "cooldown" \in Pcs
  BY DEF Pcs, RequestPc
<1>2. r \in States /\ r.pc = "cooldown" /\ r.id = i
  BY <1>1, IdleState DEF States
<1>3. Becomes(c, r)
  BY DEF request, Becomes
<1> HIDE DEF r
<1>4. Holds("cooldown", r, hist')
  BY <1>2 DEF Holds, RequestPc, VerifyPc, RefreshPc
<1> QED BY <1>2, <1>3, <1>4 DEF Begins

\* A verification, which holds what it read of the code.
LEMMA VerifyBegins ==
    ASSUME Types, NEW c \in Clients, NEW q \in Requests, NEW right \in BOOLEAN,
           verify(c, q, right)
    PROVE  /\ Begins(c, IF right THEN "spend" ELSE "wrong")
           /\ client'[c].q = q /\ client'[c].id = code[q].id /\ client'[c].user = code[q].user
           /\ client'[c].kind = code[q].kind /\ client'[c].jti = 0 /\ ~client'[c].late
<1> DEFINE p == IF right THEN "spend" ELSE "wrong"
           r == [Idle EXCEPT !.pc = p, !.q = q, !.kind = code[q].kind, !.id = code[q].id,
                             !.user = code[q].user, !.attempts = code[q].attempts]
<1>1. code[q] \in Codes /\ q \in 1..hist.requests /\ hist' = hist /\ q \in 0..MaxRequests
  BY Constants DEF verify, Types, CodeType, HistType, Requests
<1>2. p \in {"spend", "wrong"} /\ p \in Pcs
  BY DEF Pcs, VerifyPc
<1>3. Becomes(c, r)
  BY DEF verify, Becomes
<1> HIDE DEF p
<1>4. /\ code[q].kind \in Kinds /\ code[q].id \in Identifiers
      /\ code[q].user \in 0..MaxRequests /\ code[q].attempts \in 0..OTP_MAX_ATTEMPTS - 1
  BY <1>1 DEF Codes
<1>5. r \in States
  BY <1>1, <1>2, <1>4, IdleState DEF States
<1>6. /\ r.pc = p /\ r.q = q /\ r.id = code[q].id /\ r.user = code[q].user
      /\ r.kind = code[q].kind /\ r.jti = 0 /\ ~r.late
  BY IdleState DEF States
<1> HIDE DEF r
<1>7. Holds(p, r, hist')
  BY <1>1, <1>2, <1>4, <1>6 DEF Holds, RequestPc, VerifyPc, RefreshPc
<1>8. client'[c] = r
  BY <1>3 DEF Becomes, Types, ClientType
<1> QED BY <1>3, <1>5, <1>6, <1>7, <1>8 DEF Begins, p

\* A refresh, which remembers whether the session already stood revoked.
LEMMA RefreshBegins ==
    ASSUME Types, NEW c \in Clients, NEW j \in Jtis, refresh(c, j)
    PROVE  /\ Begins(c, "isRevoked")
           /\ client'[c].jti = j /\ (client'[c].late => IsRevoked(token[j].fam))
<1> DEFINE b == IsRevoked(token[j].fam)
           r == [Idle EXCEPT !.pc = "isRevoked", !.jti = j, !.late = b]
<1>1. j \in 1..hist.tokens /\ hist' = hist /\ j \in 0..MaxTokens
  BY Constants DEF refresh, Types, TokenType, HistType, Jtis
<1>2. b \in BOOLEAN /\ "isRevoked" \in Pcs
  BY DEF IsRevoked, Pcs, RefreshPc
<1>3. Becomes(c, r)
  BY DEF refresh, Becomes
<1> HIDE DEF b
<1>4. r \in States /\ r.pc = "isRevoked" /\ r.jti = j /\ r.late = b
  BY <1>1, <1>2, IdleState DEF States
<1> HIDE DEF r
<1>5. Holds("isRevoked", r, hist')
  BY <1>1, <1>4 DEF Holds, RequestPc, VerifyPc, RefreshPc
<1>6. client'[c] = r
  BY <1>3 DEF Becomes, Types, ClientType
<1> QED BY <1>3, <1>4, <1>5, <1>6 DEF Begins, b

\* The end of a token's lifetime changes no more of a client than whether it is late.
LEMMA LateOnly ==
    ASSUME Types, NEW j \in Jtis, ExpireToken(j), NEW c \in Clients
    PROVE  /\ client'[c] \in States
           /\ client'[c].pc = client[c].pc /\ client'[c].kind = client[c].kind
           /\ client'[c].id = client[c].id /\ client'[c].q = client[c].q
           /\ client'[c].user = client[c].user /\ client'[c].attempts = client[c].attempts
           /\ client'[c].left = client[c].left /\ client'[c].jti = client[c].jti
           /\ client'[c].late =>
                client[c].late /\ \E r \in revoked' : r.fam = token[client[c].jti].fam
<1> DEFINE b == client[c].late /\ \E r \in revoked' : r.fam = token[client[c].jti].fam
<1>1. client'[c] = [client[c] EXCEPT !.late = b]
  BY DEF ExpireToken
<1>2. b \in BOOLEAN
  OBVIOUS
<1>3. b => client[c].late /\ \E r \in revoked' : r.fam = token[client[c].jti].fam
  OBVIOUS
<1> HIDE DEF b
<1>4. client[c] \in States
  BY DEF Types, ClientType
<1> QED BY <1>1, <1>2, <1>3, <1>4 DEF States

\* Every step keeps what the clients hold.
LEMMA ClientTypeStep == ASSUME Types, Room, Next PROVE ClientType'
<1>0. /\ hist'.requests \in Nat /\ hist'.tokens \in Nat
      /\ hist.requests <= hist'.requests /\ hist.tokens <= hist'.tokens
  BY HistTypeStep, Constants DEF Types, HistType
<1>1. ASSUME NEW c \in Clients, Moves(c) PROVE ClientType'
  BY <1>0, <1>1, ClientTypeBecomes DEF Moves
<1>2. ASSUME NEW c \in Clients, NEW p, Begins(c, p) PROVE ClientType'
  BY <1>0, <1>2, ClientTypeBecomes DEF Begins
<1>3. ASSUME NEW j \in Jtis, ExpireToken(j) PROVE ClientType'
  <2>1. client' \in [Clients -> States]
    BY <1>3, LateOnly DEF ExpireToken
  <2>2. ASSUME NEW c \in Clients PROVE Holds(client'[c].pc, client'[c], hist')
    <3>1. hist' = hist
      BY <1>3 DEF ExpireToken
    <3> QED BY <1>3, <3>1, LateOnly DEF Types, ClientType, Holds
  <2> QED BY <2>1, <2>2 DEF ClientType
<1>4. CASE client' = client
  BY <1>0, <1>4, Constants DEF Types, ClientType, Holds, HistType, States
<1>5. ASSUME \/ \E k \in Kinds \X Identifiers : ExpireLimit(k) \/ ExpireCooldown(k)
             \/ \E q \in Requests : ExpireCode(q)
             \/ \E a \in accounts : eraseUserData(a)
      PROVE  client' = client
  BY <1>5 DEF ExpireLimit, ExpireCooldown, ExpireCode, eraseUserData
<1> QED BY <1>1, <1>2, <1>3, <1>4, <1>5, StepMoves, RequestBegins, VerifyBegins, RefreshBegins
        DEF Next

-----------------------------------------------------------------------------
(***************************************************************************)
(* Every step keeps the reservations.                                      *)
(***************************************************************************)

\* A reservation is a natural number of requests or tokens, at least one of
\* them for a client that holds one.
LEMMA ReservedRoom == ASSUME Types, Reserved PROVE Room
<1>1. IsFiniteSet(Storing) /\ IsFiniteSet(Issuing)
  BY AccountsAssumption, FS_Subset DEF AccountsAssumption, Storing, Issuing
<1>2. Cardinality(Storing) \in Nat /\ Cardinality(Issuing) \in Nat
  BY <1>1, FS_CardinalityType
<1>3. ASSUME NEW c \in Clients, client[c].pc = "store" PROVE hist.requests < MaxRequests
  <2>1. c \in Storing
    BY <1>3 DEF Storing, StorePc, RequestPc
  <2>2. Cardinality(Storing) # 0
    BY <1>1, <2>1, FS_EmptySet
  <2> QED BY <1>2, <2>2, Constants DEF Reserved, Types, HistType
<1>4. ASSUME NEW c \in Clients, client[c].pc = "issue" PROVE hist.tokens < MaxTokens
  <2>1. c \in Issuing
    BY <1>4 DEF Issuing, TokenPc
  <2>2. Cardinality(Issuing) # 0
    BY <1>1, <2>1, FS_EmptySet
  <2> QED BY <1>2, <2>2, Constants DEF Reserved, Types, HistType
<1> QED BY <1>3, <1>4 DEF Room

\* A request reserves a code, a verification or a refresh a token; storing the
\* code or issuing the token takes up the reservation, and every other end of
\* a request gives it back.
LEMMA ReservedStep == ASSUME Types, Reserved, Next PROVE Reserved'
<1>0. /\ Room
      /\ IsFiniteSet(Storing) /\ IsFiniteSet(Issuing)
      /\ hist.requests \in Nat /\ hist.tokens \in Nat
  BY ReservedRoom, AccountsAssumption, Constants, FS_Subset
  DEF AccountsAssumption, Storing, Issuing, Types, HistType
<1>1. /\ Cardinality(Storing) \in Nat /\ Cardinality(Issuing) \in Nat
  BY <1>0, FS_CardinalityType
<1>2. ASSUME NEW S, NEW T, IsFiniteSet(S), T \subseteq S PROVE Cardinality(T) <= Cardinality(S)
  BY <1>2, FS_Subset
<1>3. ASSUME Storing' \subseteq Storing, Issuing' \subseteq Issuing,
             hist'.requests = hist.requests, hist'.tokens = hist.tokens
      PROVE  Reserved'
  <2>1. Cardinality(Storing') <= Cardinality(Storing) /\ Cardinality(Issuing') <= Cardinality(Issuing)
    BY <1>0, <1>2, <1>3
  <2>2. Cardinality(Storing') \in Nat /\ Cardinality(Issuing') \in Nat
    BY <1>0, <1>3, FS_Subset, FS_CardinalityType
  <2> QED BY <1>0, <1>1, <1>3, <2>1, <2>2, Constants DEF Reserved
<1>4. ASSUME NEW c \in Clients, Moves(c)
      PROVE  Storing' \subseteq Storing /\ Issuing' \subseteq Issuing
  BY <1>4 DEF Moves, Becomes, Types, ClientType, Storing, Issuing
<1>5. ASSUME NEW c \in Clients, store(c) PROVE Reserved'
  <2>1. c \in Storing /\ c \notin Storing'
    BY <1>5, IdleState
    DEF store, At, Done, Storing, StorePc, RequestPc, Types, ClientType, States
  <2>2. Storing' \subseteq Storing \ {c} /\ Issuing' \subseteq Issuing
    BY <1>0, <1>4, <1>5, <2>1, StepMoves DEF Step
  <2>3. /\ Cardinality(Storing \ {c}) = Cardinality(Storing) - 1 /\ IsFiniteSet(Storing \ {c})
    BY <1>0, <2>1, FS_RemoveElement
  <2>4. Cardinality(Storing') <= Cardinality(Storing) - 1 /\ Cardinality(Storing') \in Nat
        /\ Cardinality(Issuing') <= Cardinality(Issuing) /\ Cardinality(Issuing') \in Nat
    BY <1>0, <1>2, <2>2, <2>3, FS_Subset, FS_CardinalityType
  <2>5. hist'.requests = hist.requests + 1 /\ hist'.tokens = hist.tokens
    BY <1>5 DEF store, Types, HistType
  <2> QED BY <1>0, <1>1, <2>4, <2>5, Constants DEF Reserved
<1>6. ASSUME NEW c \in Clients, issue(c) PROVE Reserved'
  <2>1. c \in Issuing /\ c \notin Issuing'
    BY <1>6, IdleState
    DEF issue, At, Done, Issuing, TokenPc, VerifyPc, RefreshPc, Types, ClientType
  <2>2. Issuing' \subseteq Issuing \ {c} /\ Storing' \subseteq Storing
    BY <1>0, <1>4, <1>6, <2>1, StepMoves DEF Step
  <2>3. /\ Cardinality(Issuing \ {c}) = Cardinality(Issuing) - 1 /\ IsFiniteSet(Issuing \ {c})
    BY <1>0, <2>1, FS_RemoveElement
  <2>4. Cardinality(Issuing') <= Cardinality(Issuing) - 1 /\ Cardinality(Issuing') \in Nat
        /\ Cardinality(Storing') <= Cardinality(Storing) /\ Cardinality(Storing') \in Nat
    BY <1>0, <1>2, <2>2, <2>3, FS_Subset, FS_CardinalityType
  <2>5. hist'.tokens = hist.tokens + 1 /\ hist'.requests = hist.requests
    BY <1>6 DEF issue, Types, HistType
  <2> QED BY <1>0, <1>1, <2>4, <2>5, Constants DEF Reserved
<1>7. ASSUME NEW c \in Clients, Step(c) \/ FailsOpen(c) \/ CutShort(c), ~store(c), ~issue(c)
      PROVE  Reserved'
  <2>1. hist'.requests = hist.requests /\ hist'.tokens = hist.tokens
    <3>1. CASE FailsOpen(c) \/ CutShort(c)
      BY <3>1 DEF FailsOpen, CutShort, Types, HistType
    <3>2. ASSUME NEW arrives \in BOOLEAN, NEW accepted \in BOOLEAN, sendSms(c, arrives, accepted)
          PROVE  hist'.requests = hist.requests /\ hist'.tokens = hist.tokens
      BY <3>2 DEF sendSms, Types, HistType
    <3>3. CASE Step(c) /\ ~\E arrives, accepted \in BOOLEAN : sendSms(c, arrives, accepted)
      BY <1>7, <3>3
      DEF Step, checkRateLimit, Incr, TooMany, ExpireRate, SetCooldown, FindUser, WrongCode,
          SaveAttempts, Spend, AlreadyExists, CreateUser, CreatePreferences, CheckRevoked,
          Redeem, Revoke
    <3> QED BY <1>7, <3>1, <3>2, <3>3
  <2> QED BY <1>0, <1>3, <1>4, <1>7, <2>1, StepMoves
<1>8. ASSUME NEW c \in Clients, NEW k \in Kinds, NEW i \in Identifiers, request(c, k, i)
      PROVE  Reserved'
  <2>1. hist.requests + Cardinality(Storing) < MaxRequests /\ hist' = hist /\ client[c].pc = "idle"
    BY <1>8 DEF request, RequestsLeft, Storing, StorePc, At
  <2>2. Storing' \subseteq Storing \cup {c} /\ Issuing' \subseteq Issuing
    BY <1>8, RequestBegins
    DEF Begins, Becomes, Types, ClientType, Storing, Issuing, TokenPc, VerifyPc, RefreshPc
  <2>3. IsFiniteSet(Storing \cup {c}) /\ Cardinality(Storing \cup {c}) <= Cardinality(Storing) + 1
    <3>1. /\ IsFiniteSet(Storing \cup {c})
          /\ \/ Cardinality(Storing \cup {c}) = Cardinality(Storing)
             \/ Cardinality(Storing \cup {c}) = Cardinality(Storing) + 1
      BY <1>0, FS_AddElement, Zenon
    <3> QED BY <1>1, <3>1
  <2>4. Cardinality(Storing') <= Cardinality(Storing \cup {c}) /\ Cardinality(Storing') \in Nat
        /\ Cardinality(Storing \cup {c}) \in Nat
        /\ Cardinality(Issuing') <= Cardinality(Issuing) /\ Cardinality(Issuing') \in Nat
    BY <1>0, <1>2, <2>2, <2>3, FS_Subset, FS_CardinalityType
  <2> QED BY <1>0, <1>1, <2>1, <2>3, <2>4, Constants DEF Reserved
<1>9. ASSUME NEW c \in Clients, TokensLeft, hist' = hist,
             NEW p \in {"wrong", "spend", "isRevoked"}, Begins(c, p)
      PROVE  Reserved'
  <2>1. hist.tokens + Cardinality(Issuing) < MaxTokens
    BY <1>9 DEF TokensLeft, Issuing, TokenPc
  <2>2. Issuing' \subseteq Issuing \cup {c} /\ Storing' \subseteq Storing
    BY <1>9 DEF Begins, Becomes, Types, ClientType, Storing, Issuing, StorePc, RequestPc
  <2>3. IsFiniteSet(Issuing \cup {c}) /\ Cardinality(Issuing \cup {c}) <= Cardinality(Issuing) + 1
    <3>1. /\ IsFiniteSet(Issuing \cup {c})
          /\ \/ Cardinality(Issuing \cup {c}) = Cardinality(Issuing)
             \/ Cardinality(Issuing \cup {c}) = Cardinality(Issuing) + 1
      BY <1>0, FS_AddElement, Zenon
    <3> QED BY <1>1, <3>1
  <2>4. Cardinality(Issuing') <= Cardinality(Issuing \cup {c}) /\ Cardinality(Issuing') \in Nat
        /\ Cardinality(Issuing \cup {c}) \in Nat
        /\ Cardinality(Storing') <= Cardinality(Storing) /\ Cardinality(Storing') \in Nat
    BY <1>0, <1>2, <2>2, <2>3, FS_Subset, FS_CardinalityType
  <2> QED BY <1>0, <1>1, <1>9, <2>1, <2>3, <2>4, Constants DEF Reserved
<1>10. ASSUME NEW c \in Clients, NEW q \in Requests, NEW right \in BOOLEAN, verify(c, q, right)
       PROVE  Reserved'
  <2>1. (IF right THEN "spend" ELSE "wrong") \in {"wrong", "spend", "isRevoked"}
    OBVIOUS
  <2>2. TokensLeft /\ hist' = hist
    BY <1>10 DEF verify
  <2> QED BY <1>9, <1>10, <2>1, <2>2, VerifyBegins
<1>11. ASSUME NEW c \in Clients, NEW j \in Jtis, refresh(c, j) PROVE Reserved'
  <2>1. TokensLeft /\ hist' = hist
    BY <1>11 DEF refresh
  <2> QED BY <1>9, <1>11, <2>1, RefreshBegins
<1>12. ASSUME NEW j \in Jtis, ExpireToken(j) PROVE Reserved'
  <2>1. Storing' = Storing /\ Issuing' = Issuing /\ hist' = hist
    BY <1>12, LateOnly DEF Storing, Issuing, ExpireToken
  <2> QED BY <1>3, <2>1
<1>13. ASSUME \/ \E k \in Kinds \X Identifiers : ExpireLimit(k) \/ ExpireCooldown(k)
              \/ \E q \in Requests : ExpireCode(q)
              \/ \E a \in accounts : eraseUserData(a)
       PROVE  Reserved'
  <2>1. client' = client /\ hist'.requests = hist.requests /\ hist'.tokens = hist.tokens
    BY <1>13 DEF ExpireLimit, ExpireCooldown, ExpireCode, eraseUserData, Types, HistType
  <2> QED BY <1>3, <2>1 DEF Storing, Issuing
<1> QED BY <1>5, <1>6, <1>7, <1>8, <1>10, <1>11, <1>12, <1>13 DEF Next

\* Nothing is stored, nobody is served and nothing is reserved at the start.
LEMMA TypesInit == Init => Types /\ Reserved
<1> SUFFICES ASSUME Init PROVE Types /\ Reserved
  OBVIOUS
<1>1. LimitType /\ RowType /\ KeyType
  BY Constants DEF Init, LimitType, Counters, RowType, KeyType
<1>2. HistType /\ hist.requests = 0 /\ hist.tokens = 0
  BY Constants DEF Init, HistType
<1>3. CodeType /\ TokenType
  BY Constants DEF Init, CodeType, TokenType, Requests, Jtis
<1>4. ClientType
  BY IdleState DEF Init, ClientType, Holds, RequestPc, VerifyPc, RefreshPc
<1>5. Storing = {} /\ Issuing = {}
  BY IdleState DEF Init, Storing, Issuing, StorePc, TokenPc, RequestPc, VerifyPc, RefreshPc
<1> QED BY <1>1, <1>2, <1>3, <1>4, <1>5, FS_EmptySet, Constants DEF Types, Reserved

\* Both are kept by every step.
LEMMA TypesStep == ASSUME Types, Reserved, [Next]_vars PROVE Types' /\ Reserved'
<1>1. CASE Next
  <2>1. Room
    BY ReservedRoom
  <2>2. LimitType' /\ HistType'
    BY <1>1, <2>1, LimitTypeStep, HistTypeStep DEF Types
  <2>3. RowType' /\ CodeType' /\ TokenType' /\ KeyType' /\ ClientType'
    BY <1>1, <2>1, RowTypeStep, CodeTypeStep, TokenTypeStep, KeyTypeStep, ClientTypeStep
  <2> QED BY <1>1, <2>2, <2>3, ReservedStep DEF Types
<1>2. CASE UNCHANGED vars
  BY <1>2 DEF vars, redis, db, Types, LimitType, HistType, RowType, CodeType, TokenType, KeyType,
              ClientType, Reserved, Storing, Issuing
<1> QED BY <1>1, <1>2

\* The types and the reservations, throughout.
THEOREM TypesAlways == Spec => [](Types /\ Reserved)
  BY TypesInit, TypesStep, PTL DEF Spec

\* No counter, code, row, token or client of sign-up and login ever leaves its
\* type: a stored code never holds as many wrong attempts as are allowed, the
\* rate counter stops one past its limit, and the number of codes and tokens
\* stays within what the requests under way have reserved.
THEOREM TypeCorrect == Spec => []TypeOK
  BY TypesAlways, TypesImply, PTL

-----------------------------------------------------------------------------
(***************************************************************************)
(* The rate limit.                                                         *)
(***************************************************************************)

\* What a client that goes on with its request holds afterwards.
LEMMA GoFields ==
    ASSUME ClientType, NEW c \in Clients, NEW p \in Pcs, Go(c, p)
    PROVE  /\ client'[c].pc = p /\ client'[c].kind = client[c].kind
           /\ client'[c].id = client[c].id /\ client'[c].q = client[c].q
           /\ client'[c].user = client[c].user /\ client'[c].jti = client[c].jti
           /\ client'[c].late = client[c].late
<1>1. client[c] \in States /\ client'[c] = [client[c] EXCEPT !.pc = p]
  BY DEF Go, ClientType
<1> QED BY <1>1, WithPc

\* A client that is about to set the TTL stays so until it does, or is cut short.
LEMMA ExpireStays ==
    ASSUME Types, Room, Next, NEW d \in Clients, client[d].pc = "expire",
           ~ExpireRate(d), ~FailsOpen(d), ~CutShort(d)
    PROVE  client'[d].pc = "expire" /\ client'[d].kind = client[d].kind /\ client'[d].id = client[d].id
<1>1. ASSUME NEW c \in Clients, c # d, NEW r, Becomes(c, r) PROVE client'[d] = client[d]
  BY <1>1 DEF Becomes, Types, ClientType
<1>2. ASSUME NEW c \in Clients, Step(c) \/ FailsOpen(c) \/ CutShort(c)
      PROVE  client'[d] = client[d]
  <2>1. CASE c = d
    BY <1>2, <2>1
    DEF Step, At, checkRateLimit, Incr, TooMany, ExpireRate, SetCooldown, FindUser, store, sendSms,
        WrongCode, SaveAttempts, Spend, AlreadyExists, CreateUser, CreatePreferences, issue,
        CheckRevoked, Redeem, Revoke
  <2>2. CASE c # d
    BY <1>1, <1>2, <2>2, StepMoves DEF Moves
  <2> QED BY <2>1, <2>2
<1>3. ASSUME NEW c \in Clients,
             \/ \E k \in Kinds, i \in Identifiers : request(c, k, i)
             \/ \E q \in Requests, right \in BOOLEAN : verify(c, q, right)
             \/ \E j \in Jtis : refresh(c, j)
      PROVE  client'[d] = client[d]
  <2>1. c # d
    BY <1>3 DEF request, verify, refresh, At
  <2>2. \E p : Begins(c, p)
    BY <1>3, RequestBegins, VerifyBegins, RefreshBegins
  <2> QED BY <1>1, <2>1, <2>2 DEF Begins
<1>4. ASSUME NEW j \in Jtis, ExpireToken(j)
      PROVE  client'[d].pc = "expire" /\ client'[d].kind = client[d].kind /\ client'[d].id = client[d].id
  BY <1>4, LateOnly
<1>5. ASSUME \/ \E k \in Kinds \X Identifiers : ExpireLimit(k) \/ ExpireCooldown(k)
             \/ \E q \in Requests : ExpireCode(q)
             \/ \E a \in accounts : eraseUserData(a)
      PROVE  client' = client
  BY <1>5 DEF ExpireLimit, ExpireCooldown, ExpireCode, eraseUserData
<1> QED BY <1>2, <1>3, <1>4, <1>5 DEF Next

\* A counter that is running stays accounted for.
LEMMA WindowStep == ASSUME Types, Room, WindowIsTimed, Next PROVE WindowIsTimed'
<1> SUFFICES ASSUME NEW k \in Kinds \X Identifiers, limit'[k].count > 0
             PROVE  \/ limit'[k].ttl \/ limit'[k].cut
                    \/ \E c \in Clients : client'[c].pc = "expire" /\ <<client'[c].kind, client'[c].id>> = k
  BY DEF WindowIsTimed, At, Key
<1> DEFINE Timed == \/ limit'[k].ttl \/ limit'[k].cut
                    \/ \E c \in Clients : client'[c].pc = "expire" /\ <<client'[c].kind, client'[c].id>> = k
<1>0. limit[k] \in Counters /\ limit \in [Kinds \X Identifiers -> Counters]
  BY DEF Types, LimitType
<1>1. ASSUME NEW d \in Clients, client[d].pc = "expire", Key(d) = k,
             ~ExpireRate(d), ~FailsOpen(d), ~CutShort(d)
      PROVE  Timed
  BY <1>1, ExpireStays DEF Key
<1>2. ASSUME NEW d \in Clients, client[d].pc = "expire", Key(d) = k,
             ExpireRate(d) \/ FailsOpen(d) \/ CutShort(d)
      PROVE  Timed
  <2>1. CASE ExpireRate(d)
    <3> DEFINE b == limit[k].count > 0
    <3>1. limit' = [limit EXCEPT ![k] = [limit[k] EXCEPT !.ttl = b]]
      BY <1>2, <2>1 DEF ExpireRate
    <3>2. b \in BOOLEAN
      OBVIOUS
    <3> HIDE DEF b
    <3>3. limit'[k].count = limit[k].count /\ limit'[k].ttl = b
      BY <1>0, <3>1, <3>2 DEF Counters
    <3> QED BY <3>3 DEF b
  <2>2. CASE FailsOpen(d)
    <3> DEFINE b == limit[k].cut \/ At(d, "expire")
    <3>1. limit' = [limit EXCEPT ![k] = [limit[k] EXCEPT !.cut = b]] /\ b
      BY <1>2, <2>2 DEF FailsOpen, At
    <3>2. limit'[k].cut
      BY <1>0, <3>1 DEF Counters
    <3> QED BY <3>2
  <2>3. CASE CutShort(d)
    <3>1. limit' = [limit EXCEPT ![k] = [limit[k] EXCEPT !.cut = TRUE]]
      BY <1>2, <2>3 DEF CutShort, At
    <3>2. limit'[k].cut
      BY <1>0, <3>1 DEF Counters
    <3> QED BY <3>2
  <2> QED BY <1>2, <2>1, <2>2, <2>3
<1>3. CASE \E d \in Clients : client[d].pc = "expire" /\ Key(d) = k
  BY <1>1, <1>2, <1>3
<1>4. ASSUME ~\E d \in Clients : client[d].pc = "expire" /\ Key(d) = k
      PROVE  Timed
  <2>1. limit[k].count > 0 => limit[k].ttl \/ limit[k].cut
    BY <1>4 DEF WindowIsTimed, At
  <2>2. CASE limit'[k] = limit[k]
    BY <2>1, <2>2
  <2>3. ASSUME NEW c \in Clients, Incr(c) PROVE Timed
    <3>1. limit' = [limit EXCEPT ![Key(c)] = [limit[Key(c)] EXCEPT !.count = limit[Key(c)].count + 1]]
      BY <2>3 DEF Incr
    <3>2. CASE Key(c) # k
      BY <1>0, <2>2, <3>1, <3>2
    <3>3. CASE Key(c) = k
      <4>1. /\ limit'[k].count = limit[k].count + 1
            /\ limit'[k].ttl = limit[k].ttl /\ limit'[k].cut = limit[k].cut
            /\ limit[k].count \in Nat
        BY <1>0, <3>1, <3>3, Constants DEF Counters
      <4>2. CASE limit[k].count > 0
        BY <2>1, <4>1, <4>2
      <4>3. CASE limit[k].count = 0
        <5>1. limit'[Key(c)].count = 1 /\ ~(1 > RATE_LIMIT)
          BY <3>3, <4>1, <4>3, Constants
        <5>2. Go(c, "expire") /\ "expire" \in Pcs
          BY <2>3, <5>1 DEF Incr, Pcs, RequestPc
        <5> QED BY <3>3, <5>2, GoFields DEF Types, Key
      <4> QED BY <4>1, <4>2, <4>3
    <3> QED BY <3>2, <3>3
  <2>4. ASSUME NEW c \in Clients, ExpireRate(c) PROVE Timed
    <3>1. Key(c) # k
      BY <1>4, <2>4 DEF ExpireRate, At
    <3>2. limit'[k] = limit[k]
      BY <1>0, <2>4, <3>1 DEF ExpireRate
    <3> QED BY <2>2, <3>2
  <2>5. ASSUME NEW r, NEW b \in BOOLEAN,
               \/ limit' = [limit EXCEPT ![r] = [limit[r] EXCEPT !.cooldown = b]]
               \/ limit' = [limit EXCEPT ![r] = [limit[r] EXCEPT !.cut = (limit[r].cut \/ b)]]
        PROVE  Timed
    <3>1. limit'[k].count = limit[k].count /\ limit'[k].ttl = limit[k].ttl
          /\ (limit[k].cut => limit'[k].cut)
      <4>1. CASE r # k
        BY <1>0, <2>5, <4>1
      <4>2. CASE r = k /\ limit' = [limit EXCEPT ![r] = [limit[r] EXCEPT !.cooldown = b]]
        BY <1>0, <4>2 DEF Counters
      <4>3. CASE r = k /\ limit' = [limit EXCEPT ![r] = [limit[r] EXCEPT !.cut = (limit[r].cut \/ b)]]
        BY <1>0, <4>3 DEF Counters
      <4> QED BY <2>5, <4>1, <4>2, <4>3
    <3> QED BY <2>1, <3>1
  <2>6. ASSUME NEW c \in Clients, SetCooldown(c) PROVE Timed
    <3>1. limit' = [limit EXCEPT ![Key(c)] = [limit[Key(c)] EXCEPT !.cooldown = TRUE]]
      BY <2>6 DEF SetCooldown
    <3> QED BY <2>5, <3>1
  <2>7. ASSUME NEW c \in Clients, FailsOpen(c) PROVE Timed
    <3>1. limit' = [limit EXCEPT ![Key(c)] = [limit[Key(c)] EXCEPT !.cut =
                        (limit[Key(c)].cut \/ At(c, "expire"))]] /\ At(c, "expire") \in BOOLEAN
      BY <2>7 DEF FailsOpen, At
    <3> QED BY <2>5, <3>1
  <2>8. ASSUME NEW c \in Clients, CutShort(c) PROVE Timed
    <3>1. limit'[k] = limit[k]
      BY <1>0, <1>4, <2>8 DEF CutShort, At
    <3> QED BY <2>2, <3>1
  <2>9. ASSUME NEW l \in Kinds \X Identifiers, ExpireLimit(l) PROVE Timed
    <3>1. limit' = [limit EXCEPT ![l] = [[limit[l] EXCEPT !.count = 0] EXCEPT !.ttl = FALSE]]
      BY <2>9 DEF ExpireLimit
    <3>2. CASE l = k
      <4>1. limit'[k].count = 0
        BY <1>0, <3>1, <3>2 DEF Counters
      <4> QED BY <4>1
    <3>3. CASE l # k
      BY <1>0, <2>2, <3>1, <3>3
    <3> QED BY <3>2, <3>3
  <2>10. ASSUME NEW l \in Kinds \X Identifiers, ExpireCooldown(l) PROVE Timed
    <3>1. limit' = [limit EXCEPT ![l] = [limit[l] EXCEPT !.cooldown = FALSE]]
      BY <2>10 DEF ExpireCooldown
    <3> QED BY <2>5, <3>1
  <2> HIDE DEF Timed
  <2> QED BY <2>2, <2>3, <2>4, <2>6, <2>7, <2>8, <2>9, <2>10, LimitWriters
<1> QED BY <1>3, <1>4

\* An identifier is refused for good only when a request for it was cut short
\* between INCR and EXPIRE: in every other case its counter has a TTL, or a
\* client that is about to set it.
THEOREM WindowAlwaysTimed == Spec => []WindowIsTimed
<1>1. Init => WindowIsTimed
  BY DEF Init, WindowIsTimed
<1>2. Types /\ Reserved /\ WindowIsTimed /\ [Next]_vars => WindowIsTimed'
  <2>1. CASE UNCHANGED vars
    BY <2>1 DEF vars, redis, WindowIsTimed, At, Key
  <2> QED BY <2>1, WindowStep, ReservedRoom
<1> QED BY <1>1, <1>2, TypesAlways, PTL DEF Spec

-----------------------------------------------------------------------------
(***************************************************************************)
(* Whose sessions they are.  own says for each request whose identifier it *)
(* is about; the stored code, what was delivered, the client that sends or *)
(* verifies the code and the session it opens all agree with it.           *)
(***************************************************************************)

\* The account of request u was signed up, for identifier i.
Has(rows, u, i) == \E a \in rows : a.by = u /\ a.id = i

\* A client that has spent a code and is to open a session with it.
Opening(c) == client[c].pc = "prefs" \/ (client[c].pc = "issue" /\ client[c].jti = 0)

\* What a client may rely on about the code it has read.
Entitled(c, own) ==
    /\ client[c].pc = "store" /\ client[c].user # 0 => Has(accounts, client[c].user, client[c].id)
    /\ client[c].pc \in {"deliver"} \cup VerifyPc => client[c].id = own[client[c].q]
    /\ client[c].pc \in {"wrong", "saveAttempts", "spend"} /\ client[c].user # 0 =>
          Has(accounts, client[c].user, own[client[c].q])
    /\ client[c].pc \in {"spend", "exists", "create"} => hist.delivered[client[c].q] # None
    /\ Opening(c) => /\ hist.delivered[client[c].q] # None
                     /\ Has(accounts, client[c].user, own[client[c].q])

OwnedCode(q, own) ==
    /\ hist.delivered[q] \in {None, own[q]}
    /\ code[q] # None => /\ code[q].id = own[q]
                         /\ code[q].user # 0 => Has(accounts, code[q].user, own[q])

OwnedToken(j, own) ==
    token[j] # None => /\ hist.delivered[token[j].opened] # None
                       /\ Has(accounts, token[j].user, own[token[j].opened])

Owned(own) ==
    /\ \A q \in Requests : OwnedCode(q, own)
    /\ \A c \in Clients : Entitled(c, own)
    /\ \A j \in Jtis : OwnedToken(j, own)

Owners == \E own \in [Requests -> Identifiers \cup {None}] : Owned(own)

\* Rows keep who signed up for what, erased or not.
LEMMA HasStays == ASSUME Types, Next, NEW u, NEW i, Has(accounts, u, i) PROVE Has(accounts', u, i)
<1> PICK a \in accounts : a.by = u /\ a.id = i
  BY DEF Has
<1>1. ASSUME NEW c \in Clients, CreateUser(c) PROVE a \in accounts'
  BY <1>1 DEF CreateUser
<1>2. ASSUME NEW c \in Clients, CreatePreferences(c) PROVE a \in accounts'
  BY <1>2 DEF CreatePreferences
<1>3. ASSUME NEW x \in accounts, eraseUserData(x) PROVE Has(accounts', u, i)
  <2> DEFINE row == [id |-> x.id, by |-> x.by, erased |-> TRUE]
  <2>1. accounts' = (accounts \ {x}) \cup {row} /\ row.by = x.by /\ row.id = x.id
    BY <1>3 DEF eraseUserData
  <2> HIDE DEF row
  <2>2. \E b \in accounts' : b.by = u /\ b.id = i
    BY <2>1
  <2> QED BY <2>2 DEF Has
<1> QED BY <1>1, <1>2, <1>3, RowWriters DEF Has

\* What was delivered is not taken back.
LEMMA DeliveredStays ==
    ASSUME Types, Room, Next, NEW q \in Requests, hist.delivered[q] # None
    PROVE  hist'.delivered[q] # None
<1>1. CASE hist' = hist
  BY <1>1
<1>2. ASSUME NEW c \in Clients, store(c) \/ issue(c) \/ FailsOpen(c) \/ CutShort(c)
      PROVE  hist'.delivered = hist.delivered
  BY <1>2 DEF store, issue, FailsOpen, CutShort, Types, HistType
<1>3. ASSUME NEW a \in accounts, eraseUserData(a) PROVE hist'.delivered = hist.delivered
  BY <1>3 DEF eraseUserData, Types, HistType
<1>4. ASSUME NEW c \in Clients, NEW arrives \in BOOLEAN, NEW accepted \in BOOLEAN,
             sendSms(c, arrives, accepted)
      PROVE  hist'.delivered[q] # None
  <2>1. client[c].id \in Identifiers
    BY <1>4 DEF sendSms, At, Types, ClientType, Holds, RequestPc
  <2> QED BY <1>4, <2>1, Constants DEF sendSms, Types, HistType
<1> QED BY <1>1, <1>2, <1>3, <1>4, HistWriters

\* A client that is not concerned by a step keeps what it relies on.
LEMMA EntitledStays ==
    ASSUME Types, Room, Next, NEW own, NEW new, NEW d \in Clients, Entitled(d, own),
           \A q \in 1..hist.requests : new[q] = own[q],
           client'[d].pc = client[d].pc, client'[d].id = client[d].id,
           client'[d].q = client[d].q, client'[d].user = client[d].user,
           client'[d].jti = client[d].jti
    PROVE  Entitled(d, new)'
<1>1. /\ client[d].pc \in VerifyPc \cup {"deliver"} => client[d].q \in 1..hist.requests
      /\ client[d].pc = "issue" /\ client[d].jti = 0 => client[d].q \in 1..hist.requests
      /\ client[d].q \in 1..hist.requests => client[d].q \in Requests
  BY Constants DEF Types, ClientType, Holds, HistType, Requests
<1>2. Opening(d)' = Opening(d) /\ (Opening(d) => client[d].q \in 1..hist.requests)
  BY <1>1 DEF Opening, VerifyPc
<1>3. \A q \in Requests : hist.delivered[q] # None => hist'.delivered[q] # None
  BY DeliveredStays
<1>4. \A u, i : Has(accounts, u, i) => Has(accounts', u, i)
  BY HasStays
<1>5. client'[d].pc = "store" /\ client'[d].user # 0 => Has(accounts', client[d].user, client[d].id)
  BY <1>4 DEF Entitled
<1>6. client'[d].pc \in {"deliver"} \cup VerifyPc => client'[d].id = new[client'[d].q]
  BY <1>1 DEF Entitled
<1>7. client'[d].pc \in {"wrong", "saveAttempts", "spend"} /\ client'[d].user # 0 =>
          Has(accounts', client[d].user, own[client[d].q]) /\ new[client[d].q] = own[client[d].q]
  BY <1>1, <1>4 DEF Entitled, VerifyPc
<1>8. client'[d].pc \in {"spend", "exists", "create"} => hist'.delivered[client'[d].q] # None
  BY <1>1, <1>3 DEF Entitled, VerifyPc
<1>9. Opening(d)' => /\ hist'.delivered[client'[d].q] # None
                     /\ Has(accounts', client[d].user, own[client[d].q])
                     /\ new[client[d].q] = own[client[d].q]
  BY <1>1, <1>2, <1>3, <1>4 DEF Entitled
<1> QED BY <1>5, <1>6, <1>7, <1>8, <1>9 DEF Entitled, Has

\* The codes agree with their owners after every step but the storing of a new one.
LEMMA CodesOwned ==
    ASSUME Types, Room, Next, NEW own, Owned(own), NEW q \in Requests,
           ~\E c \in Clients : store(c)
    PROVE  OwnedCode(q, own)'
<1>0. \A u, i : Has(accounts, u, i) => Has(accounts', u, i)
  BY HasStays
<1>1. hist'.delivered[q] \in {None, own[q]}
  <2>1. ASSUME NEW c \in Clients, NEW arrives \in BOOLEAN, NEW accepted \in BOOLEAN,
               sendSms(c, arrives, accepted)
        PROVE  hist'.delivered[q] \in {None, own[q]}
    <3>1. client[c].id = own[client[c].q]
      BY <2>1 DEF sendSms, At, Owned, Entitled
    <3>2. hist'.delivered[q] = hist.delivered[q]
          \/ (q = client[c].q /\ hist'.delivered[q] = client[c].id)
      BY <2>1 DEF sendSms, Types, HistType
    <3> QED BY <3>1, <3>2 DEF Owned, OwnedCode
  <2>2. ASSUME \/ \E c \in Clients : issue(c) \/ FailsOpen(c) \/ CutShort(c)
               \/ \E a \in accounts : eraseUserData(a)
        PROVE  hist'.delivered = hist.delivered
    BY <2>2 DEF issue, FailsOpen, CutShort, eraseUserData, Types, HistType
  <2> QED BY <2>1, <2>2, HistWriters DEF Owned, OwnedCode
<1>2. code'[q] # None => code'[q].id = own[q] /\ (code'[q].user # 0 => Has(accounts', code'[q].user, own[q]))
  <2>1. CASE code'[q] \in {code[q], None}
    BY <1>0, <2>1 DEF Owned, OwnedCode
  <2>2. ASSUME NEW c \in Clients, SaveAttempts(c), client[c].q = q, code'[q] # None
        PROVE  code'[q].id = own[q] /\ (code'[q].user # 0 => Has(accounts', code'[q].user, own[q]))
    <3>1. code'[q].id = client[c].id /\ code'[q].user = client[c].user
      BY <2>2 DEF SaveAttempts, Types, CodeType
    <3>2. client[c].id = own[q] /\ (client[c].user # 0 => Has(accounts, client[c].user, own[q]))
      BY <2>2 DEF SaveAttempts, At, Owned, Entitled, VerifyPc
    <3> QED BY <1>0, <3>1, <3>2
  <2>3. ASSUME NEW c \in Clients, SaveAttempts(c), client[c].q # q PROVE code'[q] = code[q]
    BY <2>3 DEF SaveAttempts, Types, CodeType
  <2>4. ASSUME NEW c \in Clients, WrongCode(c) \/ Spend(c) PROVE code'[q] \in {code[q], None}
    BY <2>4 DEF WrongCode, Spend, Types, CodeType
  <2>5. ASSUME NEW x \in Requests, ExpireCode(x) PROVE code'[q] \in {code[q], None}
    BY <2>5 DEF ExpireCode, Types, CodeType
  <2> QED BY <2>1, <2>2, <2>3, <2>4, <2>5, CodeWriters
<1> QED BY <1>1, <1>2 DEF OwnedCode

\* A client keeps being entitled whatever its request does next.
LEMMA MoverEntitled ==
    ASSUME Types, Room, Next, NEW own, Owned(own), NEW c \in Clients,
           Step(c) \/ FailsOpen(c) \/ CutShort(c), ~store(c)
    PROVE  Entitled(c, own)'
<1> USE DEF Types
<1>0. /\ client[c] \in States /\ Holds(client[c].pc, client[c], hist) /\ Entitled(c, own)
      /\ client[c].q \in 1..hist.requests => client[c].q \in Requests
  BY Constants DEF ClientType, Owned, HistType, Requests
<1>1. \A u, i : Has(accounts, u, i) => Has(accounts', u, i)
  BY HasStays
<1>2. \A q \in Requests : hist.delivered[q] # None => hist'.delivered[q] # None
  BY DeliveredStays
<1>3. CASE Done(c)
  <2>1. client'[c] = Idle
    BY <1>3 DEF Done, ClientType
  <2> QED BY <2>1, IdleState DEF Entitled, Opening, VerifyPc
<1>4. ASSUME NEW p \in Pcs, Go(c, p)
      PROVE  /\ client'[c].pc = p /\ client'[c].id = client[c].id /\ client'[c].q = client[c].q
             /\ client'[c].user = client[c].user /\ client'[c].jti = client[c].jti
  BY <1>4, GoFields
<1> USE DEF At, VerifyPc, RequestPc, RefreshPc
<1>5. ASSUME NEW p \in {"incr", "expire", "setCooldown", "find", "getdel", "revoke"}, Go(c, p)
      PROVE  Entitled(c, own)'
  <2>1. client'[c].pc = p
    BY <1>4, <1>5 DEF Pcs
  <2> QED BY <1>5, <2>1 DEF Entitled, Opening
<1>6. CASE checkRateLimit(c) \/ FailsOpen(c) \/ CutShort(c)
  BY <1>3, <1>5, <1>6 DEF checkRateLimit, FailsOpen, CutShort
<1>7. CASE Incr(c)
  BY <1>3, <1>5, <1>7 DEF Incr
<1>8. CASE TooMany(c) \/ ExpireRate(c) \/ SetCooldown(c) \/ CheckRevoked(c)
  BY <1>3, <1>5, <1>8 DEF TooMany, ExpireRate, SetCooldown, CheckRevoked
<1>9. CASE FindUser(c)
  <2>1. ASSUME NEW u \in AccountOf(client[c].id) \cup {0},
               client' = [client EXCEPT ![c].pc = "store", ![c].user = u]
        PROVE  Entitled(c, own)'
    <3>1. client'[c].pc = "store" /\ client'[c].user = u /\ client'[c].id = client[c].id
      BY <1>0, <2>1 DEF ClientType, States
    <3>2. u # 0 => Has(accounts, u, client[c].id)
      BY <2>1 DEF AccountOf, Has
    <3> QED BY <1>1, <3>1, <3>2 DEF Entitled, Opening
  <2> QED BY <1>3, <1>9, <2>1 DEF FindUser
<1>10. ASSUME NEW arrives \in BOOLEAN, NEW accepted \in BOOLEAN, sendSms(c, arrives, accepted)
       PROVE  Entitled(c, own)'
  <2>1. CASE ~Done(c)
    <3>1. /\ client'[c].pc = "deliver" /\ client'[c].id = client[c].id
          /\ client'[c].q = client[c].q
      BY <1>0, <1>10, <2>1 DEF sendSms, ClientType, States
    <3> QED BY <1>0, <1>10, <3>1 DEF sendSms, Entitled, Opening
  <2> QED BY <1>3, <2>1
<1>11. CASE WrongCode(c)
  <2>1. ASSUME Go(c, "saveAttempts") PROVE Entitled(c, own)'
    <3>1. /\ client'[c].pc = "saveAttempts" /\ client'[c].id = client[c].id
          /\ client'[c].q = client[c].q /\ client'[c].user = client[c].user
      BY <1>4, <2>1 DEF Pcs
    <3> QED BY <1>0, <1>1, <1>11, <3>1 DEF WrongCode, Entitled, Opening
  <2> QED BY <1>3, <1>11, <2>1 DEF WrongCode
<1>12. CASE SaveAttempts(c) \/ issue(c) \/ Revoke(c)
  BY <1>3, <1>12 DEF SaveAttempts, issue, Revoke
<1>13. CASE Spend(c)
  <2>1. ASSUME Go(c, "exists") PROVE Entitled(c, own)'
    <3>1. client'[c].pc = "exists" /\ client'[c].id = client[c].id /\ client'[c].q = client[c].q
      BY <1>4, <2>1 DEF Pcs
    <3> QED BY <1>0, <1>2, <1>13, <3>1 DEF Spend, Entitled, Opening, Holds
  <2>2. ASSUME Go(c, "issue"), client[c].user # 0 PROVE Entitled(c, own)'
    <3>1. client'[c].pc = "issue" /\ client'[c].q = client[c].q /\ client'[c].user = client[c].user
      BY <1>4, <2>2 DEF Pcs
    <3> QED BY <1>0, <1>1, <1>2, <1>13, <2>2, <3>1 DEF Spend, Entitled, Opening, Holds
  <2> QED BY <1>3, <1>13, <2>1, <2>2 DEF Spend
<1>14. CASE AlreadyExists(c)
  <2>1. ASSUME Go(c, "create") PROVE Entitled(c, own)'
    <3>1. client'[c].pc = "create" /\ client'[c].id = client[c].id /\ client'[c].q = client[c].q
      BY <1>4, <2>1 DEF Pcs
    <3> QED BY <1>0, <1>2, <1>14, <3>1 DEF AlreadyExists, Entitled, Opening, Holds
  <2> QED BY <1>3, <1>14, <2>1 DEF AlreadyExists
<1>15. CASE CreateUser(c)
  <2>1. CASE ~Done(c)
    <3>1. /\ client'[c].pc = "prefs" /\ client'[c].id = client[c].id
          /\ client'[c].q = client[c].q /\ client'[c].user = client[c].q
      BY <1>0, <1>15, <2>1 DEF CreateUser, ClientType, States
    <3>2. Has(accounts', client[c].q, client[c].id)
      <4> DEFINE row == [id |-> client[c].id, by |-> client[c].q, erased |-> FALSE]
      <4>1. row \in accounts' /\ row.by = client[c].q /\ row.id = client[c].id
        BY <1>15, <2>1 DEF CreateUser
      <4> HIDE DEF row
      <4> QED BY <4>1 DEF Has
    <3>3. client[c].id = own[client[c].q] /\ hist'.delivered[client[c].q] # None
      BY <1>0, <1>2, <1>15 DEF CreateUser, Entitled, Holds
    <3> QED BY <3>1, <3>2, <3>3 DEF Entitled, Opening
  <2> QED BY <1>3, <2>1
<1>16. CASE CreatePreferences(c)
  <2>1. client'[c].pc = "issue" /\ client'[c].q = client[c].q /\ client'[c].user = client[c].user
    BY <1>4, <1>16 DEF CreatePreferences, Pcs
  <2> QED BY <1>0, <1>1, <1>2, <1>16, <2>1 DEF CreatePreferences, Entitled, Opening, Holds
<1>17. CASE Redeem(c)
  <2>1. ASSUME Go(c, "issue") PROVE Entitled(c, own)'
    <3>1. client'[c].pc = "issue" /\ client'[c].jti = client[c].jti
      BY <1>4, <2>1 DEF Pcs
    <3>2. client[c].jti # 0
      BY <1>0, <1>17, Constants DEF Redeem, Holds, HistType
    <3> QED BY <3>1, <3>2 DEF Entitled, Opening
  <2> QED BY <1>5, <1>17, <2>1 DEF Redeem
<1> QED BY <1>6, <1>7, <1>8, <1>9, <1>10, <1>11, <1>12, <1>13, <1>14, <1>15, <1>16, <1>17 DEF Step

\* A new token opens a session for the owner of its code, or goes on with one.
LEMMA TokensOwned ==
    ASSUME Types, Room, Next, NEW own, NEW new, Owned(own), NEW j \in Jtis,
           \A q \in 1..hist.requests : new[q] = own[q]
    PROVE  OwnedToken(j, new)'
<1> USE DEF Types
<1>1. \A u, i : Has(accounts, u, i) => Has(accounts', u, i)
  BY HasStays
<1>2. \A q \in Requests : hist.delivered[q] # None => hist'.delivered[q] # None /\ q \in 1..hist.requests
  BY DeliveredStays, Constants DEF CodeType, HistType, Requests
<1>3. ASSUME NEW i \in Jtis, token[i] \in Tokens, token[i] # None
      PROVE  /\ hist'.delivered[token[i].opened] # None
             /\ Has(accounts', token[i].user, new[token[i].opened])
  <2>1. token[i].opened \in Requests
    BY <1>3 DEF Tokens
  <2> QED BY <1>1, <1>2, <1>3, <2>1 DEF Owned, OwnedToken
<1>4. CASE token'[j] = token[j]
  BY <1>3, <1>4 DEF OwnedToken, TokenType
<1>5. ASSUME NEW c \in Clients, issue(c), token'[j] # token[j] PROVE OwnedToken(j, new)'
  <2>1. j = hist.tokens + 1 /\ token' = [token EXCEPT ![j] = token'[j]] /\ token'[j] \in Tokens
    BY <1>5, Issued DEF TokenType
  <2>2. CASE client[c].jti = 0
    <3>1. token'[j].user = client[c].user /\ token'[j].opened = client[c].q
          /\ client[c].q \in 1..hist.requests
      BY <1>5, <2>1, <2>2, Issued
    <3>2. hist.delivered[client[c].q] # None /\ Has(accounts, client[c].user, own[client[c].q])
      BY <1>5, <2>2 DEF issue, At, Owned, Entitled, Opening
    <3>3. client[c].q \in Requests
      BY <3>1, Constants DEF HistType, Requests
    <3> QED BY <1>1, <1>2, <3>1, <3>2, <3>3 DEF OwnedToken
  <2>3. CASE client[c].jti # 0
    <3>1. client[c].jti \in 1..hist.tokens /\ token'[j] = token[client[c].jti]
      BY <1>5, <2>1, <2>3, Issued
    <3>2. client[c].jti \in Jtis /\ token[client[c].jti] \in Tokens
      BY <3>1, Constants DEF HistType, Jtis, TokenType
    <3> QED BY <1>3, <3>1, <3>2 DEF OwnedToken
  <2> QED BY <2>2, <2>3
<1>6. ASSUME NEW c \in Clients, Redeem(c) \/ Revoke(c) PROVE token' = token
  BY <1>6 DEF Redeem, Revoke
<1>7. ASSUME NEW i \in Jtis, ExpireToken(i) PROVE token' = token
  BY <1>7 DEF ExpireToken
<1> QED BY <1>4, <1>5, <1>6, <1>7, TokenWriters

\* Every step keeps the owners.
LEMMA OwnersStep == ASSUME Types, Room, Owners, Next PROVE Owners'
<1> PICK own \in [Requests -> Identifiers \cup {None}] : Owned(own)
  BY DEF Owners
<1> USE DEF Types
<1>0. ASSUME NEW c \in Clients, NEW r, Becomes(c, r), NEW d \in Clients, d # c
      PROVE  client'[d] = client[d]
  BY <1>0 DEF Becomes, ClientType
<1>1. ASSUME NEW c \in Clients, store(c) PROVE Owners'
  <2> DEFINE q == hist.requests + 1
             id == client[c].id
  <2> PICK new : new = [own EXCEPT ![q] = id]
    OBVIOUS
  <2>1. /\ q \in Requests /\ id \in Identifiers /\ Entitled(c, own) /\ client[c].pc = "store"
        /\ hist'.delivered = hist.delivered /\ hist.delivered[q] = None
        /\ hist'.requests = q
    BY <1>1, Constants
    DEF store, At, Room, HistType, Requests, ClientType, Holds, RequestPc, Owned, CodeType
  <2>2. /\ new \in [Requests -> Identifiers \cup {None}] /\ new[q] = id
        /\ \A x \in Requests : x # q => new[x] = own[x]
        /\ \A x \in 1..hist.requests : new[x] = own[x]
    BY <2>1, Constants DEF HistType, Requests
  <2>3. \A u, i : Has(accounts, u, i) => Has(accounts', u, i)
    BY HasStays
  <2>4. ASSUME NEW x \in Requests PROVE OwnedCode(x, new)'
    <3>1. CASE x # q
      <4>1. code'[x] = code[x]
        BY <1>1, <2>1, <3>1 DEF store, CodeType
      <4> QED BY <2>1, <2>2, <2>3, <3>1, <4>1 DEF Owned, OwnedCode
    <3>2. CASE x = q
      <4>1. code'[q].id = id /\ code'[q].user = client[c].user
        BY <1>1, <2>1 DEF store, CodeType
      <4>2. client[c].user # 0 => Has(accounts', client[c].user, id)
        BY <2>1, <2>3 DEF Entitled
      <4> QED BY <2>1, <2>2, <3>2, <4>1, <4>2 DEF OwnedCode
    <3> QED BY <3>1, <3>2
  <2>5. ASSUME NEW d \in Clients PROVE Entitled(d, new)'
    <3>1. CASE d # c
      <4>1. client'[d] = client[d]
        BY <1>0, <1>1, <3>1, StepMoves DEF Step, Moves
      <4> QED BY <2>2, <4>1, EntitledStays DEF Owned
    <3>2. CASE d = c /\ Done(c)
      <4>1. client'[c] = Idle
        BY <3>2 DEF Done, ClientType
      <4> QED BY <3>2, <4>1, IdleState DEF Entitled, Opening, VerifyPc
    <3>3. CASE d = c /\ ~Done(c)
      <4>1. client'[c].pc = "deliver" /\ client'[c].id = id /\ client'[c].q = q
        BY <1>1, <2>1, <3>3 DEF store, ClientType, States
      <4> QED BY <2>2, <3>3, <4>1 DEF Entitled, Opening, VerifyPc
    <3> QED BY <3>1, <3>2, <3>3
  <2>6. \A j \in Jtis : OwnedToken(j, new)'
    BY <2>2, TokensOwned
  <2> QED BY <2>2, <2>4, <2>5, <2>6 DEF Owned, Owners
<1>2. ASSUME ~\E c \in Clients : store(c) PROVE Owners'
  <2>1. \A q \in Requests : OwnedCode(q, own)'
    BY <1>2, CodesOwned
  <2>2. \A j \in Jtis : OwnedToken(j, own)'
    BY TokensOwned
  <2>3. ASSUME NEW d \in Clients,
               client'[d].pc = client[d].pc, client'[d].id = client[d].id,
               client'[d].q = client[d].q, client'[d].user = client[d].user,
               client'[d].jti = client[d].jti
        PROVE  Entitled(d, own)'
    BY <2>3, EntitledStays DEF Owned
  <2>4. ASSUME NEW c \in Clients, Step(c) \/ FailsOpen(c) \/ CutShort(c), NEW d \in Clients
        PROVE  Entitled(d, own)'
    <3>1. CASE d = c
      BY <1>2, <2>4, <3>1, MoverEntitled
    <3>2. CASE d # c
      BY <1>0, <2>3, <2>4, <3>2, StepMoves DEF Moves
    <3> QED BY <3>1, <3>2
  <2>5. ASSUME NEW c \in Clients, NEW p, Begins(c, p), NEW d \in Clients, d # c
        PROVE  Entitled(d, own)'
    BY <1>0, <2>3, <2>5 DEF Begins
  <2>6. ASSUME NEW c \in Clients, NEW p \in {"cooldown", "isRevoked"}, Begins(c, p)
        PROVE  Entitled(c, own)'
    <3>1. client'[c].pc = p
      BY <2>6 DEF Begins, Becomes, ClientType
    <3> QED BY <2>6, <3>1 DEF Entitled, Opening, VerifyPc
  <2>7. ASSUME NEW c \in Clients, NEW q \in Requests, NEW right \in BOOLEAN, verify(c, q, right)
        PROVE  Entitled(c, own)'
    <3>1. client'[c].pc = IF right THEN "spend" ELSE "wrong"
      BY <2>7, VerifyBegins DEF Begins, Becomes, ClientType
    <3>2. client'[c].q = q /\ client'[c].id = code[q].id /\ client'[c].user = code[q].user
      BY <2>7, VerifyBegins
    <3>3. code[q] # None /\ (right => hist.delivered[q] # None) /\ hist' = hist /\ accounts' = accounts
      BY <2>7 DEF verify, db
    <3>4. code[q].id = own[q] /\ (code[q].user # 0 => Has(accounts, code[q].user, own[q]))
      BY <3>3 DEF Owned, OwnedCode
    <3> QED BY <3>1, <3>2, <3>3, <3>4 DEF Entitled, Opening, VerifyPc
  <2>8. ASSUME NEW j \in Jtis, ExpireToken(j), NEW d \in Clients PROVE Entitled(d, own)'
    BY <2>3, <2>8, LateOnly
  <2>9. ASSUME \/ \E k \in Kinds \X Identifiers : ExpireLimit(k) \/ ExpireCooldown(k)
               \/ \E q \in Requests : ExpireCode(q)
               \/ \E a \in accounts : eraseUserData(a),
               NEW d \in Clients
        PROVE  Entitled(d, own)'
    <3>1. client' = client
      BY <2>9 DEF ExpireLimit, ExpireCooldown, ExpireCode, eraseUserData
    <3> QED BY <2>3, <3>1
  <2>10. \A d \in Clients : Entitled(d, own)'
    BY <2>4, <2>5, <2>6, <2>7, <2>8, <2>9, RequestBegins, VerifyBegins, RefreshBegins DEF Next
  <2> QED BY <2>1, <2>2, <2>10 DEF Owned, Owners
<1> QED BY <1>1, <1>2

\* Owners of codes, clients and sessions, throughout.
THEOREM OwnersAlways == Spec => []Owners
<1>1. Init => Owners
  <2> SUFFICES ASSUME Init PROVE Owned([q \in Requests |-> None])
    BY DEF Owners
  <2> QED BY IdleState DEF Init, Owned, OwnedCode, OwnedToken, Entitled, Opening, VerifyPc
<1>2. Types /\ Reserved /\ Owners /\ [Next]_vars => Owners'
  <2>1. CASE UNCHANGED vars
    BY <2>1 DEF vars, redis, db, Owners, Owned, OwnedCode, OwnedToken, Entitled, Opening, Has
  <2> QED BY <2>1, OwnersStep, ReservedRoom
<1> QED BY <1>1, <1>2, TypesAlways, PTL DEF Spec

\* Whatever interleaves, is lost or is erased between a code's request, its
\* delivery and its verification, a session is of an existing account, and was
\* opened with a code delivered to that account's own phone or mailbox.
THEOREM SessionAlwaysOwners == Spec => []SessionIsOwners
<1>1. Types /\ Owners => SessionIsOwners
  <2> SUFFICES ASSUME Types, Owners, NEW j \in Jtis, token[j] # None
               PROVE  \E a \in accounts : /\ a.by = token[j].user
                                          /\ hist.delivered[token[j].opened] = a.id
    BY DEF SessionIsOwners
  <2> PICK own : Owned(own)
    BY DEF Owners
  <2>1. token[j].opened \in Requests
    BY DEF Types, TokenType, Tokens
  <2>2. /\ hist.delivered[token[j].opened] # None
        /\ Has(accounts, token[j].user, own[token[j].opened])
    BY DEF Owned, OwnedToken
  <2>3. hist.delivered[token[j].opened] = own[token[j].opened]
    BY <2>1, <2>2 DEF Owned, OwnedCode
  <2> QED BY <2>2, <2>3 DEF Has
<1> QED BY <1>1, TypesAlways, OwnersAlways, PTL

-----------------------------------------------------------------------------
(***************************************************************************)
(* Rotation.                                                               *)
(***************************************************************************)

\* A client that has redeemed a token and is to hand out its successor.
Renewing(c) == client[c].pc = "issue" /\ client[c].jti # 0
RenewedFam(c) == token[client[c].jti].fam

\* The right to go on with a session is in one place: with one token, or with
\* the one client that is renewing it.
OneHolder ==
    /\ \A i, j \in live : token[i].fam = token[j].fam => i = j
    /\ \A j \in live, c \in Clients : Renewing(c) => RenewedFam(c) # token[j].fam
    /\ \A c, d \in Clients : Renewing(c) /\ Renewing(d) /\ RenewedFam(c) = RenewedFam(d) => c = d

\* A refresh that began after its session was revoked has not got past the
\* check, and the check will find the revocation.
LateIsStopped ==
    \A c \in Clients : client[c].late =>
        client[c].pc = "isRevoked" /\ IsRevoked(token[client[c].jti].fam)

\* A client renews a session it was renewing before, or whose live token it just redeemed.
LEMMA RenewingFrom ==
    ASSUME Types, Room, Next, NEW d \in Clients, Renewing(d)'
    PROVE  /\ client'[d].jti = client[d].jti
           /\ Renewing(d) \/ (Redeem(d) /\ client[d].jti \in live)
<1> USE DEF Types
<1>1. ASSUME NEW c \in Clients, c # d, NEW r, Becomes(c, r) PROVE client'[d] = client[d]
  BY <1>1 DEF Becomes, ClientType
<1>2. ASSUME client'[d].pc = client[d].pc, client'[d].jti = client[d].jti
      PROVE  Renewing(d)
  BY <1>2 DEF Renewing
<1>3. ASSUME Step(d) \/ FailsOpen(d) \/ CutShort(d)
      PROVE  /\ client'[d].jti = client[d].jti
             /\ Redeem(d) /\ client[d].jti \in live
  <2>1. client'[d].pc = "issue" /\ client'[d].jti # 0
    BY DEF Renewing
  <2>2. PICK r \in States : Becomes(d, r) /\ (r.pc = "idle" \/ r.jti = client[d].jti)
    BY <1>3, StepMoves DEF Moves
  <2>3. client'[d].jti = client[d].jti
    BY <2>1, <2>2 DEF Becomes, ClientType
  <2>4. ~Done(d)
    BY <2>1, IdleState DEF Done, ClientType
  <2>5. \A p \in Pcs : Go(d, p) => p = "issue"
    BY <2>1, GoFields
  <2>6. client[d].pc \notin VerifyPc
    BY <2>1, <2>3 DEF ClientType, Holds
  <2>7. ~FindUser(d) /\ ~store(d) /\ ~CreateUser(d) /\ ~\E x, y \in BOOLEAN : sendSms(d, x, y)
    <3>1. ~FindUser(d)
      BY <2>1, <2>4 DEF FindUser, ClientType, States
    <3>2. ~store(d)
      BY <2>1, <2>4 DEF store, ClientType, States
    <3>3. ~CreateUser(d)
      BY <2>6 DEF CreateUser, At, VerifyPc
    <3>4. ~\E x, y \in BOOLEAN : sendSms(d, x, y)
      BY <2>1, <2>4 DEF sendSms, At, ClientType, States
    <3> QED BY <3>1, <3>2, <3>3, <3>4
  <2>8. Redeem(d)
    BY <1>3, <2>4, <2>5, <2>6, <2>7
    DEF Step, At, FailsOpen, CutShort, checkRateLimit, Incr, TooMany, ExpireRate, SetCooldown,
        WrongCode, SaveAttempts, Spend, AlreadyExists, CreatePreferences, issue, CheckRevoked,
        Revoke, Pcs, RequestPc, VerifyPc, RefreshPc
  <2>9. client[d].jti \in live
    BY <2>5, <2>8 DEF Redeem, Pcs, RefreshPc
  <2> QED BY <2>3, <2>8, <2>9
<1>4. ASSUME NEW c \in Clients, NEW p \in {"cooldown", "spend", "wrong", "isRevoked"}, Begins(c, p)
      PROVE  client'[d] = client[d]
  <2>1. c # d
    BY <1>4 DEF Begins, Becomes, Renewing, ClientType
  <2> QED BY <1>1, <1>4, <2>1 DEF Begins
<1>5. ASSUME NEW c \in Clients,
             \/ \E k \in Kinds, i \in Identifiers : request(c, k, i)
             \/ \E q \in Requests, right \in BOOLEAN : verify(c, q, right)
             \/ \E j \in Jtis : refresh(c, j)
      PROVE  client'[d] = client[d]
  BY <1>4, <1>5, RequestBegins, VerifyBegins, RefreshBegins
<1>6. ASSUME NEW j \in Jtis, ExpireToken(j)
      PROVE  client'[d].pc = client[d].pc /\ client'[d].jti = client[d].jti
  BY <1>6, LateOnly
<1>7. ASSUME \/ \E k \in Kinds \X Identifiers : ExpireLimit(k) \/ ExpireCooldown(k)
             \/ \E q \in Requests : ExpireCode(q)
             \/ \E a \in accounts : eraseUserData(a)
      PROVE  client' = client
  BY <1>7 DEF ExpireLimit, ExpireCooldown, ExpireCode, eraseUserData
<1>8. ASSUME NEW c \in Clients, c # d, Step(c) \/ FailsOpen(c) \/ CutShort(c)
      PROVE  client'[d] = client[d]
  BY <1>1, <1>8, StepMoves DEF Moves
<1> QED BY <1>2, <1>3, <1>5, <1>6, <1>7, <1>8 DEF Next

\* The right to go on with a session stays in one place.
LEMMA OneHolderStep == ASSUME Types, Room, OneHolder, Next PROVE OneHolder'
<1> USE DEF Types
<1>0. /\ hist.tokens \in Nat
      /\ \A j \in 1..hist.tokens : j \in Jtis /\ token[j] \in Tokens /\ token[j].fam <= hist.tokens
      /\ live \subseteq 1..hist.tokens
      /\ \A c \in Clients : Renewing(c) \/ Redeem(c) => client[c].jti \in 1..hist.tokens
      /\ \A x \in Tokens : x.fam \in Nat
  <2>1. hist.tokens \in Nat /\ live \subseteq 1..hist.tokens /\ \A x \in Tokens : x.fam \in Nat
    BY Constants DEF HistType, KeyType, Tokens, Jtis
  <2>2. \A j \in 1..hist.tokens : j \in Jtis /\ token[j] \in Tokens /\ token[j].fam <= hist.tokens
    BY Constants DEF HistType, TokenType, Jtis
  <2>3. \A c \in Clients : Renewing(c) \/ Redeem(c) => client[c].jti \in 1..hist.tokens
    BY DEF ClientType, Holds, Renewing, Redeem, At, RefreshPc
  <2> QED BY <2>1, <2>2, <2>3
<1>1. ASSUME NEW c \in Clients, issue(c) PROVE OneHolder'
  <2> DEFINE j == hist.tokens + 1
  <2>1. /\ live' = live \cup {j} /\ \A i \in 1..hist.tokens : token'[i] = token[i]
        /\ j \notin live
    BY <1>0, <1>1, Issued DEF TokenType
  <2>2. ~Renewing(c)' /\ \A d \in Clients : ~Redeem(d)
    <3>1. client'[c] = Idle
      BY <1>1 DEF issue, Done, ClientType
    <3>2. hist'.tokens = hist.tokens + 1
      BY <1>1, Issued
    <3>3. hist' # hist
      BY <1>0, <3>2
    <3> QED BY <3>1, <3>3, IdleState DEF Renewing, Redeem
  <2>3. \A d \in Clients : Renewing(d)' => /\ Renewing(d) /\ d # c
                                          /\ RenewedFam(d)' = RenewedFam(d)
    BY <1>0, <2>1, <2>2, RenewingFrom DEF RenewedFam
  <2>4. \A i \in live : token'[j].fam # token[i].fam
    <3>1. CASE client[c].jti = 0
      <4>1. token'[j].fam = j
        BY <1>1, <3>1, Issued
      <4> QED BY <1>0, <4>1
    <3>2. CASE client[c].jti # 0
      <4>1. token'[j] = token[client[c].jti] /\ Renewing(c)
        BY <1>1, <3>2, Issued DEF issue, At, Renewing
      <4> QED BY <4>1 DEF OneHolder, RenewedFam
    <3> QED BY <3>1, <3>2
  <2>5. \A d \in Clients : Renewing(d) /\ d # c => token'[j].fam # RenewedFam(d)
    <3>1. CASE client[c].jti = 0
      <4>1. token'[j].fam = j
        BY <1>1, <3>1, Issued
      <4> QED BY <1>0, <4>1 DEF RenewedFam
    <3>2. CASE client[c].jti # 0
      <4>1. token'[j] = token[client[c].jti] /\ Renewing(c)
        BY <1>1, <3>2, Issued DEF issue, At, Renewing
      <4> QED BY <4>1 DEF OneHolder, RenewedFam
    <3> QED BY <3>1, <3>2
  <2>6. \A i \in live : token'[i] = token[i]
    BY <1>0, <2>1
  <2> HIDE DEF j
  <2>7. \A i, k \in live' : token'[i].fam = token'[k].fam => i = k
    BY <2>1, <2>4, <2>6 DEF OneHolder
  <2>8. \A i \in live', d \in Clients : Renewing(d)' => RenewedFam(d)' # token'[i].fam
    BY <2>1, <2>3, <2>5, <2>6 DEF OneHolder
  <2>9. \A d, e \in Clients : Renewing(d)' /\ Renewing(e)' /\ RenewedFam(d)' = RenewedFam(e)' => d = e
    BY <2>3 DEF OneHolder
  <2> QED BY <2>7, <2>8, <2>9 DEF OneHolder
<1>2. ASSUME ~\E c \in Clients : issue(c) PROVE OneHolder'
  <2>1. token' = token
    BY <1>2, TokenWriters DEF Redeem, Revoke, ExpireToken
  <2>2. ASSUME NEW c \in Clients, Redeem(c) PROVE OneHolder'
    <3>1. live' = live \ {client[c].jti}
      BY <2>2 DEF Redeem
    <3>2. \A d \in Clients : d # c => client'[d] = client[d]
      BY <2>2, StepMoves DEF Step, Moves, Becomes, ClientType
    <3>3. \A d \in Clients : Renewing(d)' /\ d # c => Renewing(d) /\ RenewedFam(d)' = RenewedFam(d)
      BY <2>1, <3>2 DEF Renewing, RenewedFam
    <3>4. Renewing(c)' => client[c].jti \in live /\ RenewedFam(c)' = token[client[c].jti].fam
      <4>1. ~Renewing(c)
        BY <2>2 DEF Redeem, At, Renewing
      <4> QED BY <2>1, <4>1, RenewingFrom DEF RenewedFam
    <3> QED BY <2>1, <3>1, <3>3, <3>4 DEF OneHolder
  <2>3. ASSUME ~\E c \in Clients : Redeem(c) PROVE OneHolder'
    <3>1. live' \subseteq live
      BY <1>2, <2>3, TokenWriters DEF Revoke, ExpireToken
    <3>2. \A d \in Clients : Renewing(d)' => Renewing(d) /\ RenewedFam(d)' = RenewedFam(d)
      BY <2>1, <2>3, RenewingFrom DEF RenewedFam
    <3> QED BY <2>1, <3>1, <3>2 DEF OneHolder
  <2> QED BY <2>2, <2>3
<1> QED BY <1>1, <1>2

\* A late refresh stays before the check until the check stops it, or the
\* revocation ends.
LEMMA LateStep == ASSUME Types, Room, LateIsStopped, Next PROVE LateIsStopped'
<1> USE DEF Types
<1> SUFFICES ASSUME NEW d \in Clients, client'[d].late
             PROVE  client'[d].pc = "isRevoked" /\ \E r \in revoked' : r.fam = token'[client'[d].jti].fam
  BY DEF LateIsStopped, IsRevoked
<1>1. ASSUME NEW i \in 1..hist.tokens PROVE token'[i] = token[i]
  <2>1. ASSUME NEW c \in Clients, issue(c) PROVE token'[i] = token[i]
    <3>1. token' = [token EXCEPT ![hist.tokens + 1] = token'[hist.tokens + 1]]
      BY <2>1, Issued
    <3>2. i \in Jtis /\ i # hist.tokens + 1
      BY <1>1, Constants DEF HistType, Jtis
    <3> QED BY <3>1, <3>2 DEF TokenType
  <2> QED BY <2>1, TokenWriters DEF Redeem, Revoke, ExpireToken
<1>2. ASSUME NEW j \in Jtis, ExpireToken(j)
      PROVE  client'[d].pc = "isRevoked" /\ \E r \in revoked' : r.fam = token'[client'[d].jti].fam
  <2>1. client[d].late /\ \E r \in revoked' : r.fam = token[client[d].jti].fam
    BY <1>2, LateOnly
  <2>2. token' = token
    BY <1>2 DEF ExpireToken
  <2> QED BY <1>2, <2>1, <2>2, LateOnly DEF LateIsStopped
<1>3. ASSUME ~\E j \in Jtis : ExpireToken(j),
             client[d].late, client'[d].pc = client[d].pc, client'[d].jti = client[d].jti
      PROVE  client'[d].pc = "isRevoked" /\ \E r \in revoked' : r.fam = token'[client'[d].jti].fam
  <2>1. client[d].pc = "isRevoked" /\ \E r \in revoked : r.fam = token[client[d].jti].fam
    BY <1>3 DEF LateIsStopped, IsRevoked
  <2>2. revoked \subseteq revoked'
    BY <1>3, TokenWriters DEF issue, Redeem, Revoke
  <2>3. client[d].jti \in 1..hist.tokens
    BY <2>1 DEF ClientType, Holds, RefreshPc
  <2> QED BY <1>1, <1>3, <2>1, <2>2, <2>3
<1>4. ASSUME NEW c \in Clients, c # d, NEW r, Becomes(c, r) PROVE client'[d] = client[d]
  BY <1>4 DEF Becomes, ClientType
<1>5. ~(Step(d) \/ FailsOpen(d) \/ CutShort(d))
  <2> SUFFICES ASSUME Step(d) \/ FailsOpen(d) \/ CutShort(d) PROVE FALSE
    OBVIOUS
  <2>1. client[d].late
    BY StepMoves DEF Moves, Becomes, ClientType
  <2>2. client[d].pc = "isRevoked" /\ IsRevoked(token[client[d].jti].fam)
    BY <2>1 DEF LateIsStopped
  <2>3. Done(d)
    BY <2>2
    DEF Step, At, FailsOpen, CutShort, checkRateLimit, Incr, TooMany, ExpireRate, SetCooldown,
        FindUser, store, sendSms, WrongCode, SaveAttempts, Spend, AlreadyExists, CreateUser,
        CreatePreferences, issue, CheckRevoked, Redeem, Revoke
  <2> QED BY <2>3, IdleState DEF Done, ClientType
<1>6. ASSUME NEW c \in Clients, c # d, Step(c) \/ FailsOpen(c) \/ CutShort(c)
      PROVE  client'[d] = client[d]
  BY <1>4, <1>6, StepMoves DEF Moves
<1>7. ASSUME NEW c \in Clients, c # d, NEW p, Begins(c, p)
      PROVE  client'[d] = client[d]
  BY <1>4, <1>7 DEF Begins
<1>8. ASSUME NEW k \in Kinds, NEW i \in Identifiers, request(d, k, i) PROVE FALSE
  <2>1. client'[d] = [Idle EXCEPT !.pc = "cooldown", !.kind = k, !.id = i]
    BY <1>8 DEF request, ClientType
  <2> QED BY <2>1, IdleState DEF States
<1>9. ASSUME NEW q \in Requests, NEW right \in BOOLEAN, verify(d, q, right) PROVE FALSE
  BY <1>9, VerifyBegins
<1>10. ASSUME NEW j \in Jtis, refresh(d, j)
       PROVE  client'[d].pc = "isRevoked" /\ \E r \in revoked' : r.fam = token'[client'[d].jti].fam
  <2>1. client'[d].pc = "isRevoked"
    BY <1>10, RefreshBegins DEF Begins, Becomes, ClientType
  <2>2. revoked' = revoked /\ token' = token
    BY <1>10 DEF refresh, redis
  <2> QED BY <1>10, <2>1, <2>2, RefreshBegins DEF IsRevoked
<1>11. ASSUME \/ \E k \in Kinds \X Identifiers : ExpireLimit(k) \/ ExpireCooldown(k)
              \/ \E q \in Requests : ExpireCode(q)
              \/ \E a \in accounts : eraseUserData(a)
       PROVE  client' = client
  BY <1>11 DEF ExpireLimit, ExpireCooldown, ExpireCode, eraseUserData
<1>12. CASE client'[d] = client[d]
  BY <1>2, <1>3, <1>12
<1>13. ASSUME NEW c \in Clients, c # d,
              \/ \E k \in Kinds, i \in Identifiers : request(c, k, i)
              \/ \E q \in Requests, right \in BOOLEAN : verify(c, q, right)
              \/ \E j \in Jtis : refresh(c, j)
       PROVE  client'[d] = client[d]
  BY <1>7, <1>13, RequestBegins, VerifyBegins, RefreshBegins
<1> QED BY <1>2, <1>5, <1>6, <1>8, <1>9, <1>10, <1>11, <1>12, <1>13 DEF Next

\* A set with no two members has at most one.
LEMMA AtMostOne ==
    ASSUME NEW S, \A x, y \in S : x = y
    PROVE  (Cardinality(S) = 0 /\ S = {}) \/ Cardinality(S) = 1
<1>1. CASE S = {}
  BY <1>1, FS_EmptySet
<1>2. CASE S # {}
  <2> PICK x \in S : TRUE
    BY <1>2
  <2>1. S = {x}
    OBVIOUS
  <2> QED BY <2>1, FS_Singleton
<1> QED BY <1>1, <1>2

\* However the tokens of a session, old and new, are presented at once: at most
\* one of them can be redeemed, counting the one about to be handed out, and no
\* refresh that began once the session stood revoked renews it.
THEOREM RotationAlways == Spec => []Rotation
<1>1. Init => OneHolder /\ LateIsStopped
  BY IdleState DEF Init, OneHolder, Renewing, LateIsStopped
<1>2. Types /\ Reserved /\ OneHolder /\ LateIsStopped /\ [Next]_vars => OneHolder' /\ LateIsStopped'
  <2>1. CASE UNCHANGED vars
    BY <2>1 DEF vars, redis, db, OneHolder, Renewing, RenewedFam, LateIsStopped, IsRevoked
  <2> QED BY <2>1, OneHolderStep, LateStep, ReservedRoom
<1>3. OneHolder /\ LateIsStopped => Rotation
  <2> SUFFICES ASSUME OneHolder, LateIsStopped PROVE Rotation
    OBVIOUS
  <2>1. ASSUME NEW f \in Jtis
        PROVE  Cardinality({j \in live : token[j].fam = f})
             + Cardinality({c \in Clients : At(c, "issue") /\ client[c].jti # 0
                                            /\ token[client[c].jti].fam = f}) <= 1
    <3> DEFINE L == {j \in live : token[j].fam = f}
               R == {c \in Clients : At(c, "issue") /\ client[c].jti # 0
                                     /\ token[client[c].jti].fam = f}
    <3>1. \A i, j \in L : i = j
      BY DEF OneHolder
    <3>2. \A c, d \in R : c = d
      BY DEF OneHolder, Renewing, RenewedFam, At
    <3>3. L = {} \/ R = {}
      BY DEF OneHolder, Renewing, RenewedFam, At
    <3> HIDE DEF L, R
    <3>4. /\ (Cardinality(L) = 0 /\ L = {}) \/ Cardinality(L) = 1
          /\ (Cardinality(R) = 0 /\ R = {}) \/ Cardinality(R) = 1
      BY <3>1, <3>2, AtMostOne
    <3>5. Cardinality({}) = 0
      BY FS_EmptySet
    <3>6. Cardinality(L) + Cardinality(R) <= 1
      BY <3>3, <3>4, <3>5
    <3> QED BY <3>6 DEF L, R
  <2>2. RevokedIsNotRenewed
    BY DEF LateIsStopped, RevokedIsNotRenewed
  <2> QED BY <2>1, <2>2 DEF Rotation, OneLiveToken
<1> QED BY <1>1, <1>2, <1>3, TypesAlways, PTL DEF Spec

-----------------------------------------------------------------------------
\* The unique index keeps sign-ups apart whatever they read before, and an
\* erased row takes no identifier from anybody.
THEOREM OneAccountAlways == Spec => []OneAccountPerIdentifier
<1>1. Init => OneAccountPerIdentifier
  BY DEF Init, OneAccountPerIdentifier
<1>2. OneAccountPerIdentifier /\ [Next]_vars => OneAccountPerIdentifier'
  <2> SUFFICES ASSUME OneAccountPerIdentifier, [Next]_vars
               PROVE  OneAccountPerIdentifier'
    OBVIOUS
  <2>1. ASSUME NEW c \in Clients, CreateUser(c)
        PROVE  OneAccountPerIdentifier'
    <3>1. CASE AccountOf(client[c].id) # {}
      BY <2>1, <3>1 DEF CreateUser, OneAccountPerIdentifier
    <3>2. CASE AccountOf(client[c].id) = {}
      <4> DEFINE new == [id |-> client[c].id, by |-> client[c].q, erased |-> FALSE]
      <4>1. accounts' = accounts \cup {new}
        BY <2>1, <3>2 DEF CreateUser
      <4>2. \A a \in accounts : a.id = new.id => a.erased
        BY <3>2 DEF AccountOf
      <4> QED BY <4>1, <4>2 DEF OneAccountPerIdentifier
    <3> QED BY <3>1, <3>2
  <2>2. ASSUME NEW x \in accounts, eraseUserData(x)
        PROVE  OneAccountPerIdentifier'
    <3> DEFINE row == [id |-> x.id, by |-> x.by, erased |-> TRUE]
    <3>1. accounts' = (accounts \ {x}) \cup {row}
      BY <2>2 DEF eraseUserData
    <3>2. row.erased
      OBVIOUS
    <3> HIDE DEF row
    <3> QED BY <3>1, <3>2 DEF OneAccountPerIdentifier
  <2>3. CASE accounts' = accounts
    BY <2>3 DEF OneAccountPerIdentifier
  <2> QED BY <2>1, <2>2, <2>3, RowWriters DEF vars, db, CreatePreferences
<1> QED BY <1>1, <1>2, PTL DEF Spec
=============================================================================
