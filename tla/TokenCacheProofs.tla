--------------------------- MODULE TokenCacheProofs ---------------------------
(***************************************************************************)
(* Safety of the two token caches, for any number of goroutines, any lease  *)
(* and all bounds.                                                          *)
(***************************************************************************)
EXTENDS TokenCache, TLAPS

-----------------------------------------------------------------------------
(* The invariant.                                                            *)

\* Who logs in holds the mutex; before the login the cache has nothing fresh,
\* after it the newest token is that of the login.
LockInv ==
    \A c \in Callers :
        /\ pc[c] \in {"login", "reply", "store"} => mu = c
        /\ pc[c] = "login" => ~Fresh
        /\ pc[c] \in {"reply", "store"} => bearer[c] = Len(tokens) /\ bearer[c] # 0
        /\ pc[c] = "store" => current = bearer[c]

\* The expiry that is cached is that of the token that is cached, except while
\* SetToken has set the one and not the other.
ExpiryInv ==
    /\ current # 0 /\ (\A c \in Callers : pc[c] # "store")
            => expiresAt = tokens[current].storedAt + Lease
    /\ \A token \in DOMAIN tokens : tokens[token].storedAt <= now

\* A call starts with no request and never sends more than it may.
RequestInv ==
    \A c \in Callers :
        /\ pc[c] \in {"lock", "login", "reply", "store"} => requests[c] = 0
        /\ pc[c] = "request" => requests[c] < RequestsOfCall

CacheInv == TypeOK /\ LockInv /\ ExpiryInv /\ RequestInv /\ CarriesCheckedToken

-----------------------------------------------------------------------------
(* The steps.                                                                *)

\* What the type of the tokens says of one of them.
LEMMA TokenFacts ==
    ASSUME TypeOK
    PROVE  /\ Len(tokens) \in Nat /\ DOMAIN tokens = 1 .. Len(tokens)
           /\ \A token \in 1 .. Len(tokens) :
                tokens[token] \in Token /\ tokens[token].storedAt \in Nat
<1>1. /\ Len(tokens) \in Nat /\ DOMAIN tokens = 1 .. Len(tokens)
      /\ \A token \in 1 .. Len(tokens) : tokens[token] \in Token
  BY DEF TypeOK
<1>2. \A t \in Token : t.storedAt \in Nat
  BY DEF Token
<1> QED
  BY <1>1, <1>2

\* What is left of the budget.
LEMMA SpendFacts ==
    ASSUME TypeOK, NEW kind \in {"faults", "revocations"}, Spend(kind)
    PROVE  budget' \in [faults : Nat, revocations : Nat]
  BY DEF TypeOK, Spend

\* What a login appends.
LEMMA LoginFacts ==
    ASSUME TypeOK, NEW c \in Callers, Login(c)
    PROVE  /\ tokens' \in Seq(Token) /\ Len(tokens') = Len(tokens) + 1
           /\ \A token \in 1 .. Len(tokens) : tokens'[token] = tokens[token]
           /\ tokens'[Len(tokens) + 1].storedAt = 0
<1> DEFINE new == [issuedAt |-> now, storedAt |-> 0, revoked |-> FALSE]
<1>1. FALSE \in BOOLEAN
  OBVIOUS
<1>2. new \in Token /\ new.storedAt = 0
  BY <1>1 DEF TypeOK, Token
<1> HIDE DEF new
<1>3. tokens' = Append(tokens, new)
  BY DEF Login, new
<1> QED
  BY <1>2, <1>3 DEF TypeOK

\* What StoreExpiry notes of the token.
LEMMA StoreFacts ==
    ASSUME TypeOK, NEW c \in Callers, StoreExpiry(c), bearer[c] # 0
    PROVE  /\ tokens' \in Seq(Token) /\ Len(tokens') = Len(tokens)
           /\ \A token \in 1 .. Len(tokens) :
                tokens'[token].storedAt =
                    IF token = bearer[c] THEN now ELSE tokens[token].storedAt
<1> DEFINE new == [tokens[bearer[c]] EXCEPT !.storedAt = now]
<1>1. bearer[c] \in 1 .. Len(tokens) /\ now \in Nat
  BY TokenFacts DEF TypeOK
<1>2. \A t \in Token :
        /\ [t EXCEPT !.storedAt = now] \in Token
        /\ [t EXCEPT !.storedAt = now].storedAt = now
  BY <1>1 DEF Token
<1>3. new \in Token /\ new.storedAt = now
  BY <1>1, <1>2, TokenFacts
<1> HIDE DEF new
<1>4. tokens' = [tokens EXCEPT ![bearer[c]] = new]
  BY DEF StoreExpiry, new
<1> QED
  BY <1>1, <1>3, <1>4, TokenFacts DEF TypeOK

\* A revocation keeps everything but that.
LEMMA RevokeFacts ==
    ASSUME TypeOK, NEW token \in DOMAIN tokens, Revoke(token)
    PROVE  /\ tokens' \in Seq(Token) /\ Len(tokens') = Len(tokens)
           /\ \A t \in 1 .. Len(tokens) : tokens'[t].storedAt = tokens[t].storedAt
<1> DEFINE new == [tokens[token] EXCEPT !.revoked = TRUE]
<1>1. TRUE \in BOOLEAN
  OBVIOUS
<1>2. new \in Token /\ new.storedAt = tokens[token].storedAt
  BY <1>1, TokenFacts DEF TypeOK, Token
<1> HIDE DEF new
<1>3. tokens' = [tokens EXCEPT ![token] = new]
  BY DEF Revoke, new
<1> QED
  BY <1>2, <1>3, TokenFacts DEF TypeOK

\* A call that starts has no token yet.
LEMMA CallKeeps ==
    ASSUME CacheInv, NEW c \in Callers, Call(c)
    PROVE  CacheInv'
<1>1. TypeOK'
  BY TokenAssumption DEF CacheInv, TypeOK, PC, Call, cacheVars
<1>2. LockInv'
  BY TokenAssumption DEF CacheInv, TypeOK, LockInv, PC, Call, Fresh, cacheVars
<1>3. ExpiryInv'
  BY TokenAssumption, TokenFacts DEF CacheInv, TypeOK, LockInv, ExpiryInv, Call,
                                     cacheVars
<1>4. RequestInv'
  BY TokenAssumption DEF CacheInv, TypeOK, RequestInv, RequestsOfCall, Call, cacheVars
<1>5. CarriesCheckedToken'
  BY TokenAssumption, TokenFacts DEF CacheInv, TypeOK, LockInv, ExpiryInv,
                                     CarriesCheckedToken, Carried, Call, Fresh,
                                     cacheVars
<1> QED
  BY <1>1, <1>2, <1>3, <1>4, <1>5 DEF CacheInv

\* A call is given a token that is fresh, and nobody is about to replace it.
LEMMA AuthenticateCachedKeeps ==
    ASSUME CacheInv, NEW c \in Callers, AuthenticateCached(c)
    PROVE  CacheInv'
<1>1. TypeOK'
  BY TokenAssumption DEF CacheInv, TypeOK, LockInv, RequestInv, RequestsOfCall, PC,
                         AuthenticateCached, Authenticated, Unlocked, cacheVars
<1>2. LockInv'
  BY TokenAssumption DEF CacheInv, TypeOK, LockInv, PC, AuthenticateCached,
                         Authenticated, Fresh, Unlocked, cacheVars
<1>3. ExpiryInv'
  BY TokenAssumption, TokenFacts DEF CacheInv, TypeOK, LockInv, ExpiryInv,
                                     AuthenticateCached, Authenticated, Unlocked,
                                     cacheVars
<1>4. RequestInv'
  BY TokenAssumption DEF CacheInv, TypeOK, RequestInv, RequestsOfCall,
                         AuthenticateCached, Authenticated, Unlocked, cacheVars
<1>5. CarriesCheckedToken'
  <2>1. \A d \in Callers : pc[d] # "store"
    BY TokenAssumption DEF CacheInv, LockInv, AuthenticateCached, Unlocked
  <2>2. current # 0 /\ now < tokens[current].storedAt + Lease
    BY <2>1 DEF CacheInv, ExpiryInv, AuthenticateCached, Fresh
  <2>3. SUFFICES ASSUME NEW d \in Callers, pc'[d] = "request"
                 PROVE  /\ Carried(d)' >= bearer'[d] /\ bearer'[d] # 0
                        /\ checkedAt'[d] < tokens'[bearer'[d]].storedAt + Lease
    BY DEF CarriesCheckedToken
  <2>4. CASE d = c
    BY <2>2, <2>4 DEF CacheInv, TypeOK, Carried, AuthenticateCached, Authenticated,
                      cacheVars
  <2>5. CASE d # c
    BY <2>3, <2>5 DEF CacheInv, TypeOK, CarriesCheckedToken, Carried, AuthenticateCached,
                      Authenticated, cacheVars
  <2> QED
    BY <2>4, <2>5
<1> QED
  BY <1>1, <1>2, <1>3, <1>4, <1>5 DEF CacheInv

\* The mutex was free, so nobody else logs in.
LEMMA AuthenticateLockedKeeps ==
    ASSUME CacheInv, NEW c \in Callers, AuthenticateLocked(c)
    PROVE  CacheInv'
<1>1. TypeOK'
  BY TokenAssumption DEF CacheInv, TypeOK, LockInv, RequestInv, RequestsOfCall, PC,
                         AuthenticateLocked, Unlocked
<1>2. LockInv'
  BY TokenAssumption DEF CacheInv, TypeOK, LockInv, PC, AuthenticateLocked, Fresh,
                         Unlocked
<1>3. ExpiryInv'
  BY TokenAssumption, TokenFacts DEF CacheInv, TypeOK, LockInv, ExpiryInv,
                                     AuthenticateLocked, Unlocked
<1>4. RequestInv'
  BY TokenAssumption DEF CacheInv, TypeOK, RequestInv, RequestsOfCall,
                         AuthenticateLocked, Unlocked
<1>5. CarriesCheckedToken'
  BY TokenAssumption, TokenFacts DEF CacheInv, TypeOK, LockInv, ExpiryInv,
                                     CarriesCheckedToken, Carried, AuthenticateLocked,
                                     Fresh, Unlocked
<1> QED
  BY <1>1, <1>2, <1>3, <1>4, <1>5 DEF CacheInv

\* The token of the login is the newest, and is not cached yet.
LEMMA LoginKeeps ==
    ASSUME CacheInv, NEW c \in Callers, Login(c)
    PROVE  CacheInv'
<1>1. TypeOK'
  <2>1. bearer' \in [Callers -> 0 .. Len(tokens')] /\ current' \in 0 .. Len(tokens')
    BY TokenFacts, LoginFacts DEF CacheInv, TypeOK, Login, cacheVars
  <2> QED
    BY <2>1, LoginFacts DEF CacheInv, TypeOK, PC, Login, cacheVars
<1>2. LockInv'
  <2>1. mu = c /\ current' = current /\ ~Fresh' /\ bearer'[c] = Len(tokens')
        /\ Len(tokens') # 0
    BY TokenFacts, LoginFacts DEF CacheInv, TypeOK, LockInv, Login, Fresh, cacheVars
  <2>2. \A d \in Callers : d # c => pc'[d] = pc[d] /\ bearer'[d] = bearer[d]
    BY DEF CacheInv, TypeOK, Login
  <2>3. pc'[c] = "reply" /\ mu' = mu
    BY DEF CacheInv, TypeOK, Login, cacheVars
  <2> QED
    BY <2>1, <2>2, <2>3 DEF CacheInv, LockInv
<1>3. ExpiryInv'
  <2>1. \A token \in DOMAIN tokens' : tokens'[token].storedAt <= now'
    BY TokenFacts, LoginFacts DEF CacheInv, TypeOK, ExpiryInv, Login
  <2>2. ASSUME current' # 0, \A d \in Callers : pc'[d] # "store"
        PROVE  expiresAt' = tokens'[current'].storedAt + Lease
    <3>1. \A d \in Callers : pc[d] # "store"
      BY <2>2 DEF CacheInv, TypeOK, Login
    <3>2. current' = current /\ current \in 1 .. Len(tokens)
      BY <2>2, TokenFacts DEF CacheInv, TypeOK, Login, cacheVars
    <3> QED
      BY <3>1, <3>2, LoginFacts DEF CacheInv, ExpiryInv, Login, cacheVars
  <2> QED
    BY <2>1, <2>2 DEF ExpiryInv
<1>4. RequestInv'
  BY TokenAssumption DEF CacheInv, TypeOK, RequestInv, RequestsOfCall, Login,
                         cacheVars
<1>5. CarriesCheckedToken'
  <2>1. SUFFICES ASSUME NEW d \in Callers, pc'[d] = "request"
                 PROVE  /\ Carried(d)' >= bearer'[d] /\ bearer'[d] # 0
                        /\ checkedAt'[d] < tokens'[bearer'[d]].storedAt + Lease
    BY DEF CarriesCheckedToken
  <2>2. /\ d # c /\ pc[d] = "request" /\ bearer'[d] = bearer[d]
        /\ checkedAt'[d] = checkedAt[d] /\ Carried(d)' = Carried(d)
    BY <2>1 DEF CacheInv, TypeOK, Login, Carried, cacheVars
  <2>3. /\ Carried(d) >= bearer[d] /\ bearer[d] \in 1 .. Len(tokens)
        /\ checkedAt[d] < tokens[bearer[d]].storedAt + Lease
    BY <2>2, TokenFacts DEF CacheInv, TypeOK, CarriesCheckedToken
  <2> QED
    BY <2>2, <2>3, LoginFacts DEF CacheInv
<1> QED
  BY <1>1, <1>2, <1>3, <1>4, <1>5 DEF CacheInv

\* The current token becomes the newest: no request goes back to an older one.
LEMMA SetTokenKeeps ==
    ASSUME CacheInv, NEW c \in Callers, SetToken(c)
    PROVE  CacheInv'
<1>1. TypeOK'
  BY TokenAssumption DEF CacheInv, TypeOK, LockInv, RequestInv, RequestsOfCall, PC,
                         SetToken
<1>2. LockInv'
  BY TokenAssumption DEF CacheInv, TypeOK, LockInv, PC, SetToken, Fresh
<1>3. ExpiryInv'
  BY TokenAssumption, TokenFacts DEF CacheInv, TypeOK, LockInv, ExpiryInv, SetToken
<1>4. RequestInv'
  BY TokenAssumption DEF CacheInv, TypeOK, RequestInv, RequestsOfCall, SetToken
<1>5. CarriesCheckedToken'
  <2>1. SUFFICES ASSUME NEW d \in Callers, pc'[d] = "request"
                 PROVE  /\ Carried(d)' >= bearer'[d] /\ bearer'[d] # 0
                        /\ checkedAt'[d] < tokens'[bearer'[d]].storedAt + Lease
    BY DEF CarriesCheckedToken
  <2>2. /\ pc[d] = "request" /\ bearer'[d] = bearer[d] /\ tokens' = tokens
        /\ checkedAt'[d] = checkedAt[d] /\ cache' = cache
    BY <2>1 DEF CacheInv, TypeOK, SetToken
  <2>3. Carried(d) >= bearer[d] /\ bearer[d] \in 1 .. Len(tokens)
        /\ checkedAt[d] < tokens[bearer[d]].storedAt + Lease
    BY <2>2, TokenFacts DEF CacheInv, TypeOK, CarriesCheckedToken
  <2>4. Carried(d)' >= bearer[d]
    BY <2>2, <2>3, TokenFacts DEF CacheInv, TypeOK, LockInv, SetToken, Carried
  <2> QED
    BY <2>2, <2>3, <2>4
<1> QED
  BY <1>1, <1>2, <1>3, <1>4, <1>5 DEF CacheInv

\* The expiry that is stored is that of the token that is stored.
LEMMA StoreExpiryKeeps ==
    ASSUME CacheInv, NEW c \in Callers, StoreExpiry(c)
    PROVE  CacheInv'
<1>0. bearer[c] # 0 /\ bearer[c] = Len(tokens) /\ current = bearer[c] /\ mu = c
  BY DEF CacheInv, LockInv, StoreExpiry
<1>1. TypeOK'
  <2>1. tokens' \in Seq(Token) /\ Len(tokens') = Len(tokens)
    BY <1>0, StoreFacts DEF CacheInv
  <2>2. /\ pc' \in [Callers -> PC] /\ bearer' \in [Callers -> 0 .. Len(tokens)]
        /\ checkedAt' \in [Callers -> Nat]
    BY DEF CacheInv, TypeOK, PC, StoreExpiry, Authenticated
  <2>3. expiresAt' \in Nat /\ mu' \in Callers \cup {None}
    BY TokenAssumption DEF CacheInv, TypeOK, StoreExpiry
  <2> QED
    BY <2>1, <2>2, <2>3 DEF CacheInv, TypeOK, StoreExpiry
<1>2. LockInv'
  <2>1. Len(tokens') = Len(tokens) /\ pc'[c] = "request"
    BY <1>0, StoreFacts DEF CacheInv, TypeOK, StoreExpiry, Authenticated
  <2>2. \A d \in Callers : d # c => pc'[d] = pc[d]
    BY DEF CacheInv, TypeOK, StoreExpiry, Authenticated
  <2>3. \A d \in Callers : d # c => pc[d] \notin {"login", "reply", "store"}
    BY <1>0 DEF CacheInv, LockInv
  <2> QED
    BY <2>1, <2>2, <2>3 DEF LockInv
<1>3. ExpiryInv'
  <2>1. /\ bearer[c] \in 1 .. Len(tokens) /\ DOMAIN tokens' = 1 .. Len(tokens)
        /\ now' = now /\ now \in Nat /\ current' = current /\ expiresAt' = now + Lease
    BY <1>0, TokenFacts, StoreFacts DEF CacheInv, TypeOK, StoreExpiry
  <2>2. \A token \in 1 .. Len(tokens) : tokens[token].storedAt <= now
    BY TokenFacts DEF CacheInv, ExpiryInv
  <2> QED
    BY <1>0, <2>1, <2>2, StoreFacts DEF CacheInv, ExpiryInv
<1>4. RequestInv'
  BY TokenAssumption DEF CacheInv, TypeOK, RequestInv, RequestsOfCall, StoreExpiry,
                         Authenticated
<1>5. CarriesCheckedToken'
  <2>1. /\ now \in Nat /\ bearer[c] \in 1 .. Len(tokens)
        /\ tokens'[bearer[c]].storedAt = now
        /\ \A token \in 1 .. Len(tokens) :
                /\ tokens[token].storedAt \in Nat /\ tokens'[token].storedAt \in Nat
                /\ tokens'[token].storedAt >= tokens[token].storedAt
    <3>1. TypeOK /\ now \in Nat /\ bearer[c] \in 1 .. Len(tokens)
      BY <1>0, TokenFacts DEF CacheInv, TypeOK
    <3>2. \A token \in 1 .. Len(tokens) :
            tokens[token].storedAt \in Nat /\ tokens[token].storedAt <= now
      BY <3>1, TokenFacts DEF CacheInv, ExpiryInv
    <3> QED
      BY <1>0, <3>1, <3>2, StoreFacts
  <2>2. SUFFICES ASSUME NEW d \in Callers, pc'[d] = "request"
                 PROVE  /\ Carried(d)' >= bearer'[d] /\ bearer'[d] # 0
                        /\ checkedAt'[d] < tokens'[bearer'[d]].storedAt + Lease
    BY DEF CarriesCheckedToken
  <2>3. CASE d = c
    BY <1>0, <2>1, <2>3, TokenAssumption
       DEF CacheInv, TypeOK, Carried, StoreExpiry, Authenticated
  <2>4. CASE d # c
    <3>1. /\ Carried(d) >= bearer[d] /\ bearer[d] \in 1 .. Len(tokens)
          /\ checkedAt[d] \in Nat
          /\ checkedAt[d] < tokens[bearer[d]].storedAt + Lease
      BY <2>2, <2>4, TokenFacts
         DEF CacheInv, TypeOK, CarriesCheckedToken, StoreExpiry, Authenticated
    <3>2. /\ Carried(d)' = Carried(d) /\ bearer'[d] = bearer[d]
          /\ checkedAt'[d] = checkedAt[d]
      BY <2>4 DEF CacheInv, TypeOK, Carried, StoreExpiry, Authenticated
    <3>3. Lease \in Nat
      BY TokenAssumption
    <3>4. tokens'[bearer[d]].storedAt \in Nat /\ tokens[bearer[d]].storedAt \in Nat
          /\ tokens'[bearer[d]].storedAt >= tokens[bearer[d]].storedAt
      BY <2>1, <3>1
    <3>5. checkedAt[d] < tokens'[bearer[d]].storedAt + Lease
      BY <3>1, <3>3, <3>4
    <3> QED
      BY <3>1, <3>2, <3>5
  <2> QED
    BY <2>3, <2>4
<1> QED
  BY <1>1, <1>2, <1>3, <1>4, <1>5 DEF CacheInv

\* A login that fails leaves the cache as it was.
LEMMA LoginFailsKeeps ==
    ASSUME CacheInv, NEW c \in Callers, LoginFails(c)
    PROVE  CacheInv'
<1>1. TypeOK'
  <2>1. budget' \in [faults : Nat, revocations : Nat]
    BY SpendFacts DEF CacheInv, LoginFails
  <2> QED
    BY <2>1 DEF CacheInv, TypeOK, PC, LoginFails
<1>2. LockInv'
  BY TokenAssumption DEF CacheInv, TypeOK, LockInv, PC, LoginFails, Fresh, Spend
<1>3. ExpiryInv'
  BY TokenAssumption, TokenFacts DEF CacheInv, TypeOK, LockInv, ExpiryInv, LoginFails,
                                     Spend
<1>4. RequestInv'
  BY TokenAssumption DEF CacheInv, TypeOK, RequestInv, RequestsOfCall, LoginFails,
                         Spend
<1>5. CarriesCheckedToken'
  BY TokenAssumption, TokenFacts DEF CacheInv, TypeOK, LockInv, ExpiryInv,
                                     CarriesCheckedToken, Carried, LoginFails, Fresh,
                                     Spend
<1> QED
  BY <1>1, <1>2, <1>3, <1>4, <1>5 DEF CacheInv

\* A request leaves the cache as it is.
LEMMA RequestKeeps ==
    ASSUME CacheInv, NEW c \in Callers, Request(c)
    PROVE  CacheInv'
<1>1. TypeOK'
  <2>1. requests[c] \in 0 .. MaxRequests /\ requests[c] + 1 <= MaxRequests
    BY TokenAssumption DEF CacheInv, TypeOK, RequestInv, RequestsOfCall, Request
  <2>2. requests' \in [Callers -> 0 .. MaxRequests]
    BY <2>1, TokenAssumption DEF CacheInv, TypeOK, Request
  <2> QED
    BY <2>2 DEF CacheInv, TypeOK, PC, Request, cacheVars
<1>2. LockInv'
  BY TokenAssumption DEF CacheInv, TypeOK, LockInv, PC, Request, More, Fresh,
                         cacheVars
<1>3. ExpiryInv'
  BY TokenAssumption, TokenFacts DEF CacheInv, TypeOK, LockInv, ExpiryInv, Request,
                                     More, cacheVars
<1>4. RequestInv'
  BY TokenAssumption DEF CacheInv, TypeOK, RequestInv, RequestsOfCall, Request, More,
                         cacheVars
<1>5. CarriesCheckedToken'
  BY TokenAssumption, TokenFacts DEF CacheInv, TypeOK, LockInv, ExpiryInv,
                                     CarriesCheckedToken, Carried, Request, More,
                                     Fresh, cacheVars
<1> QED
  BY <1>1, <1>2, <1>3, <1>4, <1>5 DEF CacheInv

\* Time makes nothing fresh.
LEMMA TickKeeps ==
    ASSUME CacheInv, Tick
    PROVE  CacheInv'
<1>1. TypeOK'
  BY TokenAssumption DEF CacheInv, TypeOK, LockInv, RequestInv, RequestsOfCall, PC,
                         Tick, cacheVars, callVars
<1>2. LockInv'
  BY TokenAssumption DEF CacheInv, TypeOK, LockInv, PC, Tick, Fresh, cacheVars,
                         callVars
<1>3. ExpiryInv'
  <2>1. \A token \in DOMAIN tokens : tokens[token].storedAt <= now + 1
    BY TokenFacts DEF CacheInv, TypeOK, ExpiryInv
  <2> QED
    BY <2>1 DEF CacheInv, ExpiryInv, Tick, cacheVars, callVars
<1>4. RequestInv'
  BY TokenAssumption DEF CacheInv, TypeOK, RequestInv, RequestsOfCall, Tick,
                         cacheVars, callVars
<1>5. CarriesCheckedToken'
  BY TokenAssumption, TokenFacts DEF CacheInv, TypeOK, LockInv, ExpiryInv,
                                     CarriesCheckedToken, Carried, Tick, Fresh,
                                     cacheVars, callVars
<1> QED
  BY <1>1, <1>2, <1>3, <1>4, <1>5 DEF CacheInv

\* A revocation does not change when a token was stored.
LEMMA RevokeKeeps ==
    ASSUME CacheInv, NEW token \in DOMAIN tokens, Revoke(token)
    PROVE  CacheInv'
<1>1. TypeOK'
  <2>1. budget' \in [faults : Nat, revocations : Nat]
    BY SpendFacts DEF CacheInv, Revoke
  <2> QED
    BY <2>1, RevokeFacts DEF CacheInv, TypeOK, Revoke, cacheVars, callVars
<1>2. LockInv'
  BY TokenAssumption, TokenFacts, RevokeFacts DEF CacheInv, TypeOK, LockInv, PC,
                                                  Revoke, Fresh, Spend, cacheVars,
                                                  callVars
<1>3. ExpiryInv'
  <2>1. TypeOK /\ DOMAIN tokens = 1 .. Len(tokens) /\ Len(tokens) \in Nat
    BY TokenFacts DEF CacheInv
  <2>2. /\ tokens' \in Seq(Token) /\ Len(tokens') = Len(tokens)
        /\ \A t \in DOMAIN tokens : tokens'[t].storedAt = tokens[t].storedAt
    BY <2>1, RevokeFacts
  <2>3. DOMAIN tokens' = DOMAIN tokens
    BY <2>1, <2>2
  <2>4. current # 0 => current \in DOMAIN tokens
    BY <2>1 DEF TypeOK
  <2> QED
    BY <2>2, <2>3, <2>4 DEF CacheInv, ExpiryInv, Revoke, cacheVars, callVars
<1>4. RequestInv'
  BY TokenAssumption DEF CacheInv, TypeOK, RequestInv, RequestsOfCall, Revoke, Spend,
                         cacheVars, callVars
<1>5. CarriesCheckedToken'
  <2>1. ASSUME NEW d \in Callers, pc[d] = "request"
        PROVE  bearer[d] \in 1 .. Len(tokens)
    BY <2>1, TokenFacts DEF CacheInv, TypeOK, CarriesCheckedToken
  <2>2. \A t \in 1 .. Len(tokens) : tokens'[t].storedAt = tokens[t].storedAt
    BY RevokeFacts DEF CacheInv
  <2> QED
    BY <2>1, <2>2 DEF CacheInv, CarriesCheckedToken, Carried, Revoke, cacheVars, callVars
<1> QED
  BY <1>1, <1>2, <1>3, <1>4, <1>5 DEF CacheInv

-----------------------------------------------------------------------------
(* The theorems.                                                             *)

\* The invariant holds before the first call.
LEMMA InitCache == Init => CacheInv
<1> SUFFICES ASSUME Init PROVE CacheInv
  OBVIOUS
<1>1. Len(tokens) = 0 /\ DOMAIN tokens = {} /\ tokens \in Seq(Token)
  BY DEF Init
<1>2. TypeOK
  BY <1>1, TokenAssumption DEF Init, TypeOK, PC
<1>3. LockInv /\ ExpiryInv /\ RequestInv /\ CarriesCheckedToken
  BY <1>1 DEF Init, LockInv, ExpiryInv, RequestInv, CarriesCheckedToken
<1> QED
  BY <1>2, <1>3 DEF CacheInv

\* Every step keeps the invariant.
LEMMA NextKeeps ==
    ASSUME CacheInv, [Next]_vars
    PROVE  CacheInv'
<1>1. ASSUME NEW c \in Callers, Call(c) \/ Step(c)
      PROVE  CacheInv'
  BY <1>1, CallKeeps, AuthenticateCachedKeeps, AuthenticateLockedKeeps, LoginKeeps,
     SetTokenKeeps, StoreExpiryKeeps, LoginFailsKeeps, RequestKeeps DEF Step
<1>2. CASE UNCHANGED vars
  BY <1>2 DEF CacheInv, TypeOK, LockInv, Fresh, ExpiryInv, RequestInv, RequestsOfCall,
              CarriesCheckedToken, Carried, vars, callVars, cacheVars
<1> QED
  BY <1>1, <1>2, TickKeeps, RevokeKeeps DEF Next

\* The invariant holds in every reachable state.
THEOREM CacheInvariant == Spec => []CacheInv
  BY InitCache, NextKeeps, PTL DEF Spec

\* Every variable of the token caches keeps its type.
THEOREM CacheTypes == Spec => []TypeOK
<1>1. CacheInv => TypeOK
  BY DEF CacheInv
<1> QED
  BY <1>1, CacheInvariant, PTL

\* A token is given to a call only within the lease that is counted for it, and
\* no request carries an older one.
THEOREM CheckedTokensOnly == Spec => []CarriesCheckedToken
<1>1. CacheInv => CarriesCheckedToken
  BY DEF CacheInv
<1> QED
  BY <1>1, CacheInvariant, PTL

\* However many calls find the cache empty or expired at once, one logs in.
THEOREM LoginsAreSingle == Spec => OneLoginPerLease
<1>1. ASSUME CacheInv, [Next]_vars, Len(tokens') > Len(tokens)
      PROVE  current = 0 \/ now >= expiresAt
  <2>1. TypeOK /\ Len(tokens) \in Nat
    BY <1>1, TokenFacts DEF CacheInv
  <2>2. ASSUME NEW c \in Callers, Login(c)
        PROVE  current = 0 \/ now >= expiresAt
    BY <1>1, <2>1, <2>2 DEF CacheInv, LockInv, Login, Fresh, TypeOK
  <2>3. ASSUME NEW c \in Callers, StoreExpiry(c)
        PROVE  FALSE
    <3>1. bearer[c] # 0
      BY <1>1, <2>3 DEF CacheInv, LockInv, StoreExpiry
    <3> QED
      BY <1>1, <2>1, <2>3, <3>1, StoreFacts
  <2>4. ASSUME NEW token \in DOMAIN tokens, Revoke(token)
        PROVE  FALSE
    BY <1>1, <2>1, <2>4, RevokeFacts
  <2>5. CASE tokens' = tokens
    BY <1>1, <2>1, <2>5
  <2>6. ASSUME NEW c \in Callers,
               Call(c) \/ AuthenticateCached(c) \/ AuthenticateLocked(c) \/ SetToken(c)
                    \/ LoginFails(c) \/ Request(c)
        PROVE  tokens' = tokens
    BY <2>6 DEF Call, AuthenticateCached, AuthenticateLocked, SetToken, LoginFails,
                Request
  <2>7. Tick \/ UNCHANGED vars => tokens' = tokens
    BY DEF Tick, vars
  <2> QED
    BY <1>1, <2>2, <2>3, <2>4, <2>5, <2>6, <2>7 DEF Next, Step
<1>2. CacheInv /\ [Next]_vars
        => [Len(tokens') > Len(tokens) => current = 0 \/ now >= expiresAt]_vars
  BY <1>1
<1> QED
  BY <1>2, CacheInvariant, PTL DEF Spec, OneLoginPerLease

=============================================================================
