----------------------------- MODULE TokenCache -----------------------------
(***************************************************************************)
(* The two caches of access tokens, AppRoleAuthenticator with the           *)
(* AuthenticatedClient that asks it before every call to Vault, and the     *)
(* iamInterceptor of Cloud.ru, used by gRPC handlers and the synchronizer   *)
(* at the same time.                                                       *)
(*                                                                         *)
(* They differ in what a request carries: the Vault client has one current  *)
(* token, so a request carries the one that is current when it is sent,     *)
(* while the interceptor puts the token that it was given into the request. *)
(* A Vault call may also be several requests after one authentication.      *)
(***************************************************************************)
EXTENDS Naturals, Sequences

CONSTANTS
    Callers,            \* goroutines
    None,               \* nobody holds the mutex
    Lease,              \* what a token is issued for, in units of the clock
    MaxRequests,        \* bound: requests of one Vault call
    MaxFaults,          \* bound: logins that fail
    MaxRevocations,     \* bound: tokens that are revoked
    MaxTime             \* bound: the clock

ASSUME TokenAssumption ==
    /\ None \notin Callers
    /\ {Lease, MaxRequests} \subseteq Nat \ {0}
    /\ {MaxFaults, MaxRevocations, MaxTime} \subseteq Nat

VARIABLES
    cache,      \* which of the two this is
    now,        \* the clock
    mu,         \* who holds the mutex
    current,    \* the token that is cached, 0: none
    expiresAt,  \* until when it is taken for valid
    pc,         \* where a call is
    bearer,     \* the token that a call was given
    requests,   \* requests that a call has sent
    checkedAt,  \* when it was told that the token is valid
    tokens,     \* the tokens that were issued, and when
    budget      \* what the environment may still do

callVars == <<pc, bearer, requests, checkedAt>>
cacheVars == <<mu, current, expiresAt>>
vars == <<cache, now, cacheVars, callVars, tokens, budget>>

Caches == {"vault", "cloudru"}
PC == {"idle", "lock", "login", "reply", "store", "request"}
Token == [issuedAt : Nat, storedAt : Nat, revoked : BOOLEAN]

-----------------------------------------------------------------------------
(* The issuer.                                                               *)

Accepts(token) ==
    /\ token # 0
    /\ ~tokens[token].revoked
    /\ now < tokens[token].issuedAt + Lease

\* What a request carries.
Carried(c) == IF cache = "vault" THEN current ELSE bearer[c]

RequestsOfCall == IF cache = "vault" THEN MaxRequests ELSE 1

Spend(kind) == budget[kind] > 0 /\ budget' = [budget EXCEPT ![kind] = @ - 1]

-----------------------------------------------------------------------------
(* A call.                                                                   *)

\* Mutant of Unlocked: there is no mutex.
UnlockedAlways == TRUE

Unlocked == mu = None

\* Mutant of Fresh: an expiry that is right now is still good.
FreshAtExpiry == current # 0 /\ now <= expiresAt

Fresh == current # 0 /\ now < expiresAt

Call(c) ==
    /\ pc[c] = "idle"
    /\ pc' = [pc EXCEPT ![c] = "lock"]
    /\ requests' = [requests EXCEPT ![c] = 0]
    /\ UNCHANGED <<cache, now, cacheVars, bearer, checkedAt, tokens, budget>>

\* The call has its token and goes on to its requests.
Authenticated(c) ==
    /\ pc' = [pc EXCEPT ![c] = "request"]
    /\ bearer' = [bearer EXCEPT ![c] = current]
    /\ checkedAt' = [checkedAt EXCEPT ![c] = now]

AuthenticateCached(c) ==
    /\ pc[c] = "lock"
    /\ Unlocked
    /\ Fresh
    /\ Authenticated(c)
    /\ UNCHANGED <<cache, now, cacheVars, requests, tokens, budget>>

AuthenticateLocked(c) ==
    /\ pc[c] = "lock"
    /\ Unlocked
    /\ ~Fresh
    /\ mu' = c
    /\ pc' = [pc EXCEPT ![c] = "login"]
    /\ UNCHANGED <<cache, now, current, expiresAt, bearer, requests, checkedAt,
                   tokens, budget>>

\* The login reaches the issuer.
Login(c) ==
    /\ pc[c] = "login"
    /\ tokens' = Append(tokens, [issuedAt |-> now, storedAt |-> 0, revoked |-> FALSE])
    /\ bearer' = [bearer EXCEPT ![c] = Len(tokens')]
    /\ pc' = [pc EXCEPT ![c] = "reply"]
    /\ UNCHANGED <<cache, now, cacheVars, requests, checkedAt, budget>>

\* SetToken: the requests of others carry it from now on.
SetToken(c) ==
    /\ pc[c] = "reply"
    /\ current' = bearer[c]
    /\ pc' = [pc EXCEPT ![c] = "store"]
    /\ UNCHANGED <<cache, now, mu, expiresAt, bearer, requests, checkedAt, tokens,
                   budget>>

\* The lease is counted from now, not from when the token was issued.
StoreExpiry(c) ==
    /\ pc[c] = "store"
    /\ expiresAt' = now + Lease
    /\ tokens' = [tokens EXCEPT ![bearer[c]].storedAt = now]
    /\ mu' = None
    /\ Authenticated(c)
    /\ UNCHANGED <<cache, now, current, requests, budget>>

\* Mutant of LoginFails: the mutex is not unlocked on this way out.
LoginFailsLocked(c) ==
    /\ pc[c] \in {"login", "reply"}
    /\ Spend("faults")
    /\ pc' = [pc EXCEPT ![c] = "idle"]
    /\ UNCHANGED <<cache, now, cacheVars, bearer, requests, checkedAt, tokens>>

\* With or without a token having been issued.
LoginFails(c) ==
    /\ pc[c] \in {"login", "reply"}
    /\ Spend("faults")
    /\ pc' = [pc EXCEPT ![c] = "idle"]
    /\ mu' = None
    /\ UNCHANGED <<cache, now, current, expiresAt, bearer, requests, checkedAt,
                   tokens>>

\* Mutant of More: one request too many.
MoreTooOften(c) == requests[c] <= RequestsOfCall

\* CreateSecretKey reads and writes several times, other calls send one request.
More(c) == requests'[c] < RequestsOfCall

\* A request that is denied ends the call.  The cache is left as it is.
Request(c) ==
    /\ pc[c] = "request"
    /\ requests' = [requests EXCEPT ![c] = @ + 1]
    /\ \/ pc' = [pc EXCEPT ![c] = "idle"]
       \/ Accepts(Carried(c)) /\ More(c) /\ UNCHANGED pc
    /\ UNCHANGED <<cache, now, cacheVars, bearer, checkedAt, tokens, budget>>

-----------------------------------------------------------------------------

Tick ==
    /\ now < MaxTime
    /\ now' = now + 1
    /\ UNCHANGED <<cache, cacheVars, callVars, tokens, budget>>

Revoke(token) ==
    /\ Spend("revocations")
    /\ ~tokens[token].revoked
    /\ tokens' = [tokens EXCEPT ![token].revoked = TRUE]
    /\ UNCHANGED <<cache, now, cacheVars, callVars>>

Init ==
    /\ cache \in Caches
    /\ now = 0
    /\ mu = None /\ current = 0 /\ expiresAt = 0
    /\ pc = [c \in Callers |-> "idle"]
    /\ bearer = [c \in Callers |-> 0]
    /\ requests = [c \in Callers |-> 0]
    /\ checkedAt = [c \in Callers |-> 0]
    /\ tokens = << >>
    /\ budget = [faults |-> MaxFaults, revocations |-> MaxRevocations]

Step(c) ==
    \/ AuthenticateCached(c) \/ AuthenticateLocked(c)
    \/ Login(c) \/ SetToken(c) \/ StoreExpiry(c) \/ LoginFails(c)
    \/ Request(c)

Next ==
    \/ \E c \in Callers : Call(c) \/ Step(c)
    \/ Tick
    \/ \E token \in DOMAIN tokens : Revoke(token)

Spec == Init /\ [][Next]_vars

\* Goroutines run and replies arrive.  A goroutine that waits for the mutex gets
\* it in the end although others take it again and again: Go's mutex hands it to
\* a waiter that has starved.
FairSpec == Spec /\ \A c \in Callers : SF_vars(Step(c))

-----------------------------------------------------------------------------

TypeOK ==
    /\ cache \in Caches
    /\ now \in Nat
    /\ mu \in Callers \cup {None}
    /\ tokens \in Seq(Token)
    /\ current \in 0 .. Len(tokens)
    /\ expiresAt \in Nat
    /\ pc \in [Callers -> PC]
    /\ bearer \in [Callers -> 0 .. Len(tokens)]
    /\ requests \in [Callers -> 0 .. MaxRequests]
    /\ checkedAt \in [Callers -> Nat]
    /\ budget \in [faults : Nat, revocations : Nat]

\* However many calls find the cache empty or expired at once, one of them
\* logs in: no login is sent while a token is cached that is not expired.
OneLoginPerLease ==
    [][Len(tokens') > Len(tokens) => current = 0 \/ now >= expiresAt]_vars

\* A token is given to a call only within the lease that is counted for it, and
\* what a request then carries is that token or a later one.  So without a
\* revocation a request is denied only if the call was still going on when the
\* lease ended, or if it began in the time after the end of the lease that the
\* login itself had taken.
CarriesCheckedToken ==
    \A c \in Callers : pc[c] = "request" =>
        /\ Carried(c) >= bearer[c]
        /\ bearer[c] # 0
        /\ checkedAt[c] < tokens[bearer[c]].storedAt + Lease

\* A call does not wait for ever for the mutex, whoever failed to log in before.
CallsEnd == \A c \in Callers : pc[c] = "lock" ~> pc[c] = "idle"

=============================================================================
