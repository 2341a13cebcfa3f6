----------------------------- MODULE TokenGate -----------------------------
(***************************************************************************)
(* infrastructure/token-gate-server: sign-in with a wallet, gated on a     *)
(* token balance.  A client fetches a nonce, signs a message with it, and  *)
(* /auth/verify answers with a JWT if the account holds enough tokens;     *)
(* /auth/refresh renews a JWT that is about to expire, reading the balance *)
(* again.  Requests share one event loop: an action is what runs between   *)
(* two awaits, and balances move while a request awaits the node.          *)
(***************************************************************************)
EXTENDS Integers, FiniteSets

CONSTANTS
    Client,       \* accounts
    Amounts,      \* balances accounts may have, in raw units
    Threshold,    \* VFT_THRESHOLD_HUMAN * 10 ** VFT_DECIMALS
    Exact,        \* 2 ** 53: the naturals below are Numbers, fewer in the runs
    Slot,         \* requests the server works on at the same time
    Nonces,       \* bound on the nonces issued
    MaxTime,      \* bound on the clock, in seconds
    NonceTTL,     \* NONCE_TTL
    JwtTTL,       \* JWT_TTL_MIN, in the seconds of the clock
    RefreshMin,   \* REFRESH_MIN_REMAIN
    Skew,         \* CLOCK_SKEW_MS
    Durations,    \* values of ExpiresIn in signed messages, 0 for malformed
    Recheck,      \* RECHECK_ON_REFRESH
    MaxLatency    \* the longest a balance read is under way

ASSUME GateAssumption ==
    /\ {Nonces, MaxTime, NonceTTL, JwtTTL, RefreshMin, Skew, MaxLatency} \subseteq Nat
    /\ Durations \subseteq Nat
    /\ Amounts \subseteq Nat
    /\ {Threshold, Exact} \subseteq Nat \ {0}
    /\ IsFiniteSet(Slot)
    /\ Recheck \in BOOLEAN

VARIABLES
    now,         \* Date.now()
    balance,     \* balance[c]: c's tokens
    lastHeld,    \* lastHeld[c]: the last moment they were enough, or Never
    nonceStore,  \* nonce -> expiry, for the nonces in the store
    issued,      \* how many nonces were issued: the next nonce
    grants,      \* grants[n]: JWTs that /auth/verify gave for nonce n
    tokens,      \* the JWTs that clients hold
    gearApi,     \* the connection getApi() returns, 0 for null
    connections, \* how many GearApi.create succeeded
    slot         \* slot[s]: the request s is working on

vars == <<now, balance, lastHeld, nonceStore, issued, grants, tokens,
          gearApi, connections, slot>>

accounts == <<balance, lastHeld>>
stores   == <<nonceStore, issued, grants, tokens>>

Never == -1

-----------------------------------------------------------------------------
Nonce == 0 .. Nonces - 1
Token == [sub : Client, exp : Nat]

(* A request after its first await: for whom, for which nonce (verify) or  *)
(* none (refresh), and what the node answered.                             *)
Request == [phase : {"api", "creating", "reading", "read"}, sub : Client,
            nonce : Nonce \cup {Never}, enough : BOOLEAN, since : Nat]
Idle == [phase |-> "idle"]

TypeOK == /\ now \in 0 .. MaxTime
          /\ balance \in [Client -> Amounts]
          /\ lastHeld \in [Client -> {Never} \cup 0 .. MaxTime]
          /\ DOMAIN nonceStore \subseteq Nonce
          /\ \A n \in DOMAIN nonceStore : nonceStore[n] \in Nat
          /\ issued \in 0 .. Nonces
          /\ grants \in [Nonce -> Nat]
          /\ tokens \in SUBSET Token
          /\ gearApi \in Nat
          /\ connections \in Nat
          /\ slot \in [Slot -> Request \cup {Idle}]

(* The distance between the Numbers around x: it doubles with x. *)
Ulp[x \in Nat] == IF x < Exact THEN 1 ELSE 2 * Ulp[x \div 2]

(* Mutant: rounding goes up. *)
NumberUp(x) == -((-x) \div Ulp[x]) * Ulp[x]

(* Number(result): the nearest Number, of two the one with the even        *)
(* significand.                                                            *)
Number(x) ==
    LET u == Ulp[x]
        q == x \div u
        twice == 2 * (x % u)
    IN  IF twice > u \/ (twice = u /\ q % 2 = 1) THEN (q + 1) * u ELSE q * u

(* At the threshold, or short of it by what rounding may hide. *)
Close(x) == 2 * (Threshold - x) <= Ulp[Threshold]

Init == /\ now = 0
        /\ \E b \in Amounts : /\ ~Close(b)
                              /\ balance = [c \in Client |-> b]
        /\ lastHeld = [c \in Client |-> Never]
        /\ nonceStore = [n \in {} |-> 0]
        /\ issued = 0
        /\ grants = [n \in Nonce |-> 0]
        /\ tokens = {}
        /\ gearApi = 0
        /\ connections = 0
        /\ slot = [s \in Slot |-> Idle]

-----------------------------------------------------------------------------
(* The world: tokens change hands, time passes.  A read that reached the   *)
(* node comes back within MaxLatency.                                      *)

Transfer(c) ==
    /\ \E b \in Amounts \ {balance[c]} :
         /\ balance' = [balance EXCEPT ![c] = b]
         /\ lastHeld' = IF Close(b) \/ Close(balance[c])
                        THEN [lastHeld EXCEPT ![c] = now] ELSE lastHeld
    /\ UNCHANGED <<now, stores, gearApi, connections, slot>>

Waiting(s) == slot[s].phase = "read" /\ now - slot[s].since >= MaxLatency

Tick == /\ now < MaxTime
        /\ \A s \in Slot : ~Waiting(s)
        /\ now' = now + 1
        /\ lastHeld' = [c \in Client |->
                          IF Close(balance[c]) THEN now + 1 ELSE lastHeld[c]]
        /\ UNCHANGED <<balance, stores, gearApi, connections, slot>>

-----------------------------------------------------------------------------
(* POST /auth/nonce *)
IssueNonce ==
    /\ issued < Nonces
    /\ nonceStore' = [n \in DOMAIN nonceStore \cup {issued} |->
                        IF n = issued THEN now + NonceTTL ELSE nonceStore[n]]
    /\ issued' = issued + 1
    /\ UNCHANGED <<now, accounts, grants, tokens, gearApi, connections, slot>>

(* issuedAt is the client's clock, which may be ahead of the server's. *)
IsMessageFresh(issuedAt, dur) == /\ dur > 0
                                 /\ now >= issuedAt - Skew
                                 /\ now <= issuedAt + dur + Skew

(* Mutant: a nonce is looked up and left in the store. *)
ConsumeNothing(n) == UNCHANGED nonceStore

ConsumeNonce(n) ==
    nonceStore' = [m \in DOMAIN nonceStore \ {n} |-> nonceStore[m]]

(* The checks of /auth/verify up to its first await; wellSigned stands for *)
(* the domain, chain id and signature checks.  They come after the nonce   *)
(* is consumed, so a message that fails them costs its nonce.              *)
Verify(s, c, n, wellSigned, issuedAt, dur) ==
    /\ slot[s] = Idle
    /\ n \in DOMAIN nonceStore
    /\ ConsumeNonce(n)
    /\ slot' = IF nonceStore[n] > now /\ wellSigned /\ IsMessageFresh(issuedAt, dur)
               THEN [slot EXCEPT ![s] =
                       [phase |-> "api", sub |-> c, nonce |-> n,
                        enough |-> FALSE, since |-> now]]
               ELSE slot
    /\ UNCHANGED <<now, accounts, issued, grants, tokens, gearApi, connections>>

(* jwt.verify accepts a token until its expiry. *)
Valid(t) == now < t.exp

JwtFor(c) == [sub |-> c, exp |-> now + JwtTTL]

(* POST /auth/refresh: a token with time left is returned as it is; one    *)
(* that is about to expire is renewed, after a new balance check if        *)
(* RECHECK_ON_REFRESH is set.                                              *)
Refresh(s, t) ==
    /\ slot[s] = Idle
    /\ Valid(t)
    /\ t.exp - now <= RefreshMin
    /\ IF Recheck
       THEN /\ slot' = [slot EXCEPT ![s] =
                          [phase |-> "api", sub |-> t.sub, nonce |-> Never,
                           enough |-> FALSE, since |-> now]]
            /\ UNCHANGED tokens
       ELSE /\ tokens' = tokens \cup {JwtFor(t.sub)}
            /\ UNCHANGED slot
    /\ UNCHANGED <<now, accounts, nonceStore, issued, grants, gearApi, connections>>

-----------------------------------------------------------------------------
(* getApi(): the connection is kept after the first create that completes. *)

MoveTo(s, phase) == slot' = [slot EXCEPT ![s].phase = phase]

(* Mutant: the connection is never kept. *)
AlwaysCreate(s) ==
    /\ slot[s].phase = "api"
    /\ MoveTo(s, "creating")
    /\ UNCHANGED <<now, accounts, stores, gearApi, connections>>

GetApi(s) ==
    /\ slot[s].phase = "api"
    /\ MoveTo(s, IF gearApi = 0 THEN "creating" ELSE "reading")
    /\ UNCHANGED <<now, accounts, stores, gearApi, connections>>

ApiCreated(s) ==
    /\ slot[s].phase = "creating"
    /\ connections' = connections + 1
    /\ gearApi' = connections + 1
    /\ MoveTo(s, "reading")
    /\ UNCHANGED <<now, accounts, stores>>

(* GearApi.create rejects: the request is answered with an error. *)
ApiFails(s) ==
    /\ slot[s].phase = "creating"
    /\ slot' = [slot EXCEPT ![s] = Idle]
    /\ UNCHANGED <<now, accounts, stores, gearApi, connections>>

(* balanceOf is evaluated on the node now and its reply arrives later; an  *)
(* error counts as a balance of 0, which is not enough.                    *)
NodeReads(s) ==
    /\ slot[s].phase = "reading"
    /\ \E enough \in BOOLEAN :
         /\ enough => Number(balance[slot[s].sub]) >= Threshold
         /\ slot' = [slot EXCEPT ![s] = [@ EXCEPT !.phase = "read",
                                                  !.enough = enough,
                                                  !.since = now]]
    /\ UNCHANGED <<now, accounts, stores, gearApi, connections>>

(* 403, or a new JWT. *)
Answer(s) ==
    /\ slot[s].phase = "read"
    /\ slot' = [slot EXCEPT ![s] = Idle]
    /\ tokens' = IF slot[s].enough
                 THEN tokens \cup {JwtFor(slot[s].sub)} ELSE tokens
    /\ grants' = IF slot[s].enough /\ slot[s].nonce # Never
                 THEN [grants EXCEPT ![slot[s].nonce] = @ + 1] ELSE grants
    /\ UNCHANGED <<now, accounts, nonceStore, issued, gearApi, connections>>

(* Clients drop tokens that have expired; no endpoint accepts them. *)
Forget(t) == /\ ~Valid(t)
             /\ tokens' = tokens \ {t}
             /\ UNCHANGED <<now, accounts, nonceStore, issued, grants,
                            gearApi, connections, slot>>

-----------------------------------------------------------------------------
Next == \/ Tick
        \/ \E c \in Client : Transfer(c)
        \/ IssueNonce
        \/ \E s \in Slot :
             \/ \E c \in Client, n \in DOMAIN nonceStore, w \in BOOLEAN,
                   i \in 0 .. MaxTime, d \in Durations : Verify(s, c, n, w, i, d)
             \/ \E t \in tokens : Refresh(s, t)
             \/ GetApi(s) \/ ApiCreated(s) \/ ApiFails(s)
             \/ NodeReads(s) \/ Answer(s)
        \/ \E t \in tokens : Forget(t)

Spec == Init /\ [][Next]_vars

-----------------------------------------------------------------------------
(* Properties.                                                             *)

(* auth.ts: "each nonce can only be used once".  However requests overlap, *)
(* one nonce gives at most one JWT.                                        *)
NonceBuysOneToken == \A n \in Nonce : grants[n] <= 1

(* /entitlement answers hasAccess for the bearer of a valid token. *)
HasAccess(c) == \E t \in tokens : t.sub = c /\ Valid(t)

(* README, RECHECK_ON_REFRESH: "soft real-time revocation".  Access        *)
(* outlives the tokens by less than a JWT's lifetime plus the time the     *)
(* balance was under way, through any chain of refreshes, and is never for *)
(* a balance that misses the threshold by more than half the distance of   *)
(* the Numbers there (gear.ts:46, server.ts:149).                          *)
AccessFollowsTokens ==
    \A c \in Client : HasAccess(c) =>
        /\ lastHeld[c] # Never
        /\ now - lastHeld[c] < JwtTTL + MaxLatency

(* Requests that overlap the first connection may each make one, no more:  *)
(* the connections never outnumber the requests that can overlap.          *)
ConnectionsBounded == connections <= Cardinality(Slot)
=============================================================================
