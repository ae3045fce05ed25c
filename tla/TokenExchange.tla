--------------------------- MODULE TokenExchange ----------------------------
(***************************************************************************)
(* Outbound token exchange (gw/token_exchange.go): the caller's token is   *)
(* swapped for one of the upstream's audience, cached until a skew before  *)
(* it expires in a cache of bounded size, one exchange per caller at a     *)
(* time.                                                                   *)
(***************************************************************************)
EXTENDS CallerIdentity

CONSTANTS
    Skew,             \* exchangeSkew
    MaxCachedTokens,
    ExpiresIn,        \* lifetimes the token endpoint may state
    ExchangeTime      \* bound: ticks an exchange takes

ASSUME ExchangeAssumption ==
    /\ {Skew, MaxCachedTokens, ExchangeTime} \subseteq Nat
    /\ ExpiresIn \subseteq Nat

VARIABLES
    tokens,      \* t.cache: per subject, the entry or NoToken
    swapFlight,  \* t.group
    minted,      \* per subject: the exchange under way, what was issued and when
    xpc          \* per request: where RoundTrip is

exchangeVars == <<tokens, swapFlight, minted, xpc>>

NoToken == [ends |-> 0, expires |-> 0]   \* the true end, and the cache's
NoMint == [at |-> "none", issued |-> 0, ttl |-> 0]

ExchangeTypeOK ==
    /\ tokens \in [Tokens -> [ends: Nat, expires: Nat]]
    /\ swapFlight \in [Tokens -> Flight]
    /\ minted \in [Tokens -> [at: {"none", "ask", "issued"}, issued: 0..MaxTime, ttl: Nat]]
    /\ xpc \in [Requests -> {"idle", "lookup", "miss", "wait", "sent", "failed"}]

ExchangeInit ==
    /\ tokens = [t \in Tokens |-> NoToken]
    /\ swapFlight = [t \in Tokens |-> NoFlight]
    /\ minted = [t \in Tokens |-> NoMint]
    /\ xpc = [r \in Requests |-> "idle"]

Live(t) == tokens[t] # NoToken /\ now < tokens[t].expires
Attach(rs) == xpc' = [r \in Requests |-> IF r \in rs THEN "sent" ELSE xpc[r]]

\* RoundTrip: without an inbound token there is nothing to exchange.
ExchangeEnters(r) ==
    /\ xpc[r] = "idle"
    /\ xpc' = [xpc EXCEPT ![r] = IF TokenOf[r] = Nobody THEN "failed" ELSE "lookup"]
    /\ UNCHANGED <<tokens, swapFlight, minted>>

\* tokenFor: a live cached token is attached.
SwapLookup(r) ==
    LET t == TokenOf[r]
    IN  /\ xpc[r] = "lookup"
        /\ \/ Live(t) /\ Attach({r})
           \/ ~Live(t) /\ xpc' = [xpc EXCEPT ![r] = "miss"]
        /\ UNCHANGED <<tokens, swapFlight, minted>>

SwapJoin(r) ==
    /\ xpc[r] = "miss"
    /\ xpc' = [xpc EXCEPT ![r] = "wait"]
    /\ swapFlight' = [swapFlight EXCEPT ![TokenOf[r]] = Do(@, r)]
    /\ UNCHANGED <<tokens, minted>>

\* The leader looks again, and asks the token endpoint.
SwapRecheck(t) ==
    /\ swapFlight[t].leader # Nobody /\ minted[t].at = "none"
    /\ \/ /\ Live(t)
          /\ Attach(swapFlight[t].members)
          /\ swapFlight' = [swapFlight EXCEPT ![t] = NoFlight]
          /\ UNCHANGED minted
       \/ /\ ~Live(t)
          /\ minted' = [minted EXCEPT ![t].at = "ask"]
          /\ UNCHANGED <<swapFlight, xpc>>
    /\ UNCHANGED tokens

\* The endpoint issues a token (external).
Issue(t, ttl) ==
    /\ minted[t].at = "ask"
    /\ minted' = [minted EXCEPT ![t] = [at |-> "issued", issued |-> now, ttl |-> ttl]]
    /\ UNCHANGED <<tokens, swapFlight, xpc>>

\* Mutation: only the request that led the exchange learns that it failed.
ExchangeFailsLeader(t) ==
    /\ minted[t].at = "ask"
    /\ minted' = [minted EXCEPT ![t] = NoMint]
    /\ xpc' = [xpc EXCEPT ![swapFlight[t].leader] = "failed"]
    /\ swapFlight' = [swapFlight EXCEPT ![t] = NoFlight]
    /\ UNCHANGED tokens

\* The exchange fails, or the leader's request was cancelled: all waiters fail.
ExchangeFails(t) ==
    /\ minted[t].at = "ask"
    /\ minted' = [minted EXCEPT ![t] = NoMint]
    /\ xpc' = [r \in Requests |-> IF r \in swapFlight[t].members THEN "failed" ELSE xpc[r]]
    /\ swapFlight' = [swapFlight EXCEPT ![t] = NoFlight]
    /\ UNCHANGED tokens

Entries == {t \in Tokens : tokens[t] # NoToken}

\* evictLocked: the expired ones, and if that is not enough the soonest to expire.
Kept(S) == LET live == {t \in S : now < tokens[t].expires}
           IN  IF Cardinality(live) < MaxCachedTokens THEN {live}
               ELSE {live \ {t} : t \in {u \in live : \A v \in live : tokens[u].expires <= tokens[v].expires}}

\* What is left of a token's life when the skew is taken off.
life(ttl) == IF ttl > Skew THEN ttl - Skew ELSE 0

\* store: a token with no life left is not cached; a full cache is evicted.
Store(t, ttl, ends) ==
    \E keep \in (IF t \notin Entries /\ Cardinality(Entries) >= MaxCachedTokens /\ life(ttl) > 0
                 THEN Kept(Entries) ELSE {Entries}) :
        tokens' = [u \in Tokens |->
                     IF u = t /\ life(ttl) > 0 THEN [ends |-> ends, expires |-> now + life(ttl)]
                     ELSE IF u \in keep THEN tokens[u] ELSE NoToken]

\* The answer is back: cached, and attached by every waiter.
ExchangeReturns(t) ==
    LET m == minted[t]
    IN  /\ m.at = "issued"
        /\ Store(t, m.ttl, m.issued + m.ttl)
        /\ Attach(swapFlight[t].members)
        /\ swapFlight' = [swapFlight EXCEPT ![t] = NoFlight]
        /\ minted' = [minted EXCEPT ![t] = NoMint]

ExchangeMayTick == \A t \in Tokens : minted[t].at = "issued" => now - minted[t].issued < ExchangeTime

ExchangeStep(t) ==
    \/ SwapRecheck(t) \/ ExchangeFails(t) \/ ExchangeReturns(t)
    \/ \E ttl \in ExpiresIn : Issue(t, ttl)

-----------------------------------------------------------------------------
(***************************************************************************)
(* The cache never holds more than its bound, and what it would hand out   *)
(* now is good for what is left of the skew once an exchange's time is     *)
(* taken off ("a request never goes out with a token about to expire       *)
(* mid-flight").                                                           *)
(***************************************************************************)
CachedTokensGood ==
    /\ Cardinality(Entries) <= MaxCachedTokens
    /\ \A t \in Tokens : Live(t) => now + Skew < tokens[t].ends + ExchangeTime
=============================================================================
