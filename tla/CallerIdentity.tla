--------------------------- MODULE CallerIdentity ---------------------------
(***************************************************************************)
(* The caller-id extractors.  The public one trusts a header               *)
(* (gw/caller_id.go), the HMAC one verifies a signed timestamp             *)
(* (gw/caller_id_hmac.go), and the delegated one (caller_id_delegated.go)  *)
(* looks the token up in a TTL cache and on a miss asks the delegate       *)
(* registered as _caller_auth/v1, one call per token at a time; a revoked  *)
(* token is evicted when the event arrives.  A token stands for its        *)
(* caller.                                                                 *)
(*                                                                         *)
(* Quota and TokenExchange, which come after it, share its requests, its   *)
(* clock and golang.org/x/sync/singleflight, which all three put in front  *)
(* of a remote call.                                                       *)
(***************************************************************************)
EXTENDS Integers, FiniteSets

CONSTANTS
    Requests,
    Tokens,
    TokenOf,    \* the token a request carries, Nobody for none
    Nobody,     \* no caller, no leader
    MaxTime     \* bound: ticks of the clock

ASSUME CallersAssumption ==
    /\ TokenOf \in [Requests -> Tokens \cup {Nobody}]
    /\ Nobody \notin Requests \cup Tokens
    /\ MaxTime \in Nat

VARIABLE now

\* A singleflight call: who runs it and who waits for it.
Flight == [leader: Requests \cup {Nobody}, members: SUBSET Requests]
NoFlight == [leader |-> Nobody, members |-> {}]

\* Group.Do: the first caller of a key runs the function.
Do(fl, r) == [leader |-> IF fl.leader = Nobody THEN r ELSE fl.leader,
              members |-> fl.members \cup {r}]

Least(a, b) == IF a < b THEN a ELSE b

-----------------------------------------------------------------------------
CONSTANTS
    TTL, MaxTTL, NegativeTTL,  \* cache lifetimes
    AuthTimeout,               \* ticks an Authorize call may take
    Hints,                     \* lifetimes the delegate may ask for, 0 is none
    SignatureOf,               \* per request: [kid, ts, good], good: made with kid's secret
    Secrets, SkewWindow        \* HMAC: the kids with a secret, the clock skew allowed

ASSUME IdentityAssumption ==
    /\ {TTL, MaxTTL, NegativeTTL, AuthTimeout} \subseteq Nat
    /\ Hints \subseteq Nat
    /\ \A r \in Requests : SignatureOf[r].ts \in Int
    /\ SkewWindow \in Nat

VARIABLES
    cache,     \* d.cache: per token, the entry or NoEntry
    revoked,   \* per token: when the delegate revoked it, Never before
    events,    \* TokenRevoked events on the wire
    authFlight,\* d.sf
    authCall,  \* per token: the Authorize call of the leader
    idpc, who  \* per request: where resolve is, and its result

idVars == <<cache, revoked, events, authFlight, authCall, idpc, who>>

Never == MaxTime + 1
NoEntry == [id |-> Nobody, denied |-> FALSE, expires |-> 0]
NoCall == [at |-> "none", since |-> 0, answer |-> "down"]
IdEntry == [id: Tokens \cup {Nobody}, denied: BOOLEAN, expires: Nat]

IdTypeOK ==
    /\ cache \in [Tokens -> IdEntry]
    /\ revoked \in [Tokens -> 0..Never]
    /\ events \subseteq Tokens
    /\ authFlight \in [Tokens -> Flight]
    /\ authCall \in [Tokens -> [at: {"none", "sent", "answered"}, since: 0..MaxTime,
                                answer: {"ok", "denied", "down"}]]
    /\ idpc \in [Requests -> {"idle", "lookup", "miss", "wait", "done"}]
    /\ who \in [Requests -> Tokens \cup {Nobody}]

IdInit ==
    /\ cache = [t \in Tokens |-> NoEntry]
    /\ revoked = [t \in Tokens |-> Never] /\ events = {}
    /\ authFlight = [t \in Tokens |-> NoFlight]
    /\ authCall = [t \in Tokens |-> NoCall]
    /\ idpc = [r \in Requests |-> "idle"]
    /\ who = [r \in Requests |-> Nobody]

Cached(t) == cache[t] # NoEntry
Resolved(rs, id) == /\ idpc' = [r \in Requests |-> IF r \in rs THEN "done" ELSE idpc[r]]
                    /\ who' = [r \in Requests |-> IF r \in rs THEN id ELSE who[r]]

\* CallerIDHMACOptions.resolve: a signature by a known key over a fresh timestamp.
Verifies(r) == /\ SignatureOf[r].kid \in Secrets
               /\ SignatureOf[r].ts >= now - SkewWindow
               /\ SignatureOf[r].ts <= now + SkewWindow
               /\ SignatureOf[r].good

\* The extractors that only look at the request; anonymous also when it fails.
Extracted(flavor, r) ==
    IF flavor = "public" \/ (flavor = "hmac" /\ Verifies(r)) THEN TokenOf[r] ELSE Nobody

ResolveLocal(flavor, r) ==
    /\ idpc[r] = "lookup"
    /\ flavor # "delegated" \/ TokenOf[r] = Nobody
    /\ Resolved({r}, IF flavor = "delegated" THEN Nobody ELSE Extracted(flavor, r))
    /\ UNCHANGED <<cache, revoked, events, authFlight, authCall>>

\* lookup: a live entry answers, an expired one is dropped.
Lookup(r) ==
    LET t == TokenOf[r]
    IN  /\ idpc[r] = "lookup" /\ t # Nobody
        /\ \/ /\ Cached(t) /\ now <= cache[t].expires
              /\ Resolved({r}, cache[t].id)
              /\ UNCHANGED cache
           \/ /\ Cached(t) => now > cache[t].expires
              /\ cache' = [cache EXCEPT ![t] = NoEntry]
              /\ idpc' = [idpc EXCEPT ![r] = "miss"]
              /\ UNCHANGED who
        /\ UNCHANGED <<revoked, events, authFlight, authCall>>

\* sf.Do: the leader calls the delegate, the others wait.
JoinAuthorize(r) ==
    LET t == TokenOf[r]
    IN  /\ idpc[r] = "miss"
        /\ idpc' = [idpc EXCEPT ![r] = "wait"]
        /\ authFlight' = [authFlight EXCEPT ![t] = Do(@, r)]
        /\ authCall' = IF authFlight[t] = NoFlight
                       THEN [authCall EXCEPT ![t] = [at |-> "sent", since |-> now, answer |-> "down"]]
                       ELSE authCall
        /\ UNCHANGED <<cache, revoked, events, who>>

\* The delegate decides (external), or cannot be reached.
DelegateDecides(t) ==
    /\ authCall[t].at = "sent"
    /\ \E a \in {IF revoked[t] = Never THEN "ok" ELSE "denied", "down"} :
          authCall' = [authCall EXCEPT ![t].at = "answered", ![t].answer = a]
    /\ UNCHANGED <<cache, revoked, events, authFlight, idpc, who>>

\* Mutation: the delegate's lifetime is not capped.
LifetimeUncapped(hint) == IF hint > 0 THEN hint ELSE TTL

\* The lifetime of a resolved token: the delegate's, capped, or the default.
Lifetime(hint) == Least(IF hint > 0 THEN hint ELSE TTL, MaxTTL)

\* The answer is cached, unless there was none, and given to every waiter.
AuthorizeReturns(t) ==
    /\ authCall[t].at = "answered"
    /\ \/ /\ authCall[t].answer = "ok"
          /\ \E h \in Hints :
                cache' = [cache EXCEPT ![t] = [id |-> t, denied |-> FALSE,
                                               expires |-> now + Lifetime(h)]]
          /\ Resolved(authFlight[t].members, t)
       \/ /\ authCall[t].answer = "denied"
          /\ cache' = [cache EXCEPT ![t] = [id |-> Nobody, denied |-> TRUE,
                                            expires |-> now + NegativeTTL]]
          /\ Resolved(authFlight[t].members, Nobody)
       \/ /\ authCall[t].answer = "down"
          /\ Resolved(authFlight[t].members, Nobody)
          /\ UNCHANGED cache
    /\ authFlight' = [authFlight EXCEPT ![t] = NoFlight]
    /\ authCall' = [authCall EXCEPT ![t] = NoCall]
    /\ UNCHANGED <<revoked, events>>

\* The delegate revokes a token and publishes the event (external).
Revoke(t) ==
    /\ revoked[t] = Never
    /\ revoked' = [revoked EXCEPT ![t] = now]
    /\ events' = events \cup {t}
    /\ UNCHANGED <<cache, authFlight, authCall, idpc, who>>

\* The listener evicts the token.  An event that is lost never arrives.
RevokeArrives(t) ==
    /\ t \in events
    /\ events' = events \ {t}
    /\ cache' = [cache EXCEPT ![t] = NoEntry]
    /\ UNCHANGED <<revoked, authFlight, authCall, idpc, who>>

\* The call's context ends it in time.
AuthMayTick == \A t \in Tokens : authCall[t].at # "none" => now - authCall[t].since < AuthTimeout

-----------------------------------------------------------------------------
(***************************************************************************)
(* MaxTTL bounds a stale identity even if the event is lost: a cached      *)
(* token is let through for at most MaxTTL, plus the time of the call that *)
(* was under way, after the delegate revoked it.                           *)
(***************************************************************************)
StaleIdentityBounded ==
    \A t \in Tokens :
        Cached(t) /\ ~cache[t].denied /\ revoked[t] # Never
            => cache[t].expires <= revoked[t] + AuthTimeout + MaxTTL

(***************************************************************************)
(* A revoked token is dropped "the instant a credential is revoked": once  *)
(* the event was handled the token is no longer in the cache.              *)
(***************************************************************************)
RevokedIsGone ==
    \A t \in Tokens : revoked[t] # Never /\ t \notin events => ~Cached(t) \/ cache[t].denied
=============================================================================
