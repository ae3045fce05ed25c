-------------------------- MODULE AdmissionProofs ---------------------------
(***************************************************************************)
(* Proofs about Admission, ChannelAuth and AdminSurface, for any number of *)
(* requests, tokens and callers, any lifetimes and windows, any rules,     *)
(* channels and globs, and any set of gateways.                            *)
(***************************************************************************)
EXTENDS MCAdmission, FiniteSetTheorems, SequenceTheorems, WellFoundedInduction, TLAPS

(***************************************************************************)
(* The inductive invariant has a part for each cache.                      *)
(*                                                                         *)
(* Identities: a call of the delegate is never older than its timeout, a   *)
(* token it found good was revoked no earlier than the call began, and an  *)
(* entry lasts no longer than MaxTTL from now.                             *)
(***************************************************************************)
CallInTime ==
    \A t \in Tokens : authCall[t].at # "none" =>
        authCall[t].since <= now /\ now <= authCall[t].since + AuthTimeout
GoodWhenAsked ==
    \A t \in Tokens : authCall[t].at = "answered" /\ authCall[t].answer = "ok" /\ revoked[t] # Never =>
        authCall[t].since <= revoked[t]
EntriesBrief == \A t \in Tokens : Cached(t) /\ ~cache[t].denied => cache[t].expires <= now + MaxTTL

IdData ==
    /\ now \in 0..MaxTime
    /\ cache \in [Tokens -> IdEntry] /\ revoked \in [Tokens -> 0..Never]
    /\ authCall \in [Tokens -> [at: {"none", "sent", "answered"}, since: 0..MaxTime,
                                answer: {"ok", "denied", "down"}]]
IdInv == IdData /\ CallInTime /\ GoodWhenAsked /\ EntriesBrief /\ StaleIdentityBounded

(***************************************************************************)
(* Permits: while the leader of a refill is in the delegate's call, there  *)
(* is no live block that its answer could wipe out.                        *)
(***************************************************************************)
RefillsDead == \A b \in Buckets : refilling[b] => ~permitsLive(b)

QuotaData ==
    /\ now \in 0..MaxTime
    /\ permits \in [Buckets -> Nat] /\ until \in [Buckets -> Nat]
    /\ refilling \in [Buckets -> BOOLEAN]
    /\ granted \in [Buckets -> Nat] /\ debited \in [Buckets -> Nat] /\ lapsed \in [Buckets -> Nat]
QuotaInv == QuotaData /\ RefillsDead /\ PermitsAccounted

(***************************************************************************)
(* Exchanged tokens: an answer is never older than ExchangeTime, and the   *)
(* cache's end of a token is the true one, give or take.                   *)
(***************************************************************************)
MintInTime ==
    \A t \in Tokens : minted[t].at = "issued" =>
        minted[t].issued <= now /\ now <= minted[t].issued + ExchangeTime
EndsKnown == \A t \in Tokens : tokens[t] # NoToken => tokens[t].expires + Skew <= tokens[t].ends + ExchangeTime
CacheBounded == IsFiniteSet(Entries) /\ Cardinality(Entries) <= MaxCachedTokens

ExchangeData ==
    /\ now \in 0..MaxTime
    /\ tokens \in [Tokens -> [ends: Nat, expires: Nat]]
    /\ minted \in [Tokens -> [at: {"none", "ask", "issued"}, issued: 0..MaxTime, ttl: Nat]]
ExchangeInv == ExchangeData /\ MintInTime /\ EndsKnown /\ CacheBounded

IInv == IdInv /\ QuotaInv /\ ExchangeInv

-----------------------------------------------------------------------------
(* The initial state.                                                      *)

LEMMA InitInv == Init => IInv
<1> SUFFICES ASSUME Init PROVE IInv OBVIOUS
<1>0. MaxTime \in Nat /\ 0 \in 0..MaxTime /\ now = 0 /\ Never \in 0..Never
  BY CallersAssumption DEF Init, Never
<1>1. IdInv
  <2>1. NoEntry \in IdEntry BY DEF NoEntry, IdEntry
  <2>2. NoCall \in [at: {"none", "sent", "answered"}, since: 0..MaxTime, answer: {"ok", "denied", "down"}]
    BY <1>0 DEF NoCall
  <2>3. IdData BY <1>0, <2>1, <2>2 DEF Init, IdInit, IdData
  <2>4. CallInTime /\ GoodWhenAsked BY DEF Init, IdInit, CallInTime, GoodWhenAsked, NoCall
  <2>5. EntriesBrief /\ StaleIdentityBounded
    BY DEF Init, IdInit, EntriesBrief, StaleIdentityBounded, Cached
  <2> QED BY <2>3, <2>4, <2>5 DEF IdInv
<1>2. QuotaInv
  <2>1. refilling \in [Buckets -> BOOLEAN] /\ RefillsDead BY DEF Init, QuotaInit, RefillsDead
  <2>2. QuotaData BY <1>0, <2>1 DEF Init, QuotaInit, QuotaData
  <2>3. PermitsAccounted BY DEF Init, QuotaInit, PermitsAccounted
  <2> QED BY <2>1, <2>2, <2>3 DEF QuotaInv
<1>3. ExchangeInv
  <2>1. ExchangeData BY <1>0 DEF Init, ExchangeInit, ExchangeData, NoToken, NoMint
  <2>2. MintInTime /\ EndsKnown BY DEF Init, ExchangeInit, MintInTime, EndsKnown, NoMint
  <2>3. Entries = {} BY DEF Init, ExchangeInit, Entries
  <2>4. CacheBounded BY <2>3, FS_EmptySet, ExchangeAssumption DEF CacheBounded
  <2> QED BY <2>1, <2>2, <2>4 DEF ExchangeInv
<1> QED BY <1>1, <1>2, <1>3 DEF IInv

-----------------------------------------------------------------------------
(* The delegated identities.                                               *)

idData == <<now, cache, revoked, authCall>>

\* The caps of a lifetime.
LEMMA LifetimeCapped == ASSUME NEW h \in Hints PROVE Lifetime(h) \in Nat /\ Lifetime(h) <= MaxTTL
BY IdentityAssumption DEF Lifetime, Least

LEMMA IdSame == ASSUME IdInv, UNCHANGED idData PROVE IdInv'
<1>1. IdData' BY DEF IdInv, IdData, idData
<1>2. CallInTime' BY DEF IdInv, CallInTime, idData
<1>3. GoodWhenAsked' BY DEF IdInv, GoodWhenAsked, idData
<1>4. EntriesBrief' BY DEF IdInv, EntriesBrief, Cached, idData
<1>5. StaleIdentityBounded' BY DEF IdInv, StaleIdentityBounded, Cached, idData
<1> QED BY <1>1, <1>2, <1>3, <1>4, <1>5 DEF IdInv

\* An entry is dropped.
LEMMA IdDrop ==
    ASSUME IdInv, NEW t, cache' = [cache EXCEPT ![t] = NoEntry], UNCHANGED <<now, revoked, authCall>>
    PROVE  IdInv'
<1>0. IdData BY DEF IdInv
<1>1. NoEntry \in IdEntry BY DEF NoEntry, IdEntry
<1>2. IdData' BY <1>0, <1>1 DEF IdData
<1>3. CallInTime' /\ GoodWhenAsked' BY DEF IdInv, CallInTime, GoodWhenAsked
<1>4. \A u \in Tokens : cache'[u] = cache[u] \/ cache'[u] = NoEntry BY <1>0 DEF IdData
<1>5. EntriesBrief' BY <1>4 DEF IdInv, EntriesBrief, Cached
<1>6. StaleIdentityBounded' BY <1>4 DEF IdInv, StaleIdentityBounded, Cached
<1> QED BY <1>2, <1>3, <1>5, <1>6 DEF IdInv

LEMMA IdJoin == ASSUME IdInv, NEW r, JoinAuthorize(r), now' = now PROVE IdInv'
<1>0. IdData /\ IdInv BY DEF IdInv
<1>1. cache' = cache /\ revoked' = revoked BY DEF JoinAuthorize
<1>2. CASE authCall' = authCall BY <1>1, <1>2, IdSame DEF idData
<1>3. CASE authCall' # authCall
  <2> DEFINE t == TokenOf[r]
             x == [at |-> "sent", since |-> now, answer |-> "down"]
  <2>1. authCall' = [authCall EXCEPT ![t] = x] BY <1>3 DEF JoinAuthorize
  <2>2. x \in [at: {"none", "sent", "answered"}, since: 0..MaxTime, answer: {"ok", "denied", "down"}]
    BY <1>0 DEF IdData
  <2>3. x.at = "sent" /\ x.since = now OBVIOUS
  <2> HIDE DEF t, x
  <2>4. \A u \in Tokens : authCall'[u] = authCall[u] \/ authCall'[u] = x BY <1>0, <2>1 DEF IdData
  <2>5. IdData' BY <1>0, <1>1, <2>1, <2>2 DEF IdData
  <2>6. now \in Nat /\ AuthTimeout \in Nat BY <1>0, IdentityAssumption, CallersAssumption DEF IdData
  <2>7. CallInTime' BY <1>0, <2>3, <2>4, <2>6 DEF IdInv, CallInTime
  <2>8. GoodWhenAsked' BY <1>0, <1>1, <2>3, <2>4 DEF IdInv, GoodWhenAsked
  <2>9. EntriesBrief' BY <1>1 DEF IdInv, EntriesBrief, Cached
  <2>10. StaleIdentityBounded' BY <1>1 DEF IdInv, StaleIdentityBounded, Cached
  <2> QED BY <2>5, <2>7, <2>8, <2>9, <2>10 DEF IdInv
<1> QED BY <1>2, <1>3

LEMMA IdDecides == ASSUME IdInv, NEW t \in Tokens, DelegateDecides(t), now' = now PROVE IdInv'
<1>0. IdData /\ IdInv BY DEF IdInv
<1>1. cache' = cache /\ revoked' = revoked /\ authCall[t].at = "sent" BY DEF DelegateDecides
<1>2. PICK a \in {"ok", "denied", "down"} :
         /\ a = "ok" => revoked[t] = Never
         /\ authCall' = [authCall EXCEPT ![t].at = "answered", ![t].answer = a]
  BY DEF DelegateDecides
<1> DEFINE x == [authCall[t] EXCEPT !.at = "answered", !.answer = a]
<1>3. /\ x \in [at: {"none", "sent", "answered"}, since: 0..MaxTime, answer: {"ok", "denied", "down"}]
      /\ x.since = authCall[t].since /\ x.answer = a
  BY <1>0 DEF IdData
<1>4. authCall' = [authCall EXCEPT ![t] = x] BY <1>0, <1>2 DEF IdData
<1> HIDE DEF x
<1>5. authCall'[t] = x /\ \A u \in Tokens : u # t => authCall'[u] = authCall[u] BY <1>0, <1>4 DEF IdData
<1>6. IdData' BY <1>0, <1>1, <1>3, <1>4 DEF IdData
<1>7. CallInTime' BY <1>0, <1>1, <1>3, <1>5 DEF IdInv, CallInTime
<1>8. GoodWhenAsked' BY <1>0, <1>1, <1>2, <1>3, <1>5 DEF IdInv, GoodWhenAsked
<1>9. EntriesBrief' BY <1>1 DEF IdInv, EntriesBrief, Cached
<1>10. StaleIdentityBounded' BY <1>1 DEF IdInv, StaleIdentityBounded, Cached
<1> QED BY <1>6, <1>7, <1>8, <1>9, <1>10 DEF IdInv

\* The answer of a call that took its whole timeout, on a token revoked just
\* after it began, is cached for MaxTTL: the worst case.
LEMMA IdReturns == ASSUME IdInv, NEW t \in Tokens, AuthorizeReturns(t), now' = now PROVE IdInv'
<1>0. IdData /\ IdInv BY DEF IdInv
<1>1. revoked' = revoked /\ authCall[t].at = "answered" /\ authCall' = [authCall EXCEPT ![t] = NoCall]
  BY DEF AuthorizeReturns
<1>2. /\ NoCall \in [at: {"none", "sent", "answered"}, since: 0..MaxTime, answer: {"ok", "denied", "down"}]
      /\ NoCall.at = "none"
  BY CallersAssumption DEF NoCall
<1>3. authCall'[t] = NoCall /\ \A u \in Tokens : u # t => authCall'[u] = authCall[u]
  BY <1>0, <1>1 DEF IdData
<1>4. /\ now \in Nat /\ AuthTimeout \in Nat /\ MaxTTL \in Nat /\ NegativeTTL \in Nat
      /\ authCall[t].since \in Nat /\ revoked[t] \in Nat
  BY <1>0, IdentityAssumption, CallersAssumption DEF IdData, Never
<1>5. CallInTime' BY <1>0, <1>2, <1>3 DEF IdInv, CallInTime
<1>6. GoodWhenAsked' BY <1>0, <1>1, <1>2, <1>3 DEF IdInv, GoodWhenAsked
<1>7. authCall' \in [Tokens -> [at: {"none", "sent", "answered"}, since: 0..MaxTime,
                                answer: {"ok", "denied", "down"}]]
  BY <1>0, <1>1, <1>2 DEF IdData
<1>8. CASE cache' = cache
  <2>1. IdData' BY <1>0, <1>1, <1>7, <1>8 DEF IdData
  <2>2. EntriesBrief' /\ StaleIdentityBounded'
    BY <1>0, <1>1, <1>8 DEF IdInv, EntriesBrief, StaleIdentityBounded, Cached
  <2> QED BY <1>5, <1>6, <2>1, <2>2 DEF IdInv
<1>9. ASSUME NEW e \in IdEntry, cache' = [cache EXCEPT ![t] = e],
             ~e.denied => /\ authCall[t].answer = "ok"
                          /\ e.expires <= now + MaxTTL
      PROVE  IdInv'
  <2>1. cache'[t] = e /\ \A u \in Tokens : u # t => cache'[u] = cache[u] BY <1>0, <1>9 DEF IdData
  <2>2. IdData' BY <1>0, <1>1, <1>7, <1>9 DEF IdData
  <2>3. EntriesBrief' BY <1>0, <1>9, <2>1 DEF IdInv, EntriesBrief, Cached
  <2>4. ASSUME ~e.denied, revoked[t] # Never
        PROVE  e.expires <= revoked[t] + AuthTimeout + MaxTTL
    <3>1. authCall[t].since <= revoked[t] BY <1>0, <1>1, <1>9, <2>4 DEF IdInv, GoodWhenAsked
    <3>2. now <= authCall[t].since + AuthTimeout BY <1>0, <1>1 DEF IdInv, CallInTime
    <3>3. e.expires \in Nat BY DEF IdEntry
    <3>4. e.expires <= now + MaxTTL BY <1>9, <2>4
    <3> QED BY <1>4, <3>1, <3>2, <3>3, <3>4
  <2>5. StaleIdentityBounded'
    BY <1>0, <1>1, <2>1, <2>4 DEF IdInv, StaleIdentityBounded, Cached
  <2> QED BY <1>5, <1>6, <2>2, <2>3, <2>5 DEF IdInv
<1>10. ASSUME NEW h \in Hints, authCall[t].answer = "ok",
              cache' = [cache EXCEPT ![t] = [id |-> t, denied |-> FALSE, expires |-> now + Lifetime(h)]]
       PROVE  IdInv'
  <2> DEFINE e == [id |-> t, denied |-> FALSE, expires |-> now + Lifetime(h)]
  <2>1. Lifetime(h) \in Nat /\ Lifetime(h) <= MaxTTL BY LifetimeCapped
  <2>2. now + Lifetime(h) \in Nat /\ now + Lifetime(h) <= now + MaxTTL BY <1>4, <2>1
  <2>3. e \in IdEntry /\ e.expires <= now + MaxTTL BY <2>2 DEF IdEntry
  <2> HIDE DEF e
  <2> QED BY <1>9, <1>10, <2>3 DEF e
<1>11. ASSUME cache' = [cache EXCEPT ![t] = [id |-> Nobody, denied |-> TRUE, expires |-> now + NegativeTTL]]
       PROVE  IdInv'
  <2> DEFINE e == [id |-> Nobody, denied |-> TRUE, expires |-> now + NegativeTTL]
  <2>1. e \in IdEntry /\ e.denied BY <1>4 DEF IdEntry
  <2> HIDE DEF e
  <2> QED BY <1>9, <1>11, <2>1 DEF e
<1> QED BY <1>8, <1>10, <1>11 DEF AuthorizeReturns

LEMMA IdRevoke == ASSUME IdInv, NEW t \in Tokens, Revoke(t), now' = now PROVE IdInv'
<1>0. IdData /\ IdInv BY DEF IdInv
<1>1. cache' = cache /\ authCall' = authCall /\ revoked[t] = Never /\ revoked' = [revoked EXCEPT ![t] = now]
  BY DEF Revoke
<1>2. revoked'[t] = now /\ \A u \in Tokens : u # t => revoked'[u] = revoked[u] BY <1>0, <1>1 DEF IdData
<1>3. /\ now \in Nat /\ now \in 0..Never /\ AuthTimeout \in Nat /\ MaxTTL \in Nat
      /\ cache[t].expires \in Nat
  BY <1>0, IdentityAssumption, CallersAssumption DEF IdData, Never, IdEntry
<1>4. IdData' BY <1>0, <1>1, <1>3 DEF IdData
<1>5. CallInTime' BY <1>0, <1>1 DEF IdInv, CallInTime
<1>6. GoodWhenAsked' BY <1>0, <1>1, <1>2 DEF IdInv, GoodWhenAsked, CallInTime
<1>7. EntriesBrief' BY <1>0, <1>1 DEF IdInv, EntriesBrief, Cached
<1>8. StaleIdentityBounded'
  <2>1. Cached(t) /\ ~cache[t].denied => cache[t].expires <= now + AuthTimeout + MaxTTL
    BY <1>0, <1>3 DEF IdInv, EntriesBrief
  <2> QED BY <1>0, <1>1, <1>2, <2>1 DEF IdInv, StaleIdentityBounded, Cached
<1> QED BY <1>4, <1>5, <1>6, <1>7, <1>8 DEF IdInv

LEMMA IdTick == ASSUME IdInv, Tick PROVE IdInv'
<1>0. IdData /\ IdInv BY DEF IdInv
<1>1. now' = now + 1 /\ now < MaxTime /\ AuthMayTick BY DEF Tick
<1>2. cache' = cache /\ revoked' = revoked /\ authCall' = authCall BY DEF Tick, idVars
<1>3. now \in Nat /\ MaxTime \in Nat /\ AuthTimeout \in Nat /\ MaxTTL \in Nat
  BY <1>0, IdentityAssumption, CallersAssumption DEF IdData
<1>4. now' \in 0..MaxTime BY <1>1, <1>3
<1>5. IdData' BY <1>0, <1>2, <1>4 DEF IdData
<1>6. CallInTime'
  <2>1. \A t \in Tokens : authCall[t].since \in Nat BY <1>0, CallersAssumption DEF IdData
  <2> QED BY <1>0, <1>1, <1>2, <1>3, <2>1 DEF IdInv, CallInTime, AuthMayTick
<1>7. GoodWhenAsked' BY <1>0, <1>2 DEF IdInv, GoodWhenAsked
<1>8. EntriesBrief'
  <2>1. \A t \in Tokens : cache[t].expires \in Nat BY <1>0 DEF IdData, IdEntry
  <2> QED BY <1>0, <1>1, <1>2, <1>3, <2>1 DEF IdInv, EntriesBrief, Cached
<1>9. StaleIdentityBounded' BY <1>0, <1>2 DEF IdInv, StaleIdentityBounded, Cached
<1> QED BY <1>5, <1>6, <1>7, <1>8, <1>9 DEF IdInv

LEMMA IdStep == ASSUME IdInv, [Next]_vars PROVE IdInv'
<1>1. CASE Gates
  <2>1. UNCHANGED idData
    BY <1>1 DEF Gates, Arrive, Enforce, Charge, Admit, Leave, Start, Refuse, To, idVars, idData
  <2> QED BY <2>1, IdSame
<1>2. CASE Identify
  <2>1. now' = now BY <1>2 DEF Identify
  <2>2. ASSUME NEW r, ResolveLocal(setup.caller, r) PROVE IdInv'
    BY <2>1, <2>2, IdSame DEF ResolveLocal, idData
  <2>3. ASSUME NEW r, Lookup(r) PROVE IdInv'
    <3>1. \/ UNCHANGED idData
          \/ cache' = [cache EXCEPT ![TokenOf[r]] = NoEntry] /\ UNCHANGED <<now, revoked, authCall>>
      BY <2>1, <2>3 DEF Lookup, idData
    <3> QED BY <3>1, IdSame, IdDrop
  <2> QED BY <1>2, <2>1, <2>2, <2>3, IdJoin, IdDecides, IdReturns DEF Identify
<1>3. CASE Revocation
  <2>1. now' = now BY <1>3 DEF Revocation
  <2>2. PICK t : Revoke(t) \/ RevokeArrives(t) BY <1>3 DEF Revocation
  <2>3. CASE RevokeArrives(t) BY <2>1, <2>3, IdDrop DEF RevokeArrives
  <2>4. CASE Revoke(t) /\ t \notin Tokens
    <3>1. revoked' = revoked BY <2>4 DEF Revoke, IdInv, IdData
    <3> QED BY <2>1, <2>4, <3>1, IdSame DEF Revoke, idData
  <2> QED BY <2>1, <2>2, <2>3, <2>4, IdRevoke
<1>4. CASE Debit \/ Exchange BY <1>4, IdSame DEF Debit, Exchange, idData, idVars
<1>5. CASE Tick BY <1>5, IdTick
<1>6. CASE UNCHANGED vars BY <1>6, IdSame DEF vars, idVars, idData
<1> QED BY <1>1, <1>2, <1>3, <1>4, <1>5, <1>6 DEF Next

-----------------------------------------------------------------------------
(* The permits.                                                            *)

quotaData == <<now, permits, until, refilling, granted, debited, lapsed>>

LEMMA QuotaSame == ASSUME QuotaInv, UNCHANGED quotaData PROVE QuotaInv'
<1>1. QuotaData' BY DEF QuotaInv, QuotaData, quotaData
<1>2. RefillsDead' BY DEF QuotaInv, RefillsDead, permitsLive, quotaData
<1>3. PermitsAccounted' BY DEF QuotaInv, PermitsAccounted, quotaData
<1> QED BY <1>1, <1>2, <1>3 DEF QuotaInv

\* A permit is taken, or what is left of an expired block is written off.
LEMMA QuotaDebit == ASSUME QuotaInv, NEW r, TryDebit(r), now' = now PROVE QuotaInv'
<1> DEFINE b == bucket[r]
<1>0. QuotaData /\ QuotaInv BY DEF QuotaInv
<1>1. UNCHANGED <<until, refilling, granted>> BY DEF TryDebit
<1>2. CASE b \notin Buckets
  <2>1. permits' = permits /\ debited' = debited /\ lapsed' = lapsed BY <1>0, <1>2 DEF TryDebit, QuotaData
  <2> QED BY <1>1, <2>1, QuotaSame DEF quotaData
<1>3. CASE b \in Buckets /\ permitsLive(b)
  <2>1. /\ permits' = [permits EXCEPT ![b] = @ - 1] /\ debited' = [debited EXCEPT ![b] = @ + 1]
        /\ lapsed' = lapsed
    BY <1>3 DEF TryDebit
  <2>2. permits[b] \in Nat /\ permits[b] > 0 /\ permits[b] - 1 \in Nat /\ debited[b] \in Nat
    BY <1>0, <1>3 DEF permitsLive, QuotaData
  <2> HIDE DEF b
  <2>3. QuotaData'
    <3>1. permits' \in [Buckets -> Nat] BY <1>0, <2>1, <2>2 DEF QuotaData
    <3>2. debited' \in [Buckets -> Nat]
      <4>1. debited[b] + 1 \in Nat BY <2>2
      <4>2. debited' = [debited EXCEPT ![b] = debited[b] + 1] BY <2>1
      <4> QED BY <1>0, <4>1, <4>2 DEF QuotaData
    <3> QED BY <1>0, <1>1, <2>1, <3>1, <3>2 DEF QuotaData
  <2>4. ~refilling[b] BY <1>0, <1>3 DEF QuotaInv, RefillsDead
  <2>5. \A a \in Buckets : a # b => permits'[a] = permits[a] /\ debited'[a] = debited[a]
    BY <1>0, <2>1 DEF QuotaData
  <2>6. RefillsDead' BY <1>0, <1>1, <2>4, <2>5 DEF QuotaInv, RefillsDead, permitsLive
  <2>7. permits'[b] = permits[b] - 1 /\ debited'[b] = debited[b] + 1 BY <1>0, <1>3, <2>1 DEF QuotaData
  <2>8. PermitsAccounted'
    <3>1. granted[b] = debited'[b] + permits'[b] + lapsed[b]
      BY <1>0, <1>3, <2>2, <2>7 DEF QuotaInv, PermitsAccounted, QuotaData
    <3> QED BY <1>0, <1>1, <2>1, <2>5, <3>1 DEF QuotaInv, PermitsAccounted
  <2> QED BY <2>3, <2>6, <2>8 DEF QuotaInv
<1>4. CASE b \in Buckets /\ ~permitsLive(b)
  <2>1. /\ permits' = [permits EXCEPT ![b] = 0] /\ lapsed' = [lapsed EXCEPT ![b] = @ + permits[b]]
        /\ debited' = debited
    BY <1>4 DEF TryDebit
  <2>2. permits[b] \in Nat /\ lapsed[b] \in Nat BY <1>0, <1>4 DEF QuotaData
  <2> HIDE DEF b
  <2>3. QuotaData'
    <3>1. permits' \in [Buckets -> Nat] BY <1>0, <2>1 DEF QuotaData
    <3>2. lapsed' \in [Buckets -> Nat]
      <4>1. lapsed[b] + permits[b] \in Nat BY <2>2
      <4>2. lapsed' = [lapsed EXCEPT ![b] = lapsed[b] + permits[b]] BY <2>1
      <4> QED BY <1>0, <4>1, <4>2 DEF QuotaData
    <3> QED BY <1>0, <1>1, <2>1, <3>1, <3>2 DEF QuotaData
  <2>4. /\ permits'[b] = 0 /\ lapsed'[b] = lapsed[b] + permits[b]
        /\ \A a \in Buckets : a # b => permits'[a] = permits[a] /\ lapsed'[a] = lapsed[a]
    BY <1>0, <1>4, <2>1 DEF QuotaData
  <2>5. RefillsDead' BY <1>0, <1>1, <2>4 DEF QuotaInv, RefillsDead, permitsLive
  <2>6. PermitsAccounted'
    <3>1. granted[b] = debited[b] + permits'[b] + lapsed'[b]
      BY <1>0, <1>4, <2>2, <2>4 DEF QuotaInv, PermitsAccounted, QuotaData
    <3> QED BY <1>0, <1>1, <2>1, <2>4, <3>1 DEF QuotaInv, PermitsAccounted
  <2> QED BY <2>3, <2>5, <2>6 DEF QuotaInv
<1> QED BY <1>2, <1>3, <1>4

LEMMA QuotaRecheck == ASSUME QuotaInv, NEW b \in Buckets, RefillRecheck(b), now' = now PROVE QuotaInv'
<1>0. QuotaData /\ QuotaInv BY DEF QuotaInv
<1>1. UNCHANGED <<permits, until, granted, debited, lapsed>> BY DEF RefillRecheck
<1>2. CASE refilling' = refilling BY <1>1, <1>2, QuotaSame DEF quotaData
<1>3. CASE ~permitsLive(b) /\ refilling' = [refilling EXCEPT ![b] = TRUE]
  <2>1. QuotaData' BY <1>0, <1>1, <1>3 DEF QuotaData
  <2>2. \A a \in Buckets : a # b => refilling'[a] = refilling[a] BY <1>0, <1>3 DEF QuotaData
  <2>3. RefillsDead' BY <1>0, <1>1, <1>3, <2>2 DEF QuotaInv, RefillsDead, permitsLive
  <2>4. PermitsAccounted' BY <1>0, <1>1 DEF QuotaInv, PermitsAccounted
  <2> QED BY <2>1, <2>3, <2>4 DEF QuotaInv
<1> QED BY <1>2, <1>3 DEF RefillRecheck

\* The leader's block replaces one that is not live.
LEMMA QuotaInstall ==
    ASSUME QuotaInv, NEW b \in Buckets, NEW n \in Nat, NEW end \in Nat, refilling[b],
           Install(b, n, end), refilling' = [refilling EXCEPT ![b] = FALSE],
           UNCHANGED debited, now' = now
    PROVE  QuotaInv'
<1>0. QuotaData /\ QuotaInv BY DEF QuotaInv
<1>1. ~permitsLive(b) BY <1>0 DEF QuotaInv, RefillsDead
<1>2. /\ permits' = [permits EXCEPT ![b] = n] /\ until' = [until EXCEPT ![b] = end]
      /\ granted' = [granted EXCEPT ![b] = granted[b] + n]
      /\ lapsed' = [lapsed EXCEPT ![b] = lapsed[b] + permits[b]]
  BY <1>0, <1>1 DEF Install, QuotaData
<1>3. permits[b] \in Nat /\ lapsed[b] \in Nat /\ granted[b] \in Nat /\ debited[b] \in Nat
  BY <1>0 DEF QuotaData
<1>4. granted[b] + n \in Nat /\ lapsed[b] + permits[b] \in Nat BY <1>3
<1>5. QuotaData' BY <1>0, <1>2, <1>4 DEF QuotaData
<1>6. /\ ~refilling'[b] /\ permits'[b] = n /\ granted'[b] = granted[b] + n
      /\ lapsed'[b] = lapsed[b] + permits[b]
  BY <1>0, <1>2 DEF QuotaData
<1>7. \A a \in Buckets : a # b => /\ refilling'[a] = refilling[a] /\ permits'[a] = permits[a]
                                  /\ granted'[a] = granted[a] /\ lapsed'[a] = lapsed[a]
                                  /\ until'[a] = until[a]
  BY <1>0, <1>2 DEF QuotaData
<1>8. RefillsDead' BY <1>0, <1>6, <1>7 DEF QuotaInv, RefillsDead, permitsLive
<1>9. PermitsAccounted'
  <2>1. granted'[b] = debited[b] + permits'[b] + lapsed'[b]
    BY <1>0, <1>3, <1>6 DEF QuotaInv, PermitsAccounted
  <2> QED BY <1>0, <1>7, <2>1 DEF QuotaInv, PermitsAccounted
<1> QED BY <1>5, <1>8, <1>9 DEF QuotaInv

LEMMA QuotaRefill ==
    ASSUME QuotaInv, NEW b \in Buckets, QuotaStep(b), now' = now
    PROVE  QuotaInv'
<1>0. QuotaData /\ QuotaInv /\ now \in Nat BY CallersAssumption DEF QuotaInv, QuotaData
<1>1. CASE RefillRecheck(b) BY <1>1, QuotaRecheck
<1>2. CASE RefillDenied(b)
  <2>1. UNCHANGED <<permits, until, granted, debited, lapsed>> /\ refilling' = [refilling EXCEPT ![b] = FALSE]
    BY <1>2 DEF RefillDenied
  <2>2. QuotaData' BY <1>0, <2>1 DEF QuotaData
  <2>3. \A a \in Buckets : refilling'[a] => refilling[a] BY <1>0, <2>1 DEF QuotaData
  <2>4. RefillsDead' BY <1>0, <2>1, <2>3 DEF QuotaInv, RefillsDead, permitsLive
  <2>5. PermitsAccounted' BY <1>0, <2>1 DEF QuotaInv, PermitsAccounted
  <2> QED BY <2>2, <2>4, <2>5 DEF QuotaInv
<1>3. CASE RefillUnavailable(b)
  <2>1. EmergencyPermits \in Nat /\ now + EmergencyTTL \in Nat BY <1>0, QuotaAssumption
  <2>2. /\ refilling[b] /\ Install(b, EmergencyPermits, now + EmergencyTTL) /\ UNCHANGED debited
        /\ refilling' = [refilling EXCEPT ![b] = FALSE]
    BY <1>3 DEF RefillUnavailable
  <2> QED BY <1>0, <2>1, <2>2, QuotaInstall
<1>4. ASSUME NEW n \in Grants, NEW w \in Windows, RefillGranted(b, n, w) PROVE QuotaInv'
  <2>1. Least(n, MaxBlockSize) \in Nat BY QuotaAssumption DEF Least
  <2>2. Least(w, MaxValidUntil) \in Nat BY QuotaAssumption DEF Least
  <2>3. validUntilFromResp(w) \in Nat BY <1>0, <2>2, QuotaAssumption DEF validUntilFromResp
  <2>4. /\ refilling[b] /\ Install(b, Least(n, MaxBlockSize), validUntilFromResp(w)) /\ UNCHANGED debited
        /\ refilling' = [refilling EXCEPT ![b] = FALSE]
    BY <1>4 DEF RefillGranted
  <2> QED BY <1>0, <2>1, <2>3, <2>4, QuotaInstall
<1> QED BY <1>1, <1>2, <1>3, <1>4 DEF QuotaStep

LEMMA QuotaTick == ASSUME QuotaInv, now \in 0..MaxTime, Tick PROVE QuotaInv'
<1>0. QuotaData /\ QuotaInv BY DEF QuotaInv
<1>1. now' = now + 1 /\ now < MaxTime /\ UNCHANGED <<permits, until, refilling, granted, debited, lapsed>>
  BY DEF Tick, quotaVars
<1>2. now \in Nat /\ now' \in 0..MaxTime BY <1>1, CallersAssumption
<1>3. QuotaData' BY <1>0, <1>1, <1>2 DEF QuotaData
<1>4. \A b \in Buckets : until[b] \in Nat BY <1>0 DEF QuotaData
<1>5. RefillsDead' BY <1>0, <1>1, <1>2, <1>4 DEF QuotaInv, RefillsDead, permitsLive
<1>6. PermitsAccounted' BY <1>0, <1>1 DEF QuotaInv, PermitsAccounted
<1> QED BY <1>3, <1>5, <1>6 DEF QuotaInv

LEMMA QuotaAny == ASSUME QuotaInv, [Next]_vars PROVE QuotaInv'
<1>1. CASE Gates
  <2>1. UNCHANGED quotaData
    BY <1>1 DEF Gates, Arrive, Enforce, Charge, QuotaEnters, Admit, Leave, Start, Refuse, To, quotaVars, quotaData
  <2> QED BY <2>1, QuotaSame
<1>2. CASE Identify \/ Revocation \/ Exchange
  BY <1>2, QuotaSame DEF Identify, Revocation, Exchange, quotaVars, quotaData
<1>3. CASE Debit
  <2>1. now' = now BY <1>3 DEF Debit
  <2>2. ASSUME NEW r, JoinRefill(r) PROVE QuotaInv' BY <2>1, <2>2, QuotaSame DEF JoinRefill, quotaData
  <2> QED BY <1>3, <2>1, <2>2, QuotaDebit, QuotaRefill DEF Debit
<1>4. CASE Tick BY <1>4, QuotaTick DEF QuotaInv, QuotaData
<1>5. CASE UNCHANGED vars BY <1>5, QuotaSame DEF vars, quotaVars, quotaData
<1> QED BY <1>1, <1>2, <1>3, <1>4, <1>5 DEF Next

-----------------------------------------------------------------------------
(* The exchanged tokens.                                                   *)

exchangeData == <<now, tokens, minted>>

LEMMA ExchangeSame == ASSUME ExchangeInv, UNCHANGED exchangeData PROVE ExchangeInv'
<1>1. ExchangeData' BY DEF ExchangeInv, ExchangeData, exchangeData
<1>2. MintInTime' BY DEF ExchangeInv, MintInTime, exchangeData
<1>3. EndsKnown' BY DEF ExchangeInv, EndsKnown, exchangeData
<1>4. Entries' = Entries BY DEF Entries, exchangeData
<1>5. CacheBounded' BY <1>4 DEF ExchangeInv, CacheBounded
<1> QED BY <1>1, <1>2, <1>3, <1>5 DEF ExchangeInv

\* An exchange moves on, and the cache stays.
LEMMA ExchangeMoves ==
    ASSUME ExchangeInv, NEW t \in Tokens, NEW m, tokens' = tokens, now' = now,
           m \in [at: {"none", "ask", "issued"}, issued: 0..MaxTime, ttl: Nat],
           m.at = "issued" => m.issued = now,
           minted' = [minted EXCEPT ![t] = m]
    PROVE  ExchangeInv'
<1>0. ExchangeData /\ ExchangeInv BY DEF ExchangeInv
<1>1. minted'[t] = m /\ \A u \in Tokens : u # t => minted'[u] = minted[u] BY <1>0 DEF ExchangeData
<1>2. now \in Nat /\ ExchangeTime \in Nat BY <1>0, CallersAssumption, ExchangeAssumption DEF ExchangeData
<1>3. ExchangeData' BY <1>0 DEF ExchangeData
<1>4. MintInTime' BY <1>0, <1>1, <1>2 DEF ExchangeInv, MintInTime
<1>5. EndsKnown' BY <1>0 DEF ExchangeInv, EndsKnown
<1>6. Entries' = Entries BY DEF Entries
<1>7. CacheBounded' BY <1>0, <1>6 DEF ExchangeInv, CacheBounded
<1> QED BY <1>3, <1>4, <1>5, <1>7 DEF ExchangeInv

\* What evictLocked leaves makes room for one more.
LEMMA EvictionMakesRoom ==
    ASSUME ExchangeInv, NEW keep \in Kept(Entries)
    PROVE  /\ keep \subseteq Entries /\ IsFiniteSet(keep)
           /\ Cardinality(keep) \in Nat /\ Cardinality(keep) + 1 <= MaxCachedTokens
<1> DEFINE live == {t \in Entries : now < tokens[t].expires}
<1>0. IsFiniteSet(Entries) /\ Cardinality(Entries) <= MaxCachedTokens /\ MaxCachedTokens \in Nat
  BY ExchangeAssumption DEF ExchangeInv, CacheBounded
<1>1. live \in SUBSET Entries OBVIOUS
<1>2. IsFiniteSet(live) /\ Cardinality(live) <= Cardinality(Entries) BY <1>0, <1>1, FS_Subset
<1>3. Cardinality(live) \in Nat /\ Cardinality(Entries) \in Nat BY <1>0, <1>2, FS_CardinalityType
<1>4. CASE keep = live /\ Cardinality(live) < MaxCachedTokens BY <1>0, <1>1, <1>2, <1>3, <1>4
<1>5. ASSUME NEW t \in live, keep = live \ {t}
      PROVE  /\ keep \subseteq Entries /\ IsFiniteSet(keep)
             /\ Cardinality(keep) \in Nat /\ Cardinality(keep) + 1 <= MaxCachedTokens
  <2> HIDE DEF live
  <2>1. IsFiniteSet(keep) /\ Cardinality(keep) = Cardinality(live) - 1
    BY <1>2, <1>5, FS_RemoveElement
  <2>2. Cardinality(keep) \in Nat BY <2>1, FS_CardinalityType
  <2> QED BY <1>0, <1>1, <1>2, <1>3, <1>5, <2>1, <2>2
<1>6. \/ keep = live /\ Cardinality(live) < MaxCachedTokens
      \/ \E t \in live : keep = live \ {t}
  BY DEF Kept
<1> QED BY <1>4, <1>5, <1>6

LEMMA ExchangeStores ==
    ASSUME ExchangeInv, NEW t \in Tokens, ExchangeReturns(t), now' = now
    PROVE  ExchangeInv'
<1> DEFINE m == minted[t]
           e == [ends |-> m.issued + m.ttl, expires |-> now + life(m.ttl)]
<1>0. ExchangeData /\ ExchangeInv BY DEF ExchangeInv
<1>1. /\ m.at = "issued" /\ minted' = [minted EXCEPT ![t] = NoMint]
      /\ Store(t, m.ttl, m.issued + m.ttl)
  BY DEF ExchangeReturns
<1>2. /\ now \in Nat /\ ExchangeTime \in Nat /\ Skew \in Nat /\ MaxCachedTokens \in Nat
      /\ m.issued \in Nat /\ m.ttl \in Nat /\ now <= m.issued + ExchangeTime
  BY <1>0, <1>1, CallersAssumption, ExchangeAssumption DEF ExchangeData, ExchangeInv, MintInTime
<1>3. life(m.ttl) \in Nat /\ (life(m.ttl) > 0 => life(m.ttl) + Skew = m.ttl) BY <1>2 DEF life
<1>4. e \in [ends: Nat, expires: Nat] /\ (life(m.ttl) > 0 => e.expires + Skew <= e.ends + ExchangeTime)
  BY <1>2, <1>3
<1>5. PICK keep : /\ keep \in (IF t \notin Entries /\ Cardinality(Entries) >= MaxCachedTokens /\ life(m.ttl) > 0
                               THEN Kept(Entries) ELSE {Entries})
                  /\ tokens' = [u \in Tokens |-> IF u = t /\ life(m.ttl) > 0 THEN e
                                                 ELSE IF u \in keep THEN tokens[u] ELSE NoToken]
  BY <1>1 DEF Store
<1>6. NoToken \in [ends: Nat, expires: Nat] BY DEF NoToken
<1>7. NoMint \in [at: {"none", "ask", "issued"}, issued: 0..MaxTime, ttl: Nat] /\ NoMint.at = "none"
  BY CallersAssumption DEF NoMint
<1>8. minted'[t] = NoMint /\ \A u \in Tokens : u # t => minted'[u] = minted[u]
  BY <1>0, <1>1 DEF ExchangeData
<1> HIDE DEF m, e
<1>9. ExchangeData'
  <2>1. tokens' \in [Tokens -> [ends: Nat, expires: Nat]] BY <1>0, <1>4, <1>5, <1>6 DEF ExchangeData
  <2>2. minted' \in [Tokens -> [at: {"none", "ask", "issued"}, issued: 0..MaxTime, ttl: Nat]]
    BY <1>0, <1>1, <1>7 DEF ExchangeData
  <2> QED BY <1>0, <2>1, <2>2 DEF ExchangeData
<1>10. MintInTime' BY <1>0, <1>7, <1>8 DEF ExchangeInv, MintInTime
<1>11. EndsKnown'
  <2>1. ASSUME NEW u \in Tokens, tokens'[u] # NoToken
        PROVE  tokens'[u].expires + Skew <= tokens'[u].ends + ExchangeTime
    BY <1>0, <1>4, <1>5, <2>1 DEF ExchangeInv, EndsKnown
  <2> QED BY <2>1 DEF EndsKnown
<1>12. CacheBounded'
  <2>1. IsFiniteSet(Entries) /\ Cardinality(Entries) <= MaxCachedTokens /\ Cardinality(Entries) \in Nat
    BY <1>0, FS_CardinalityType DEF ExchangeInv, CacheBounded
  <2>2. CASE keep = Entries /\ (t \in Entries \/ life(m.ttl) = 0)
    <3>1. Entries' \in SUBSET Entries BY <1>3, <1>5, <2>2 DEF Entries
    <3>2. IsFiniteSet(Entries') /\ Cardinality(Entries') <= Cardinality(Entries) BY <2>1, <3>1, FS_Subset
    <3>3. Cardinality(Entries') \in Nat BY <3>2, FS_CardinalityType
    <3> QED BY <1>2, <2>1, <3>2, <3>3 DEF CacheBounded
  <2>3. CASE IsFiniteSet(keep) /\ Cardinality(keep) \in Nat /\ Cardinality(keep) + 1 <= MaxCachedTokens
    <3>1. Entries' \in SUBSET (keep \cup {t}) BY <1>5 DEF Entries
    <3>2. /\ IsFiniteSet(keep \cup {t}) /\ Cardinality(keep \cup {t}) \in Nat
          /\ Cardinality(keep \cup {t}) <= Cardinality(keep) + 1
      <4>1. CASE t \in keep
        <5>1. keep \cup {t} = keep BY <4>1
        <5> QED BY <2>3, <5>1
      <4>2. CASE t \notin keep
        <5>1. IsFiniteSet(keep \cup {t}) /\ Cardinality(keep \cup {t}) = Cardinality(keep) + 1
          BY <2>3, <4>2, FS_AddElement
        <5> QED BY <2>3, <5>1
      <4> QED BY <4>1, <4>2
    <3>3. IsFiniteSet(Entries') /\ Cardinality(Entries') <= Cardinality(keep \cup {t})
      BY <3>1, <3>2, FS_Subset
    <3>4. Cardinality(Entries') \in Nat BY <3>3, FS_CardinalityType
    <3> QED BY <1>2, <2>3, <3>2, <3>3, <3>4 DEF CacheBounded
  <2>4. \/ keep = Entries /\ (t \in Entries \/ life(m.ttl) = 0)
        \/ IsFiniteSet(keep) /\ Cardinality(keep) \in Nat /\ Cardinality(keep) + 1 <= MaxCachedTokens
    <3>1. CASE t \notin Entries /\ Cardinality(Entries) >= MaxCachedTokens /\ life(m.ttl) > 0
      BY <1>0, <1>5, <3>1, EvictionMakesRoom
    <3>2. CASE ~ (t \notin Entries /\ Cardinality(Entries) >= MaxCachedTokens /\ life(m.ttl) > 0)
      <4>1. keep = Entries BY <1>5, <3>2
      <4>2. t \in Entries \/ life(m.ttl) = 0 \/ Cardinality(Entries) + 1 <= MaxCachedTokens
        BY <1>2, <1>3, <2>1, <3>2
      <4> QED BY <2>1, <4>1, <4>2
    <3> QED BY <3>1, <3>2
  <2> QED BY <2>2, <2>3, <2>4
<1> QED BY <1>9, <1>10, <1>11, <1>12 DEF ExchangeInv

LEMMA ExchangeTick == ASSUME ExchangeInv, Tick PROVE ExchangeInv'
<1>0. ExchangeData /\ ExchangeInv BY DEF ExchangeInv
<1>1. now' = now + 1 /\ now < MaxTime /\ ExchangeMayTick /\ tokens' = tokens /\ minted' = minted
  BY DEF Tick, exchangeVars
<1>2. now \in Nat /\ now' \in 0..MaxTime /\ ExchangeTime \in Nat
  BY <1>0, <1>1, CallersAssumption, ExchangeAssumption DEF ExchangeData
<1>3. \A t \in Tokens : minted[t].issued \in Nat BY <1>0, CallersAssumption DEF ExchangeData
<1>4. ExchangeData' BY <1>0, <1>1, <1>2 DEF ExchangeData
<1>5. MintInTime' BY <1>0, <1>1, <1>2, <1>3 DEF ExchangeInv, MintInTime, ExchangeMayTick
<1>6. EndsKnown' BY <1>0, <1>1 DEF ExchangeInv, EndsKnown
<1>7. Entries' = Entries BY <1>1 DEF Entries
<1>8. CacheBounded' BY <1>0, <1>7 DEF ExchangeInv, CacheBounded
<1> QED BY <1>4, <1>5, <1>6, <1>8 DEF ExchangeInv

LEMMA ExchangeOne ==
    ASSUME ExchangeInv, NEW t \in Tokens, ExchangeStep(t), now' = now
    PROVE  ExchangeInv'
<1>0. ExchangeData /\ ExchangeInv BY DEF ExchangeInv
<1>1. CASE SwapRecheck(t)
  <2>1. CASE minted' = minted BY <1>1, <2>1, ExchangeSame DEF SwapRecheck, exchangeData
  <2>2. CASE minted' = [minted EXCEPT ![t].at = "ask"]
    <3> DEFINE m == [minted[t] EXCEPT !.at = "ask"]
    <3>1. m \in [at: {"none", "ask", "issued"}, issued: 0..MaxTime, ttl: Nat] /\ m.at = "ask"
      BY <1>0 DEF ExchangeData
    <3>2. minted' = [minted EXCEPT ![t] = m] BY <1>0, <2>2 DEF ExchangeData
    <3> HIDE DEF m
    <3> QED BY <1>1, <3>1, <3>2, ExchangeMoves DEF SwapRecheck
  <2> QED BY <1>1, <2>1, <2>2 DEF SwapRecheck
<1>2. CASE ExchangeFails(t)
  <2>1. NoMint \in [at: {"none", "ask", "issued"}, issued: 0..MaxTime, ttl: Nat] /\ NoMint.at = "none"
    BY CallersAssumption DEF NoMint
  <2> QED BY <1>2, <2>1, ExchangeMoves DEF ExchangeFails
<1>3. ASSUME NEW ttl \in ExpiresIn, Issue(t, ttl) PROVE ExchangeInv'
  <2> DEFINE m == [at |-> "issued", issued |-> now, ttl |-> ttl]
  <2>1. m \in [at: {"none", "ask", "issued"}, issued: 0..MaxTime, ttl: Nat] /\ m.issued = now
    BY <1>0, ExchangeAssumption DEF ExchangeData
  <2>2. minted' = [minted EXCEPT ![t] = m] /\ tokens' = tokens BY <1>3 DEF Issue
  <2> HIDE DEF m
  <2> QED BY <2>1, <2>2, ExchangeMoves
<1> QED BY <1>1, <1>2, <1>3, ExchangeStores DEF ExchangeStep

LEMMA ExchangeAny == ASSUME ExchangeInv, [Next]_vars PROVE ExchangeInv'
<1>1. CASE Gates
  <2>1. UNCHANGED exchangeData
    BY <1>1 DEF Gates, Arrive, Enforce, Charge, Admit, Leave, Start, ExchangeEnters, Refuse, To,
       exchangeVars, exchangeData
  <2> QED BY <2>1, ExchangeSame
<1>2. CASE Identify \/ Revocation \/ Debit
  BY <1>2, ExchangeSame DEF Identify, Revocation, Debit, exchangeVars, exchangeData
<1>3. CASE Exchange
  <2>1. now' = now BY <1>3 DEF Exchange
  <2>2. ASSUME NEW r, SwapLookup(r) \/ SwapJoin(r) PROVE ExchangeInv'
    BY <2>1, <2>2, ExchangeSame DEF SwapLookup, SwapJoin, exchangeData
  <2> QED BY <1>3, <2>1, <2>2, ExchangeOne DEF Exchange
<1>4. CASE Tick BY <1>4, ExchangeTick
<1>5. CASE UNCHANGED vars BY <1>5, ExchangeSame DEF vars, exchangeVars, exchangeData
<1> QED BY <1>1, <1>2, <1>3, <1>4, <1>5 DEF Next

-----------------------------------------------------------------------------
(* The theorems.                                                           *)

LEMMA IInvStep == IInv /\ [Next]_vars => IInv'
BY IdStep, QuotaAny, ExchangeAny DEF IInv

LEMMA IInvHolds == Spec => []IInv
BY InitInv, IInvStep, PTL DEF Spec

(***************************************************************************)
(* However lookups, calls of the delegate and revocations interleave, and  *)
(* whether or not the event arrives, a revoked token is in the cache for   *)
(* at most MaxTTL plus one call after it was revoked                       *)
(* (caller_id_delegated.go).                                               *)
(***************************************************************************)
THEOREM StaleIdentityBoundedHolds == Spec => []StaleIdentityBounded
<1>1. IInv => StaleIdentityBounded BY DEF IInv, IdInv
<1> QED BY <1>1, IInvHolds, PTL

(***************************************************************************)
(* Whatever the delegate grants and however many requests meet an empty or *)
(* expired bucket together, every permit is spent once, still there, or    *)
(* ran out: the singleflight leader's second look at the bucket is what    *)
(* keeps a refill from wiping out a live block (quota.go).                 *)
(***************************************************************************)
THEOREM PermitsAccountedHolds == Spec => []PermitsAccounted
<1>1. IInv => PermitsAccounted BY DEF IInv, QuotaInv
<1> QED BY <1>1, IInvHolds, PTL

LEMMA TokensStayGood == IInv => CachedTokensGood
<1> SUFFICES ASSUME IInv PROVE CachedTokensGood OBVIOUS
<1>1. ExchangeData /\ EndsKnown /\ CacheBounded BY DEF IInv, ExchangeInv
<1>2. ASSUME NEW t \in Tokens, Live(t) PROVE now + Skew < tokens[t].ends + ExchangeTime
  <2>1. now \in Nat /\ Skew \in Nat /\ ExchangeTime \in Nat /\ tokens[t].ends \in Nat /\ tokens[t].expires \in Nat
    BY <1>1, CallersAssumption, ExchangeAssumption DEF ExchangeData
  <2>2. now < tokens[t].expires /\ tokens[t].expires + Skew <= tokens[t].ends + ExchangeTime
    BY <1>1, <1>2 DEF Live, EndsKnown
  <2> QED BY <2>1, <2>2
<1> QED BY <1>1, <1>2 DEF CachedTokensGood, CacheBounded

(***************************************************************************)
(* The cache of exchanged tokens stays within its bound, and what it hands *)
(* out lives on for the skew, give or take the time of an exchange         *)
(* (token_exchange.go store and evictLocked).                              *)
(***************************************************************************)
THEOREM CachedTokensGoodHolds == Spec => []CachedTokensGood
BY TokensStayGood, IInvHolds, PTL

-----------------------------------------------------------------------------
(* Channels.  Whoever holds a call or a subscription passed the tier of    *)
(* the string it asked for; the patterns' lemmas carry that over to every  *)
(* channel the string matches.                                             *)

CallState == [op : {"none", "pub", "sub"}, channel : Seq(STRING), body : Bodies \cup {{}},
              verified : BOOLEAN, consulted : BOOLEAN, at : {"idle", "delegate", "passed"}]
TierOf(call) == resolveChannelTier(call.channel, call.op = "sub" /\ Wild(call.channel))
Granted(call) ==
    /\ call.channel # <<>> /\ (call.op = "pub" => ~Wild(call.channel))
    /\ \/ posture.insecure \/ TierOf(call) = Open
       \/ call.verified /\ (TierOf(call) = Delegate => call.consulted)

ChannelInv ==
    /\ posture \in Postures /\ slotted \subseteq Owners \cup {"ps"}
    /\ calling \in [Senders \cup Watchers -> CallState] /\ watching \in [Watchers -> CallState]
    /\ \A p \in Senders \cup Watchers : calling[p].at # "idle" => Granted(calling[p])
    /\ \A q \in Watchers : watching[q] # NoCall_ => watching[q].op = "sub" /\ Granted(watching[q])
    /\ ChannelsGuarded


\* The least of some numbers.
LEMMA LeastExists ==
  ASSUME NEW T, T \subseteq Nat, T # {}
  PROVE \E x \in T : \A y \in T : x <= y
<1>1. \E R : /\ \E x \in T : \A y \in T : ~(<<y, x>> \in R)
             /\ \A x \in Nat, y \in Nat : y < x => <<y, x>> \in R
  <2> DEFINE R == OpToRel(<, Nat)
  <2>1. \E x \in T : \A y \in T : ~(<<y, x>> \in R) BY NatLessThanWellFounded, WFMin
  <2>2. \A x \in Nat, y \in Nat : y < x => <<y, x>> \in R BY DEF OpToRel
  <2> HIDE DEF R
  <2> QED BY <2>1, <2>2
<1>2. PICK R : /\ \E x \in T : \A y \in T : ~(<<y, x>> \in R)
               /\ \A x \in Nat, y \in Nat : y < x => <<y, x>> \in R
  BY <1>1
<1>3. PICK x \in T : \A y \in T : ~(<<y, x>> \in R) BY <1>2
<1>4. \A y \in T : ~(y < x) BY <1>2, <1>3
<1>5. \A y \in T : x <= y BY <1>4
<1> QED BY <1>3, <1>5

\* The segments of a pattern that matches a channel.
LEMMA MatchIs ==
  ASSUME NEW p \in Seq(STRING), NEW c \in Seq(STRING), p # <<>>, subjectMatchesPattern(p, c)
  PROVE /\ Len(p) \in Nat \ {0} /\ Len(c) \in Nat /\ Len(p) <= Len(c)
        /\ DOMAIN p = 1 .. Len(p)
        /\ p[Len(p)] # ">" => Len(c) = Len(p)
        /\ \A i \in 1 .. Len(p) : p[i] = ">" => i = Len(p)
        /\ \A i \in 1 .. Len(p) : p[i] # ">" => p[i] = "*" \/ p[i] = c[i]
<1>1. Len(p) \in Nat /\ Len(c) \in Nat /\ DOMAIN p = 1 .. Len(p) OBVIOUS
<1>2. Len(p) # 0 BY EmptySeq
<1>3. \A i \in 1 .. Len(p) : \/ p[i] = ">" /\ i = Len(p) /\ i <= Len(c)
                             \/ p[i] # ">" /\ i <= Len(c) /\ p[i] \in {"*", c[i]}
  BY <1>1 DEF subjectMatchesPattern
<1>4. Len(p) \in 1 .. Len(p) BY <1>1, <1>2
<1>5. Len(p) <= Len(c) BY <1>3, <1>4
<1>6. p[Len(p)] # ">" => Len(c) = Len(p) BY DEF subjectMatchesPattern, Last
<1>7. \A i \in 1 .. Len(p) : p[i] = ">" => i = Len(p) BY <1>3
<1>8. \A i \in 1 .. Len(p) : p[i] # ">" => p[i] = "*" \/ p[i] = c[i] BY <1>3
<1> QED BY <1>1, <1>2, <1>5, <1>6, <1>7, <1>8

\* Two patterns that match a channel meet.
LEMMA MatchesMeet ==
  ASSUME NEW p \in Seq(STRING), NEW w \in Seq(STRING), NEW c \in Seq(STRING), p # <<>>, w # <<>>,
         subjectMatchesPattern(p, c), subjectMatchesPattern(w, c)
  PROVE patternsIntersect(p, w)
<1> DEFINE agree(i) == "*" \in {p[i], w[i]} \/ p[i] = w[i]
<1>1. /\ Len(p) \in Nat \ {0} /\ Len(c) \in Nat /\ Len(p) <= Len(c) /\ DOMAIN p = 1 .. Len(p)
      /\ p[Len(p)] # ">" => Len(c) = Len(p)
      /\ \A i \in 1 .. Len(p) : p[i] = ">" => i = Len(p)
      /\ \A i \in 1 .. Len(p) : p[i] # ">" => p[i] = "*" \/ p[i] = c[i]
  BY MatchIs
<1>2. /\ Len(w) \in Nat \ {0} /\ Len(w) <= Len(c) /\ DOMAIN w = 1 .. Len(w)
      /\ w[Len(w)] # ">" => Len(c) = Len(w)
      /\ \A i \in 1 .. Len(w) : w[i] = ">" => i = Len(w)
      /\ \A i \in 1 .. Len(w) : w[i] # ">" => w[i] = "*" \/ w[i] = c[i]
  BY MatchIs
<1>0. Len(p) \in Nat /\ Len(w) \in Nat /\ Len(p) >= 1 /\ Len(w) >= 1
  <2>1. Len(p) \in Nat \ {0} /\ Len(w) \in Nat \ {0} BY <1>1, <1>2
  <2> DEFINE m == Len(p)
             n == Len(w)
  <2> HIDE DEF m, n
  <2>2. m \in Nat \ {0} /\ n \in Nat \ {0} BY <2>1 DEF m, n
  <2>3. m \in Nat /\ n \in Nat /\ m >= 1 /\ n >= 1 BY <2>2
  <2> QED BY <2>3 DEF m, n
<1>3. \A i \in 1 .. Len(p) : i \in 1 .. Len(w) /\ p[i] # ">" /\ w[i] # ">" => agree(i) BY <1>1, <1>2
<1>4. CASE p[Len(p)] = ">" /\ Len(p) <= Len(w)
  <2> DEFINE n == Len(p)
  <2>0. n \in 1 .. Len(p) /\ n \in 1 .. Len(w) BY <1>0, <1>4
  <2>1. n \in Shared(p, w) BY <1>1, <1>2, <2>0 DEF Shared
  <2>2. \A j \in 1 .. (n - 1) : j \in 1 .. Len(p) /\ j \in 1 .. Len(w) /\ j # Len(p) /\ j # Len(w) BY <1>0, <1>4
  <2>3. \A j \in 1 .. (n - 1) : agree(j) BY <1>1, <1>2, <1>3, <2>2
  <2> QED BY <1>4, <2>1, <2>3 DEF patternsIntersect
<1>5. CASE w[Len(w)] = ">" /\ Len(w) <= Len(p)
  <2> DEFINE n == Len(w)
  <2>0. n \in 1 .. Len(p) /\ n \in 1 .. Len(w) BY <1>0, <1>5
  <2>1. n \in Shared(p, w) BY <1>1, <1>2, <2>0 DEF Shared
  <2>2. \A j \in 1 .. (n - 1) : j \in 1 .. Len(p) /\ j \in 1 .. Len(w) /\ j # Len(p) /\ j # Len(w) BY <1>0, <1>5
  <2>3. \A j \in 1 .. (n - 1) : agree(j) BY <1>1, <1>2, <1>3, <2>2
  <2> QED BY <1>5, <2>1, <2>3 DEF patternsIntersect
<1>6. CASE p[Len(p)] # ">" /\ w[Len(w)] # ">"
  <2>1. Len(p) = Len(w) BY <1>1, <1>2, <1>6
  <2>2. \A i \in 1 .. Len(p) : p[i] # ">" /\ w[i] # ">" BY <1>1, <1>2, <1>6, <2>1
  <2>3. \A i \in DOMAIN p : agree(i) BY <1>1, <1>3, <2>1, <2>2
  <2> QED BY <2>1, <2>3 DEF patternsIntersect
<1>7. p[Len(p)] = ">" => Len(p) <= Len(w) \/ w[Len(w)] = ">" BY <1>1, <1>2
<1>8. w[Len(w)] = ">" => Len(w) <= Len(p) \/ p[Len(p)] = ">" BY <1>1, <1>2
<1>9. Len(p) <= Len(w) \/ Len(w) <= Len(p) BY <1>0
<1> QED BY <1>4, <1>5, <1>6, <1>7, <1>8, <1>9

\* A pattern that covers another matches what that one matches.
LEMMA CoverMatches ==
  ASSUME NEW a \in Seq(STRING), NEW b \in Seq(STRING), NEW c \in Seq(STRING), b # <<>>,
         validChannelAuthPattern(a), patternCovers(a, b), subjectMatchesPattern(b, c)
  PROVE subjectMatchesPattern(a, c)
<1> DEFINE takes(i) == b[i] # ">" /\ (a[i] = "*" \/ (b[i] # "*" /\ a[i] = b[i]))
<1>1. /\ Len(b) \in Nat \ {0} /\ Len(c) \in Nat /\ Len(b) <= Len(c) /\ DOMAIN b = 1 .. Len(b)
      /\ b[Len(b)] # ">" => Len(c) = Len(b)
      /\ \A i \in 1 .. Len(b) : b[i] # ">" => b[i] = "*" \/ b[i] = c[i]
  BY MatchIs
<1>2. Len(a) \in Nat /\ DOMAIN a = 1 .. Len(a) OBVIOUS
<1>3. a # <<>> /\ \A i \in 1 .. Len(a) : a[i] = ">" => i = Len(a) BY <1>2 DEF validChannelAuthPattern
<1>4. Len(a) # 0 BY <1>3, EmptySeq
<1>5. \A i \in 1 .. Len(b) : takes(i) => a[i] # ">" /\ i <= Len(c) /\ a[i] \in {"*", c[i]} BY <1>1
<1>6. CASE \E i \in Shared(a, b) : a[i] = ">" /\ \A j \in 1 .. (i - 1) : takes(j)
  <2>1. PICK i \in Shared(a, b) : a[i] = ">" /\ \A j \in 1 .. (i - 1) : takes(j) BY <1>6
  <2>2. i \in 1 .. Len(a) /\ i \in 1 .. Len(b) BY <1>1, <1>2 DEF Shared
  <2>3. i = Len(a) /\ i <= Len(c) BY <1>1, <1>3, <2>1, <2>2
  <2>4. \A k \in DOMAIN a : \/ a[k] = ">" /\ k = Len(a) /\ k <= Len(c)
                            \/ a[k] # ">" /\ k <= Len(c) /\ a[k] \in {"*", c[k]}
    <3> SUFFICES ASSUME NEW k \in 1 .. Len(a)
                 PROVE \/ a[k] = ">" /\ k = Len(a) /\ k <= Len(c)
                       \/ a[k] # ">" /\ k <= Len(c) /\ a[k] \in {"*", c[k]}
      BY <1>2
    <3>1. CASE k = i BY <2>1, <2>3, <3>1
    <3>2. CASE k # i
      <4>0. Len(b) \in Nat BY <1>1
      <4> DEFINE n == Len(b)
      <4> HIDE DEF n
      <4>2. n \in Nat /\ i \in 1 .. n BY <2>2, <4>0 DEF n
      <4>3. k \in 1 .. i BY <2>3
      <4>4. k \in 1 .. (i - 1) /\ k \in 1 .. n BY <3>2, <4>2, <4>3
      <4>1. k \in 1 .. (i - 1) /\ k \in 1 .. Len(b) BY <4>4 DEF n
      <4> QED BY <1>5, <2>1, <4>1
    <3> QED BY <3>1, <3>2
  <2>5. Last(a) = ">" BY <2>1, <2>3 DEF Last
  <2> QED BY <2>4, <2>5 DEF subjectMatchesPattern
<1>7. CASE Len(a) = Len(b) /\ \A i \in DOMAIN a : takes(i)
  <2>1. \A k \in DOMAIN a : a[k] # ">" /\ k <= Len(c) /\ a[k] \in {"*", c[k]} BY <1>1, <1>2, <1>5, <1>7
  <2>2. Len(b) \in DOMAIN a BY <1>1, <1>2, <1>7
  <2>3. Len(c) = Len(a) BY <1>1, <1>7, <2>2
  <2> QED BY <2>1, <2>3 DEF subjectMatchesPattern
<1> QED BY <1>6, <1>7 DEF patternCovers

\* A pattern without a wildcard matches itself alone.
LEMMA LiteralMatches ==
  ASSUME NEW w \in Seq(STRING), NEW c \in Seq(STRING), w # <<>>, ~Wild(w), subjectMatchesPattern(w, c)
  PROVE w = c
<1>1. /\ Len(w) \in Nat \ {0} /\ DOMAIN w = 1 .. Len(w)
      /\ w[Len(w)] # ">" => Len(c) = Len(w)
      /\ \A i \in 1 .. Len(w) : w[i] # ">" => w[i] = "*" \/ w[i] = c[i]
  BY MatchIs
<1>2. \A i \in 1 .. Len(w) : w[i] # ">" /\ w[i] # "*" BY <1>1 DEF Wild
<1>3. Len(w) \in 1 .. Len(w) BY <1>1
<1>4. Len(c) = Len(w) BY <1>1, <1>2, <1>3
<1>5. \A i \in 1 .. Len(w) : w[i] = c[i] BY <1>1, <1>2
<1> QED BY <1>4, <1>5, SeqEqual

LEMMA StrictestIs ==
  ASSUME NEW S, S \subseteq {0, 1, 2}, 0 \in S
  PROVE Strictest(S) \in S /\ \A u \in S : u <= Strictest(S)
<1>1. \E t \in S : \A u \in S : u <= t
  <2>1. CASE 2 \in S BY <2>1
  <2>2. CASE 2 \notin S /\ 1 \in S BY <2>2
  <2>3. CASE 2 \notin S /\ 1 \notin S BY <2>3
  <2> QED BY <2>1, <2>2, <2>3
<1> QED BY <1>1 DEF Strictest

\* The rules of a gateway.
LEMMA RulesAre ==
  ASSUME posture \in Postures
  PROVE /\ DOMAIN posture.rules \subseteq Nat
        /\ \A i \in DOMAIN posture.rules :
              /\ posture.rules[i].pattern \in Seq(STRING) /\ posture.rules[i].tier \in {0, 1, 2}
              /\ validChannelAuthPattern(posture.rules[i].pattern) /\ posture.rules[i].pattern # <<>>
<1>1. posture \in Posture BY ChannelAuthAssumption
<1>2. posture.rules \in Seq([pattern : Seq(STRING), tier : {0, 1, 2}]) BY <1>1 DEF Posture, Open, HMAC, Delegate
<1>3. DOMAIN posture.rules = 1 .. Len(posture.rules) /\ Len(posture.rules) \in Nat BY <1>2
<1>4. \A i \in DOMAIN posture.rules : posture.rules[i] \in [pattern : Seq(STRING), tier : {0, 1, 2}]
  BY <1>2, <1>3, ElementOfSeq
<1>5. \A i \in DOMAIN posture.rules : validChannelAuthPattern(posture.rules[i].pattern) BY ChannelAuthAssumption
<1>6. \A i \in DOMAIN posture.rules : posture.rules[i].pattern # <<>> BY <1>5 DEF validChannelAuthPattern
<1> QED BY <1>3, <1>4, <1>5, <1>6

\* FirstHit is the tier of a rule that matches, or the default when none does.
LEMMA FirstHitIs ==
  ASSUME posture \in Postures, NEW c
  PROVE \/ FirstHit(c) = HMAC /\ \A i \in DOMAIN posture.rules : ~subjectMatchesPattern(posture.rules[i].pattern, c)
        \/ \E i \in DOMAIN posture.rules : FirstHit(c) = posture.rules[i].tier
                                           /\ subjectMatchesPattern(posture.rules[i].pattern, c)
<1> DEFINE hits == {i \in DOMAIN posture.rules : subjectMatchesPattern(posture.rules[i].pattern, c)}
<1>1. CASE hits = {} BY <1>1 DEF FirstHit
<1>2. CASE hits # {}
  <2>1. hits \subseteq Nat BY RulesAre
  <2>2. \E i \in hits : \A j \in hits : i <= j BY <1>2, <2>1, LeastExists
  <2> DEFINE i == CHOOSE i \in hits : \A j \in hits : i <= j
  <2>3. i \in hits BY <2>2
  <2>4. FirstHit(c) = posture.rules[i].tier BY <1>2 DEF FirstHit
  <2> HIDE DEF i
  <2> QED BY <2>3, <2>4
<1> QED BY <1>1, <1>2

(* No wildcard slips under a rule: the tier it has to pass is at least that *)
(* of every channel it matches.                                             *)
LEMMA TierCovers ==
  ASSUME posture \in Postures, NEW w \in Seq(STRING), NEW c \in Seq(STRING), w # <<>>, subjectMatchesPattern(w, c)
  PROVE /\ FirstHit(c) \in {0, 1, 2} /\ resolveChannelTier(w, Wild(w)) \in {0, 1, 2}
        /\ FirstHit(c) <= resolveChannelTier(w, Wild(w))
<1>1. \/ FirstHit(c) = HMAC /\ \A i \in DOMAIN posture.rules : ~subjectMatchesPattern(posture.rules[i].pattern, c)
      \/ \E i \in DOMAIN posture.rules : FirstHit(c) = posture.rules[i].tier
                                         /\ subjectMatchesPattern(posture.rules[i].pattern, c)
  BY FirstHitIs
<1>2. FirstHit(c) \in {0, 1, 2} BY <1>1, RulesAre DEF HMAC
<1>3. CASE ~Wild(w)
  <2>1. w = c BY <1>3, LiteralMatches
  <2>2. resolveChannelTier(w, FALSE) = FirstHit(w) BY DEF resolveChannelTier
  <2>3. resolveChannelTier(w, Wild(w)) = FirstHit(w)
    <3>1. Wild(w) = FALSE BY <1>3 DEF Wild
    <3> QED BY <2>2, <3>1
  <2> QED BY <1>2, <2>1, <2>3
<1>4. CASE Wild(w)
  <2> DEFINE rules == {posture.rules[i] : i \in DOMAIN posture.rules}
             reached == {r \in rules : patternsIntersect(r.pattern, w)}
             covered == \E r \in reached : patternCovers(r.pattern, w)
             S == {Open} \cup {r.tier : r \in reached} \cup (IF covered THEN {} ELSE {HMAC})
  <2>1. resolveChannelTier(w, TRUE) = Strictest(S) BY DEF resolveChannelTier
  <2>2. \A r \in rules : r.tier \in {0, 1, 2} /\ r.pattern \in Seq(STRING) /\ validChannelAuthPattern(r.pattern) /\ r.pattern # <<>>
    BY RulesAre
  <2>3. S \subseteq {0, 1, 2} /\ 0 \in S BY <2>2 DEF Open, HMAC
  <2>4. Strictest(S) \in S /\ \A u \in S : u <= Strictest(S) BY <2>3, StrictestIs
  <2>5. FirstHit(c) \in S
    <3>1. CASE FirstHit(c) = HMAC /\ \A i \in DOMAIN posture.rules : ~subjectMatchesPattern(posture.rules[i].pattern, c)
      <4>1. \A r \in rules : ~subjectMatchesPattern(r.pattern, c) BY <3>1
      <4>2. ~covered
        <5> SUFFICES ASSUME NEW r \in reached, patternCovers(r.pattern, w) PROVE FALSE OBVIOUS
        <5>1. subjectMatchesPattern(r.pattern, c) BY <2>2, CoverMatches
        <5> QED BY <4>1, <5>1
      <4>3. HMAC \in S BY <4>2
      <4> QED BY <3>1, <4>3
    <3>2. CASE \E i \in DOMAIN posture.rules : FirstHit(c) = posture.rules[i].tier
                                               /\ subjectMatchesPattern(posture.rules[i].pattern, c)
      <4>1. PICK r \in rules : FirstHit(c) = r.tier /\ subjectMatchesPattern(r.pattern, c) BY <3>2
      <4>2. patternsIntersect(r.pattern, w) BY <2>2, <4>1, MatchesMeet
      <4>3. r \in reached BY <4>2
      <4> QED BY <4>1, <4>3
    <3> QED BY <1>1, <3>1, <3>2
  <2>6. resolveChannelTier(w, Wild(w)) = Strictest(S)
    <3>1. Wild(w) = TRUE BY <1>4 DEF Wild
    <3> QED BY <2>1, <3>1
  <2> HIDE DEF S
  <2> QED BY <1>2, <2>3, <2>4, <2>5, <2>6
<1> QED BY <1>3, <1>4

LEMMA GrantedIsCleared ==
  ASSUME posture \in Postures, NEW call \in CallState, call.op \in {"pub", "sub"}, Granted(call), NEW c \in Seq(STRING),
         subjectMatchesPattern(call.channel, c) \/ (call.op = "pub" /\ call.channel = c)
  PROVE Cleared(call, c)
<1>1. call.channel \in Seq(STRING) /\ call.channel # <<>> BY DEF CallState, Granted
<1>2. /\ FirstHit(c) \in {0, 1, 2} /\ TierOf(call) \in {0, 1, 2} /\ FirstHit(c) <= TierOf(call)
  <2>1. CASE call.op = "sub"
    <3>1. subjectMatchesPattern(call.channel, c) BY <2>1
    <3>2. (call.op = "sub" /\ Wild(call.channel)) = Wild(call.channel) BY <2>1 DEF Wild
    <3>3. TierOf(call) = resolveChannelTier(call.channel, Wild(call.channel)) BY <3>2 DEF TierOf
    <3> QED BY <1>1, <3>1, <3>3, TierCovers
  <2>2. CASE call.op = "pub"
    <3>1. ~Wild(call.channel) BY <2>2 DEF Granted
    <3>2. call.channel = c BY <1>1, <2>2, <3>1, LiteralMatches
    <3>3. (call.op = "sub" /\ Wild(call.channel)) = FALSE BY <2>2
    <3>4. resolveChannelTier(c, FALSE) = FirstHit(c) BY DEF resolveChannelTier
    <3>5. TierOf(call) = FirstHit(c) BY <3>2, <3>3, <3>4 DEF TierOf
    <3>6. FirstHit(c) \in {0, 1, 2} BY FirstHitIs, RulesAre DEF HMAC
    <3> QED BY <3>5, <3>6
  <2> QED BY <2>1, <2>2
<1>3. CASE posture.insecure BY <1>3 DEF Cleared
<1>4. CASE TierOf(call) = Open
  <2>1. FirstHit(c) = Open BY <1>2, <1>4 DEF Open
  <2> QED BY <2>1 DEF Cleared
<1>5. CASE call.verified /\ (TierOf(call) = Delegate => call.consulted)
  <2>1. FirstHit(c) = Delegate => TierOf(call) = Delegate BY <1>2 DEF Delegate
  <2> QED BY <1>5, <2>1 DEF Cleared
<1> QED BY <1>3, <1>4, <1>5 DEF Granted

LEMMA NoCallIs == NoCall_ \in CallState /\ NoCall_.at = "idle"
<1>1. <<>> \in Seq(STRING) OBVIOUS
<1> QED BY <1>1 DEF NoCall_, CallState

LEMMA ChannelsInit == ChannelInit => ChannelInv
<1> SUFFICES ASSUME ChannelInit PROVE ChannelInv OBVIOUS
<1>1. calling \in [Senders \cup Watchers -> CallState] /\ \A p \in Senders \cup Watchers : calling[p] = NoCall_
  BY NoCallIs DEF ChannelInit
<1>2. watching \in [Watchers -> CallState] /\ \A q \in Watchers : watching[q] = NoCall_ BY NoCallIs DEF ChannelInit
<1>3. ChannelsGuarded BY DEF ChannelInit, ChannelsGuarded
<1>4. \A p \in Senders \cup Watchers : calling[p].at # "idle" => Granted(calling[p]) BY <1>1, NoCallIs
<1> QED BY <1>1, <1>2, <1>3, <1>4 DEF ChannelInv, ChannelInit

\* A step whose event, if any, is guarded.
LEMMA ChannelMoves ==
  ASSUME ChannelInv, UNCHANGED posture, ChannelsGuarded', slotted' \subseteq Owners \cup {"ps"},
         calling' \in [Senders \cup Watchers -> CallState], watching' \in [Watchers -> CallState],
         \A p \in Senders \cup Watchers : calling'[p] = calling[p] \/ calling'[p].at = "idle" \/ Granted(calling'[p]),
         \A q \in Watchers : watching'[q] \in {watching[q], NoCall_} \/ (watching'[q].op = "sub" /\ Granted(watching'[q]))
  PROVE ChannelInv'
<1>1. \A p \in Senders \cup Watchers : calling'[p].at # "idle" => Granted(calling'[p]) BY DEF ChannelInv
<1>2. \A q \in Watchers : watching'[q] # NoCall_ => watching'[q].op = "sub" /\ Granted(watching'[q]) BY DEF ChannelInv
<1>3. ASSUME NEW p \in Senders \cup Watchers, calling'[p].at # "idle" PROVE Granted(calling[p])'
  <2>1. Granted(calling'[p]) BY <1>1, <1>3
  <2> DEFINE call == calling'[p]
  <2>2. Granted(call) BY <2>1
  <2> QED BY <2>2 DEF Granted, TierOf, resolveChannelTier, FirstHit
<1>4. ASSUME NEW q \in Watchers, watching'[q] # NoCall_ PROVE watching'[q].op = "sub" /\ Granted(watching[q])'
  <2>1. Granted(watching'[q]) /\ watching'[q].op = "sub" BY <1>2, <1>4
  <2> QED BY <2>1 DEF Granted, TierOf, resolveChannelTier, FirstHit
<1> QED BY <1>3, <1>4 DEF ChannelInv

\* A step that publishes nothing.
LEMMA Quiet == ASSUME latest' = {} PROVE ChannelsGuarded'
BY DEF ChannelsGuarded

LEMMA CallsOne ==
  ASSUME ChannelInv, NEW p \in Senders \cup Watchers, NEW call \in CallState, Calls(p, call)
  PROVE /\ calling' \in [Senders \cup Watchers -> CallState] /\ calling'[p] = call
        /\ \A q \in Senders \cup Watchers : q # p => calling'[q] = calling[q]
BY DEF ChannelInv, Calls

LEMMA ChannelChecks ==
  ASSUME ChannelInv, NEW p \in Senders \cup Watchers, NEW op \in {"pub", "sub"}, NEW c \in Seq(STRING), c # <<>>,
         op = "pub" => ~Wild(c), NEW body \in Bodies \cup {{}}, NEW t, checkChannelAuth(p, op, c, body, t),
         latest' = {}, UNCHANGED <<posture, slotted, watching>>
  PROVE ChannelInv'
<1> DEFINE tier == resolveChannelTier(c, op = "sub" /\ Wild(c))
           ok == verifyChannelHMAC(c, t)
           call(at) == [op |-> op, channel |-> c, body |-> body, verified |-> ok, consulted |-> tier = Delegate, at |-> at]
<1>1. ok \in BOOLEAN BY DEF verifyChannelHMAC
<1>2. (tier = Delegate) \in BOOLEAN OBVIOUS
<1>3. \/ tier = Open /\ Calls(p, call("passed"))
      \/ tier # Open /\ posture.insecure /\ Calls(p, call("passed"))
      \/ tier # Open /\ ~posture.insecure /\ ~ok /\ Calls(p, NoCall_)
      \/ /\ tier # Open /\ ~posture.insecure /\ ok
         /\ Calls(p, call(IF tier = Delegate /\ delegate THEN "delegate" ELSE "passed"))
  BY DEF checkChannelAuth
<1> DEFINE Good(x) == \/ tier = Open \/ posture.insecure \/ ok
<1>4. \/ Calls(p, NoCall_)
      \/ \E at \in {"delegate", "passed"} : Calls(p, call(at)) /\ (tier = Open \/ posture.insecure \/ ok)
  BY <1>3
<1>5. CASE Calls(p, NoCall_)
  <2>1. /\ calling' \in [Senders \cup Watchers -> CallState] /\ calling'[p].at = "idle"
        /\ \A q \in Senders \cup Watchers : q # p => calling'[q] = calling[q]
    BY <1>5, CallsOne, NoCallIs
  <2> QED BY <2>1, Quiet, ChannelMoves DEF ChannelInv
<1>6. ASSUME NEW at \in {"delegate", "passed"}, Calls(p, call(at)), tier = Open \/ posture.insecure \/ ok PROVE ChannelInv'
  <2> DEFINE x == call(at)
  <2>1. x \in CallState BY <1>1, <1>2 DEF CallState
  <2>2. x.channel = c /\ x.op = op /\ x.verified = ok /\ x.consulted = (tier = Delegate) OBVIOUS
  <2>3. Calls(p, x) BY <1>6
  <2> HIDE DEF x
  <2>4. TierOf(x) = tier BY <2>2 DEF TierOf
  <2> HIDE DEF tier, ok
  <2>5. Granted(x) BY <1>6, <2>2, <2>4 DEF Granted
  <2>6. /\ calling' \in [Senders \cup Watchers -> CallState] /\ calling'[p] = x
        /\ \A q \in Senders \cup Watchers : q # p => calling'[q] = calling[q]
    BY <2>1, <2>3, CallsOne
  <2>7. \A q \in Senders \cup Watchers : calling'[q] = calling[q] \/ Granted(calling'[q]) BY <2>5, <2>6
  <2> QED BY <2>6, <2>7, Quiet, ChannelMoves DEF ChannelInv
<1> QED BY <1>4, <1>5, <1>6

LEMMA ChannelPublishes == ASSUME ChannelInv, NEW p \in Senders, psPub(p) PROVE ChannelInv'
<1> DEFINE call == calling[p]
           e == lookupBinding(call.channel)
           hearing == {r \in Watchers : watching[r] # NoCall_ /\ subjectMatchesPattern(watching[r].channel, call.channel)}
           ev == [channel |-> call.channel, body |-> call.body, type |-> e.type,
                  checked |-> posture.enforce /\ Known(slotted, e.type), by |-> call,
                  reached |-> {watching[q] : q \in hearing}]
<1>1. /\ call.at = "passed" /\ call.op = "pub" /\ Calls(p, NoCall_)
      /\ UNCHANGED <<posture, ticks, signed, delegate, slotted, bindIndex, watching>>
      /\ IF (e.type = Untyped /\ posture.strict) \/ (posture.enforce /\ ~validatePayload(e, call.body))
         THEN latest' = {} ELSE latest' = {ev}
  BY DEF psPub
<1>2. /\ calling' \in [Senders \cup Watchers -> CallState] /\ calling'[p].at = "idle"
      /\ \A q \in Senders \cup Watchers : q # p => calling'[q] = calling[q]
  BY <1>1, CallsOne, NoCallIs
<1>3. ASSUME latest' = {} PROVE ChannelInv' BY <1>1, <1>2, <1>3, Quiet, ChannelMoves DEF ChannelInv
<1>4. ASSUME ~(e.type = Untyped /\ posture.strict), ~(posture.enforce /\ ~validatePayload(e, call.body)), latest' = {ev}
      PROVE ChannelInv'
  <2>1. call \in CallState /\ Granted(call) /\ posture \in Postures BY <1>1 DEF ChannelInv
  <2>2. call.channel \in Seq(STRING) BY <2>1 DEF CallState
  <2> DEFINE c == call.channel
  <2>3. Cleared(call, c) BY <1>1, <2>1, <2>2, GrantedIsCleared
  <2>4. \A x \in ev.reached : Cleared(x, c)
    <3> SUFFICES ASSUME NEW q \in hearing PROVE Cleared(watching[q], c) OBVIOUS
    <3>1. watching[q] \in CallState /\ watching[q].op = "sub" /\ Granted(watching[q]) BY DEF ChannelInv
    <3> QED BY <2>1, <2>2, <3>1, GrantedIsCleared
  <2>5. posture.strict => e.type # Untyped BY <1>4
  <2>6. posture.enforce /\ Known(slotted, e.type) => e.type \in call.body
    <3> SUFFICES ASSUME posture.enforce, Known(slotted, e.type) PROVE e.type \in call.body OBVIOUS
    <3>1. validatePayload(e, call.body) BY <1>4
    <3>2. ~Known(slotted, Untyped) BY ChannelAuthAssumption DEF ChannelInv, Known
    <3>3. NoEntry_.type = Untyped BY Zenon DEF NoEntry_
    <3>4. e # NoEntry_ BY <3>2, <3>3
    <3> QED BY <3>1, <3>4 DEF validatePayload
  <2>7. /\ ev.channel = c /\ ev.by = call /\ ev.type = e.type /\ ev.body = call.body
        /\ ev.checked = (posture.enforce /\ Known(slotted, e.type))
    OBVIOUS
  <2>9. \E k : k = ev OBVIOUS
  <2>10. PICK k : k = ev BY <2>9
  <2>11. /\ latest' = {k} /\ k.channel = c /\ k.reached = ev.reached /\ k.by = call
         /\ k.type = e.type /\ k.body = call.body /\ k.checked = (posture.enforce /\ Known(slotted, e.type))
    BY <1>4, <2>7, <2>10
  <2> HIDE DEF ev
  <2>8. ChannelsGuarded'
    <3>1. ASSUME NEW x \in k.reached \cup {k.by} PROVE Cleared(x, k.channel)'
      <4>1. Cleared(x, k.channel) BY <2>3, <2>4, <2>11
      <4> QED BY <1>1, <4>1 DEF Cleared, FirstHit
    <3>2. posture'.strict => k.type # Untyped BY <1>1, <2>5, <2>11
    <3>3. k.checked => k.type \in k.body BY <2>6, <2>11
    <3> QED BY <2>11, <3>1, <3>2, <3>3 DEF ChannelsGuarded
  <2> QED BY <1>1, <1>2, <2>8, ChannelMoves DEF ChannelInv
<1> QED BY <1>1, <1>3, <1>4

LEMMA ChannelStep == ASSUME ChannelInv, [ChannelNext]_channelVars PROVE ChannelInv'
<1>0. Subjects \cup Asked \subseteq Seq(STRING) BY ChannelAuthAssumption
<1>1. ASSUME NEW b \in Callers_, NEW k \in Kids, NEW c \in Asked \cup Subjects, SignSubscriptionToken(b, k, c) PROVE ChannelInv'
  <2>1. latest' = {} /\ UNCHANGED <<posture, slotted, bindIndex, calling, watching>>
    BY <1>1 DEF SignSubscriptionToken
  <2> QED BY <2>1, Quiet, ChannelMoves DEF ChannelInv
<1>2. ASSUME NEW p \in Senders, psPubEnters(p) PROVE ChannelInv'
  <2>1. PICK c \in Subjects, body \in Bodies, t \in signed \cup {NoSignature} :
           c # <<>> /\ ~Wild(c) /\ checkChannelAuth(p, "pub", c, body, t)
    BY <1>2 DEF psPubEnters
  <2>2. latest' = {} /\ UNCHANGED <<posture, slotted, watching>> BY <1>2 DEF psPubEnters
  <2> QED BY <1>0, <2>1, <2>2, ChannelChecks
<1>3. ASSUME NEW p \in Senders, psPub(p) PROVE ChannelInv' BY <1>3, ChannelPublishes
<1>4. ASSUME NEW p \in Watchers, psSubEnters(p) PROVE ChannelInv'
  <2>1. PICK c \in Asked, t \in signed \cup {NoSignature} : c # <<>> /\ checkChannelAuth(p, "sub", c, {}, t)
    BY <1>4 DEF psSubEnters
  <2>2. latest' = {} /\ UNCHANGED <<posture, slotted, watching>> BY <1>4 DEF psSubEnters
  <2> QED BY <1>0, <2>1, <2>2, ChannelChecks
<1>5. ASSUME NEW p \in Watchers, psSub(p) PROVE ChannelInv'
  <2>1. /\ calling' \in [Senders \cup Watchers -> CallState] /\ calling'[p].at = "idle"
        /\ \A q \in Senders \cup Watchers : q # p => calling'[q] = calling[q]
    BY <1>5, CallsOne, NoCallIs DEF psSub
  <2>2. calling[p].op = "sub" /\ Granted(calling[p]) /\ calling[p] \in CallState BY <1>5 DEF psSub, ChannelInv
  <2>3. /\ watching' \in [Watchers -> CallState] /\ watching'[p] = calling[p]
        /\ \A q \in Watchers : q # p => watching'[q] = watching[q]
    BY <1>5, <2>2 DEF psSub, ChannelInv
  <2>4. \A q \in Watchers : watching'[q] = watching[q] \/ (watching'[q].op = "sub" /\ Granted(watching'[q]))
    BY <2>2, <2>3
  <2> QED BY <1>5, <2>1, <2>3, <2>4, Quiet, ChannelMoves DEF psSub, ChannelInv
<1>6. ASSUME NEW p \in Watchers, psSubEnds(p) PROVE ChannelInv'
  <2>1. watching' \in [Watchers -> CallState] /\ \A q \in Watchers : watching'[q] \in {watching[q], NoCall_}
    BY <1>6, NoCallIs DEF psSubEnds, ChannelInv
  <2> QED BY <1>6, <2>1, Quiet, ChannelMoves DEF psSubEnds, ChannelInv
<1>7. ASSUME NEW p \in Senders \cup Watchers, consultPubSubDelegate(p) PROVE ChannelInv'
  <2> DEFINE x == [calling[p] EXCEPT !.at = "passed"]
  <2>1. calling[p] \in CallState /\ Granted(calling[p]) BY <1>7 DEF consultPubSubDelegate, ChannelInv
  <2>2. /\ x \in CallState /\ x.op = calling[p].op /\ x.channel = calling[p].channel
        /\ x.verified = calling[p].verified /\ x.consulted = calling[p].consulted
    BY <2>1 DEF CallState
  <2>3. Calls(p, NoCall_) \/ Calls(p, x) BY <1>7 DEF consultPubSubDelegate
  <2> HIDE DEF x
  <2>4. Granted(x) BY <2>1, <2>2 DEF Granted, TierOf
  <2>5. /\ calling' \in [Senders \cup Watchers -> CallState] /\ (calling'[p].at = "idle" \/ Granted(calling'[p]))
        /\ \A q \in Senders \cup Watchers : q # p => calling'[q] = calling[q]
    <3>1. CASE Calls(p, NoCall_) BY <3>1, CallsOne, NoCallIs
    <3>2. CASE Calls(p, x) BY <2>2, <2>4, <3>2, CallsOne
    <3> QED BY <2>3, <3>1, <3>2
  <2> QED BY <1>7, <2>5, Quiet, ChannelMoves DEF consultPubSubDelegate, ChannelInv
<1>8. ASSUME NEW s \in Owners, SlotJoins(s) \/ SlotLeaves(s) PROVE ChannelInv'
  <2>1. slotted' \subseteq Owners \cup {"ps"} BY <1>8 DEF SlotJoins, SlotLeaves, ChannelInv
  <2>2. latest' = {} /\ UNCHANGED <<posture, calling, watching>> BY <1>8 DEF SlotJoins, SlotLeaves
  <2> QED BY <2>1, <2>2, Quiet, ChannelMoves DEF ChannelInv
<1>9. CASE DelegateChanges \/ TokensAge BY <1>9, Quiet, ChannelMoves DEF DelegateChanges, TokensAge, ChannelInv
<1>10. CASE UNCHANGED channelVars
  <2>1. UNCHANGED <<posture, slotted, calling, watching, latest>> BY <1>10 DEF channelVars
  <2>2. ChannelsGuarded'
    <3> SUFFICES ASSUME NEW ev \in latest
                 PROVE /\ \A call \in ev.reached \cup {ev.by} : Cleared(call, ev.channel)'
                       /\ posture'.strict => ev.type # Untyped
                       /\ ev.checked => ev.type \in ev.body
      BY <2>1 DEF ChannelsGuarded
    <3>1. /\ \A call \in ev.reached \cup {ev.by} : Cleared(call, ev.channel)
          /\ posture.strict => ev.type # Untyped
          /\ ev.checked => ev.type \in ev.body
      BY DEF ChannelInv, ChannelsGuarded
    <3>2. ASSUME NEW call \in ev.reached \cup {ev.by} PROVE Cleared(call, ev.channel)'
      <4>1. Cleared(call, ev.channel) BY <3>1
      <4> QED BY <2>1, <4>1 DEF Cleared, FirstHit
    <3> QED BY <2>1, <3>1, <3>2
  <2> QED BY <2>1, <2>2, ChannelMoves DEF ChannelInv
<1> QED BY <1>1, <1>2, <1>3, <1>4, <1>5, <1>6, <1>7, <1>8, <1>9, <1>10 DEF ChannelNext

(***************************************************************************)
(* Nobody publishes to a channel, or hears from it through any pattern,    *)
(* without having passed what the rule on that very channel asks for, for  *)
(* any rules, channels, patterns and clients (auth_channel.go              *)
(* checkChannelAuth, resolveChannelTier); and an event's type was checked  *)
(* against its body (channel_bindings.go).                                 *)
(***************************************************************************)
THEOREM ChannelsGuardedHolds == ChannelSpec => []ChannelsGuarded
<1>1. ChannelInv => ChannelsGuarded BY DEF ChannelInv
<1>2. ChannelInv /\ [ChannelNext]_channelVars => ChannelInv' BY ChannelStep
<1> QED BY <1>1, <1>2, ChannelsInit, PTL DEF ChannelSpec

-----------------------------------------------------------------------------
(* Globs: the positions from which the rest of a path matches the rest of  *)
(* a pattern, once by what a glob means and once as the code finds them.   *)

\* The step of a pattern's segment over a path, from after position a to after b.
Takes(pats, segs, i, a, b) ==
    IF pats[i] = "**" THEN b >= a ELSE b = a + 1 /\ pats[i] \in {"*", segs[b]}
Cuts(pats, segs, i, a, end) ==
    /\ end \in [(i - 1)..Len(pats) -> 0..Len(segs)]
    /\ end[i - 1] = a /\ end[Len(pats)] = Len(segs)
    /\ \A k \in i..Len(pats) : Takes(pats, segs, k, end[k - 1], end[k])
Fits(pats, segs, i) == {j \in 1..(Len(segs) + 1) : \E end : Cuts(pats, segs, i, j - 1, end)}

LEMMA FitsDenotes ==
  ASSUME NEW pats \in Seq(STRING), NEW segs \in Seq(STRING)
  PROVE Denotes(pats, segs) <=> 1 \in Fits(pats, segs, 1)
<1> DEFINE n == Len(pats)
           l == Len(segs)
<1>1. n \in Nat /\ l \in Nat /\ 1 - 1 = 0 /\ 1 \in 1..(l + 1) OBVIOUS
<1>2. Denotes(pats, segs) <=> \E end : Cuts(pats, segs, 1, 0, end)
  BY <1>1 DEF Denotes, Cuts, Takes
<1> QED BY <1>1, <1>2 DEF Fits

LEMMA FitsEnd ==
  ASSUME NEW pats \in Seq(STRING), NEW segs \in Seq(STRING)
  PROVE Fits(pats, segs, Len(pats) + 1) = {Len(segs) + 1}
<1> DEFINE n == Len(pats)
           l == Len(segs)
<1>1. n \in Nat /\ l \in Nat /\ (n + 1) - 1 = n /\ (n + 1)..n = {} /\ n..n = {n} OBVIOUS
<1> HIDE DEF n, l
<1>2. ASSUME NEW j \in 1..(l + 1), NEW end, Cuts(pats, segs, n + 1, j - 1, end) PROVE j = l + 1
  <2>1. end[n] = j - 1 /\ end[n] = l BY <1>1, <1>2 DEF Cuts, n, l
  <2> QED BY <1>1, <2>1
<1>3. Cuts(pats, segs, n + 1, (l + 1) - 1, [k \in n..n |-> l])
  <2> DEFINE end == [k \in n..n |-> l]
  <2>1. end \in [n..n -> 0..l] /\ end[n] = l BY <1>1
  <2> HIDE DEF end
  <2>2. (l + 1) - 1 = l BY <1>1
  <2> QED BY <1>1, <2>1, <2>2 DEF Cuts, n, l, end
<1>4. l + 1 \in 1..(l + 1) BY <1>1
<1> QED BY <1>2, <1>3, <1>4 DEF Fits, n, l

LEMMA FitsMore ==
  ASSUME NEW pats \in Seq(STRING), NEW segs \in Seq(STRING), NEW i \in 1..Len(pats), NEW j \in 1..(Len(segs) + 1)
  PROVE j \in Fits(pats, segs, i) <=> \E k \in Fits(pats, segs, i + 1) : Takes(pats, segs, i, j - 1, k - 1)
<1> DEFINE n == Len(pats)
           l == Len(segs)
<1>1. n \in Nat /\ l \in Nat /\ i \in Nat /\ 1 <= i /\ i <= n /\ j \in Nat /\ 1 <= j /\ j <= l + 1 /\ (i + 1) - 1 = i OBVIOUS
<1> HIDE DEF n, l
<1>2. ASSUME NEW end, Cuts(pats, segs, i, j - 1, end)
      PROVE \E k \in Fits(pats, segs, i + 1) : Takes(pats, segs, i, j - 1, k - 1)
  <2> DEFINE k == end[i] + 1
             rest == [x \in i..n |-> end[x]]
  <2>1. /\ end \in [(i - 1)..n -> 0..l] /\ end[i - 1] = j - 1 /\ end[n] = l
        /\ \A x \in i..n : Takes(pats, segs, x, end[x - 1], end[x])
    BY <1>2 DEF Cuts, n, l
  <2>2. i \in (i - 1)..n /\ i \in i..n /\ n \in i..n BY <1>1
  <2>3. end[i] \in 0..l BY <2>1, <2>2
  <2>4. k \in 1..(l + 1) /\ k - 1 = end[i] BY <1>1, <2>3
  <2>5. \A x \in i..n : x \in (i - 1)..n BY <1>1
  <2>6. rest \in [i..n -> 0..l] /\ rest[i] = end[i] /\ rest[n] = l BY <2>1, <2>2, <2>5
  <2>7. \A x \in (i + 1)..n : x \in i..n /\ x - 1 \in i..n BY <1>1
  <2>8. \A x \in (i + 1)..n : Takes(pats, segs, x, rest[x - 1], rest[x]) BY <2>1, <2>7
  <2> HIDE DEF rest, k
  <2>9. Cuts(pats, segs, i + 1, k - 1, rest) BY <1>1, <2>4, <2>6, <2>8 DEF Cuts, n, l
  <2>10. k \in Fits(pats, segs, i + 1) BY <2>4, <2>9 DEF Fits, l
  <2>11. Takes(pats, segs, i, j - 1, k - 1) BY <2>1, <2>2, <2>4
  <2> QED BY <2>10, <2>11
<1>3. ASSUME NEW k \in Fits(pats, segs, i + 1), Takes(pats, segs, i, j - 1, k - 1) PROVE \E end : Cuts(pats, segs, i, j - 1, end)
  <2>1. PICK rest : Cuts(pats, segs, i + 1, k - 1, rest) BY <1>3 DEF Fits
  <2>2. k \in 1..(l + 1) BY <1>3 DEF Fits, l
  <2>3. /\ rest \in [i..n -> 0..l] /\ rest[i] = k - 1 /\ rest[n] = l
        /\ \A x \in (i + 1)..n : Takes(pats, segs, x, rest[x - 1], rest[x])
    BY <1>1, <2>1 DEF Cuts, n, l
  <2> DEFINE end == [x \in (i - 1)..n |-> IF x = i - 1 THEN j - 1 ELSE rest[x]]
  <2>4. \A x \in (i - 1)..n : x # i - 1 => x \in i..n BY <1>1
  <2>5. j - 1 \in 0..l BY <1>1
  <2>6. end \in [(i - 1)..n -> 0..l] BY <2>3, <2>4, <2>5
  <2>7. i - 1 \in (i - 1)..n /\ i \in (i - 1)..n /\ n \in (i - 1)..n /\ i # i - 1 /\ n # i - 1 BY <1>1
  <2>8. end[i - 1] = j - 1 /\ end[i] = k - 1 /\ end[n] = l BY <2>3, <2>7
  <2>9. ASSUME NEW x \in i..n PROVE Takes(pats, segs, x, end[x - 1], end[x])
    <3>1. CASE x = i BY <1>3, <2>8, <3>1
    <3>2. CASE x # i
      <4>1. x \in (i + 1)..n /\ x \in (i - 1)..n /\ x - 1 \in (i - 1)..n /\ x # i - 1 /\ x - 1 # i - 1 BY <1>1, <3>2
      <4>2. end[x] = rest[x] /\ end[x - 1] = rest[x - 1] BY <4>1
      <4> QED BY <2>3, <4>1, <4>2
    <3> QED BY <3>1, <3>2
  <2> HIDE DEF end
  <2> QED BY <2>6, <2>8, <2>9 DEF Cuts, n, l
<1> QED BY <1>2, <1>3 DEF Fits

\* The recurrence of globMatchSegments.
Walked(pats, segs, m) ==
    m = [i \in 1..(Len(pats) + 1) |->
            IF i > Len(pats) THEN {Len(segs) + 1}
            ELSE IF pats[i] = "**" THEN {j \in 1..(Len(segs) + 1) : \E k \in m[i + 1] : j <= k}
            ELSE {j \in 1..Len(segs) : pats[i] \in {"*", segs[j]} /\ j + 1 \in m[i + 1]}]

LEMMA FitsStep ==
  ASSUME NEW pats \in Seq(STRING), NEW segs \in Seq(STRING), NEW i \in 1..Len(pats)
  PROVE Fits(pats, segs, i) =
           IF pats[i] = "**" THEN {j \in 1..(Len(segs) + 1) : \E k \in Fits(pats, segs, i + 1) : j <= k}
           ELSE {j \in 1..Len(segs) : pats[i] \in {"*", segs[j]} /\ j + 1 \in Fits(pats, segs, i + 1)}
<1> DEFINE l == Len(segs)
           F == Fits(pats, segs, i + 1)
<1>1. l \in Nat OBVIOUS
<1>2. F \subseteq 1..(l + 1) /\ Fits(pats, segs, i) \subseteq 1..(l + 1) BY DEF Fits
<1>3. \A j \in 1..(l + 1) : j \in Fits(pats, segs, i) <=> \E k \in F : Takes(pats, segs, i, j - 1, k - 1) BY FitsMore
<1> HIDE DEF l, F
<1>4. CASE pats[i] = "**"
  <2>1. \A j \in 1..(l + 1), k \in F : Takes(pats, segs, i, j - 1, k - 1) <=> j <= k BY <1>1, <1>2, <1>4 DEF Takes
  <2>2. Fits(pats, segs, i) = {j \in 1..(l + 1) : \E k \in F : j <= k} BY <1>2, <1>3, <2>1
  <2> QED BY <1>4, <2>2 DEF l, F
<1>5. CASE pats[i] # "**"
  <2>1. \A j \in 1..(l + 1), k \in F : Takes(pats, segs, i, j - 1, k - 1) <=> k = j + 1 /\ pats[i] \in {"*", segs[j]}
    <3> SUFFICES ASSUME NEW j \in 1..(l + 1), NEW k \in F
                 PROVE Takes(pats, segs, i, j - 1, k - 1) <=> k = j + 1 /\ pats[i] \in {"*", segs[j]}
      OBVIOUS
    <3>1. k \in 1..(l + 1) BY <1>2
    <3>2. k - 1 = (j - 1) + 1 <=> k = j + 1 BY <1>1, <3>1
    <3>3. k = j + 1 => k - 1 = j BY <1>1, <3>1
    <3> QED BY <1>5, <3>2, <3>3 DEF Takes
  <2>2. \A j \in 1..(l + 1) : j + 1 \in F => j \in 1..l BY <1>1, <1>2
  <2>3. 1..l \subseteq 1..(l + 1) BY <1>1
  <2>4. Fits(pats, segs, i) = {j \in 1..l : pats[i] \in {"*", segs[j]} /\ j + 1 \in F} BY <1>2, <1>3, <2>1, <2>2, <2>3
  <2> QED BY <1>5, <2>4 DEF l, F
<1> QED BY <1>4, <1>5

LEMMA FitsWalked ==
  ASSUME NEW pats \in Seq(STRING), NEW segs \in Seq(STRING)
  PROVE Walked(pats, segs, [i \in 1..(Len(pats) + 1) |-> Fits(pats, segs, i)])
<1> DEFINE n == Len(pats)
           f == [i \in 1..(n + 1) |-> Fits(pats, segs, i)]
           row(i) == IF i > n THEN {Len(segs) + 1}
                     ELSE IF pats[i] = "**" THEN {j \in 1..(Len(segs) + 1) : \E k \in f[i + 1] : j <= k}
                     ELSE {j \in 1..Len(segs) : pats[i] \in {"*", segs[j]} /\ j + 1 \in f[i + 1]}
<1>1. n \in Nat OBVIOUS
<1>2. ASSUME NEW i \in 1..(n + 1) PROVE Fits(pats, segs, i) = row(i)
  <2>1. CASE i > n
    <3>1. i = n + 1 BY <1>1, <2>1
    <3> QED BY <2>1, <3>1, FitsEnd
  <2>2. CASE ~(i > n)
    <3>1. i \in 1..n /\ i + 1 \in 1..(n + 1) BY <1>1, <2>2
    <3>2. f[i + 1] = Fits(pats, segs, i + 1) BY <3>1
    <3> HIDE DEF f
    <3> QED BY <2>2, <3>1, <3>2, FitsStep
  <2> QED BY <2>1, <2>2
<1>3. f = [i \in 1..(n + 1) |-> row(i)] BY <1>2
<1> QED BY <1>3 DEF Walked

LEMMA WalkedOnce ==
  ASSUME NEW pats \in Seq(STRING), NEW segs \in Seq(STRING), NEW m, Walked(pats, segs, m)
  PROVE m[1] = Fits(pats, segs, 1)
<1> DEFINE n == Len(pats)
           T == {x \in Nat : x <= n /\ m[(n + 1) - x] # Fits(pats, segs, (n + 1) - x)}
<1>1. n \in Nat OBVIOUS
<1>2. SUFFICES ASSUME T # {} PROVE FALSE
  <2>1. n \in Nat /\ n <= n /\ (n + 1) - n = 1 BY <1>1
  <2> QED BY <1>2, <2>1
<1>3. PICK x \in T : \A y \in T : x <= y BY <1>2, LeastExists
<1> DEFINE i == (n + 1) - x
<1>4. x \in Nat /\ x <= n /\ i \in 1..(n + 1) /\ m[i] # Fits(pats, segs, i) BY <1>1, <1>3
<1> DEFINE row == IF i > n THEN {Len(segs) + 1}
                  ELSE IF pats[i] = "**" THEN {j \in 1..(Len(segs) + 1) : \E k \in m[i + 1] : j <= k}
                  ELSE {j \in 1..Len(segs) : pats[i] \in {"*", segs[j]} /\ j + 1 \in m[i + 1]}
<1>5. m[i] = row BY <1>4 DEF Walked
<1>6. CASE x = 0
  <2>1. i = n + 1 /\ i > n BY <1>1, <1>6
  <2> QED BY <1>4, <1>5, <2>1, FitsEnd
<1>7. CASE x # 0
  <2>1. x - 1 \in Nat /\ x - 1 <= n /\ (n + 1) - (x - 1) = i + 1 /\ ~(x <= x - 1) /\ i \in 1..n /\ ~(i > n) BY <1>1, <1>4, <1>7
  <2>2. x - 1 \notin T BY <1>3, <2>1
  <2>3. m[i + 1] = Fits(pats, segs, i + 1) BY <2>1, <2>2
  <2> HIDE DEF i, n, T
  <2>4. row = IF pats[i] = "**" THEN {j \in 1..(Len(segs) + 1) : \E k \in Fits(pats, segs, i + 1) : j <= k}
              ELSE {j \in 1..Len(segs) : pats[i] \in {"*", segs[j]} /\ j + 1 \in Fits(pats, segs, i + 1)}
    BY <2>1, <2>3
  <2> HIDE DEF row
  <2>5. i \in 1..Len(pats) BY <2>1 DEF n
  <2> QED BY <1>4, <1>5, <2>4, <2>5, FitsStep
<1> QED BY <1>6, <1>7

(***************************************************************************)
(* The matcher of the allowlist's globs finds what they mean, for every    *)
(* pattern and path (mcp_config.go globMatchSegments): wherever it lets    *)
(* "**" end, it loses no way to cut the path up.                           *)
(***************************************************************************)
THEOREM GlobsDenote ==
  \A pats, segs \in Seq(STRING) : globMatchSegments(pats, segs) <=> Denotes(pats, segs)
<1> SUFFICES ASSUME NEW pats \in Seq(STRING), NEW segs \in Seq(STRING)
             PROVE globMatchSegments(pats, segs) <=> Denotes(pats, segs)
  OBVIOUS
<1> DEFINE m == CHOOSE m : Walked(pats, segs, m)
<1>1. globMatchSegments(pats, segs) <=> 1 \in m[1] BY DEF globMatchSegments, Walked
<1>2. Walked(pats, segs, m) BY FitsWalked
<1> QED BY <1>1, <1>2, WalkedOnce, FitsDenotes

-----------------------------------------------------------------------------
(* The admin surface.  A token in the file is the one that was learned,    *)
(* and while it is being written nobody has learned any; a request under   *)
(* way has one deed of the scene; what it is about to write is its edit of *)
(* the revision it read; and what it was answered is what the globs of the *)
(* allowlist, then, mean, or a type that rides along with an expansion.    *)

VisitState(S) ==
    [at : {"idle", "serving", "get", "write", "done"}, home : Homes \cup {Blank}, deed : SUBSET Deed,
     bearer : Nat, via : {Blank, "public", "delegate", "bearer"}, seed : Config, cur : Config,
     rev : Nat, nth : Nat, sees : SUBSET S]

Revision == Config \cup {NoConfig, BadConfig}
AdminData ==
    /\ tokenFile \in [Homes -> Seq(Nat)] /\ booted \in [Homes -> {"down", "writing", "up"}]
    /\ adminToken \in [Homes -> Nat] /\ learned \in [Homes -> Nat] /\ drawn \in Nat
    /\ scene \in Scenes /\ allowLog \in Seq(Revision)
    /\ mcpConfig \in [Homes -> Config \cup {NoConfig}]
    /\ \E S : visit \in [Visits -> VisitState(S)]
TokenInv ==
    /\ \A g \in Durable :
        /\ tokenFile[g] = <<>> => learned[g] = 0 /\ booted[g] = "down"
        /\ tokenFile[g] # <<>> => learned[g] = tokenFile[g][1]
        /\ booted[g] = "up" => adminToken[g] = learned[g]
    /\ \A g \in Homes : booted[g] = "writing" => g \in Durable /\ tokenFile[g] # <<>> /\ learned[g] = 0

OneDeed(q, v) ==
    v.at \in {"serving", "get", "write"} =>
        v.home \in Homes /\ \E d \in scene.deeds[q] : v.deed = {d} /\ (v.at # "serving" => d.op = "edit")
WritesEdit(v) ==
    v.at = "write" => /\ v.rev <= Len(allowLog)
                      /\ v.rev # 0 => \A d \in v.deed : v.cur = Edited(d, Decoded(allowLog[v.rev]))
Consented(v) ==
    v.at = "serving" => \/ v.via = "delegate"
                        \/ v.via = "public" /\ \A d \in v.deed : d.public
                        \/ v.bearer # 0 /\ (v.home \in Durable => v.bearer = learned[v.home])
Shown(v) ==
    v.at = "done" => \A p \in v.sees :
        \/ p \in AllPaths /\ Permits(v.cur, p)
        \/ \E d \in v.deed : RidesAlong(v.cur, d.entry, p)
VisitOk(q, v) == OneDeed(q, v) /\ WritesEdit(v) /\ Consented(v) /\ Shown(v)

AdminInv == AdminData /\ TokenInv /\ EditsKept /\ \A q \in Visits : VisitOk(q, visit[q])

LEMMA EmptyIsConfig == EmptyConfig \in Config
BY DEF EmptyConfig, Config

LEMMA NoVisitIs ==
  /\ \A S : NoVisit \in VisitState(S) 
  /\ NoVisit.at = "idle" /\ NoVisit.home = Blank /\ NoVisit.sees = {}
BY EmptyIsConfig DEF NoVisit, VisitState

LEMMA VisitGrows == ASSUME NEW S, NEW T, S \subseteq T PROVE VisitState(S) \subseteq VisitState(T)
BY DEF VisitState

LEMMA EditedIs ==
  ASSUME NEW d \in Deed, d.part # Blank, NEW cfg \in Config PROVE Edited(d, cfg) \in Config
<1>1. d.part \in {"include", "exclude", "auto"} /\ d.on \in BOOLEAN /\ d.entry \in Seq(STRING) BY DEF Deed
<1>2. cfg.include \in SUBSET Seq(STRING) /\ cfg.exclude \in SUBSET Seq(STRING) /\ cfg.auto \in BOOLEAN BY DEF Config
<1>3. CASE d.part = "include"
  <2> DEFINE s == IF d.on THEN cfg.include \cup {d.entry} ELSE cfg.include \ {d.entry}
  <2>1. s \in SUBSET Seq(STRING) BY <1>1, <1>2
  <2>2. Edited(d, cfg) = [cfg EXCEPT !.include = s] BY <1>3 DEF Edited
  <2> HIDE DEF s
  <2> QED BY <2>1, <2>2 DEF Config
<1>4. CASE d.part = "exclude"
  <2> DEFINE s == IF d.on THEN cfg.exclude \cup {d.entry} ELSE cfg.exclude \ {d.entry}
  <2>1. s \in SUBSET Seq(STRING) BY <1>1, <1>2
  <2>2. Edited(d, cfg) = [cfg EXCEPT !.exclude = s] BY <1>4 DEF Edited
  <2> HIDE DEF s
  <2> QED BY <2>1, <2>2 DEF Config
<1>5. CASE d.part = "auto"
  <2>2. Edited(d, cfg) = [cfg EXCEPT !.auto = d.on] BY <1>5 DEF Edited
  <2> QED BY <1>1, <2>2 DEF Config
<1> QED BY <1>1, <1>3, <1>4, <1>5

LEMMA DeedsAre ==
  ASSUME AdminData, NEW q \in Visits, NEW d \in scene.deeds[q]
  PROVE d \in Deed /\ (d.op = "edit" => d.part # Blank)
BY AdminSurfaceAssumption DEF AdminData, Scene

LEMMA HeldConfig == ASSUME AdminData, NEW g \in Homes PROVE ConfigOf(g) \in Config
BY EmptyIsConfig DEF AdminData, ConfigOf

\* What a visit has established stays so.
LEMMA VisitStays ==
  ASSUME AdminData, NEW q \in Visits, NEW v, VisitOk(q, v), UNCHANGED scene,
         \A g \in Homes : learned[g] # 0 => learned'[g] = learned[g],
         Len(allowLog) <= Len(allowLog'), \A i \in 1..Len(allowLog) : allowLog'[i] = allowLog[i],
         v.rev \in Nat
  PROVE VisitOk(q, v)'
<1>1. OneDeed(q, v)' BY DEF VisitOk, OneDeed
<1>2. WritesEdit(v)'
  <2> SUFFICES ASSUME v.at = "write" PROVE /\ v.rev <= Len(allowLog')
                                           /\ v.rev # 0 => \A d \in v.deed : v.cur = Edited(d, Decoded(allowLog'[v.rev]))
    BY DEF WritesEdit
  <2>1. v.rev <= Len(allowLog) /\ (v.rev # 0 => \A d \in v.deed : v.cur = Edited(d, Decoded(allowLog[v.rev]))) BY DEF VisitOk, WritesEdit
  <2>2. Len(allowLog) \in Nat BY DEF AdminData
  <2>3. v.rev # 0 => v.rev \in 1..Len(allowLog) BY <2>1, <2>2
  <2>4. v.rev <= Len(allowLog') 
    <3>1. v.rev <= Len(allowLog) /\ Len(allowLog) <= Len(allowLog') BY <2>1
    <3> QED BY <3>1, <2>2
  <2> QED BY <2>1, <2>3, <2>4
<1>3. Consented(v)'
  <2>1. Durable \subseteq Homes BY AdminSurfaceAssumption
  <2> QED BY <2>1 DEF VisitOk, Consented
<1>4. Shown(v)' BY DEF VisitOk, Shown
<1> QED BY <1>1, <1>2, <1>3, <1>4 DEF VisitOk

\* A step of one visit that leaves the boots alone.
LEMMA VisitMoves ==
  ASSUME AdminInv, NEW q \in Visits, NEW v, NEW S, v \in VisitState(S), Goes(q, v), UNCHANGED <<bootVars, scene>>,
         allowLog' \in Seq(Revision), mcpConfig' \in [Homes -> Config \cup {NoConfig}],
         Len(allowLog) <= Len(allowLog'), \A i \in 1..Len(allowLog) : allowLog'[i] = allowLog[i],
         EditsKept', VisitOk(q, v)
  PROVE AdminInv'
<1>1. PICK T : visit \in [Visits -> VisitState(T)] BY DEF AdminInv, AdminData
<1>2. visit' \in [Visits -> VisitState(S \cup T)]
  <2>1. VisitState(S) \subseteq VisitState(S \cup T) /\ VisitState(T) \subseteq VisitState(S \cup T)
    BY VisitGrows
  <2> QED BY <1>1, <2>1 DEF Goes
<1>3. AdminData' BY <1>2 DEF AdminInv, AdminData, bootVars
<1>4. TokenInv' BY DEF AdminInv, TokenInv, bootVars
<1>5. ASSUME NEW p \in Visits PROVE VisitOk(p, visit[p])'
  <2>1. PICK k : k = visit'[p] OBVIOUS
  <2>2. (k = v /\ p = q) \/ k = visit[p] BY <1>1, <2>1 DEF Goes
  <2>3. VisitOk(p, k) BY <2>2 DEF AdminInv
  <2>4. k.rev \in Nat BY <1>1, <2>2 DEF VisitState
  <2>5. \A g \in Homes : learned'[g] = learned[g] BY DEF bootVars
  <2>6. VisitOk(p, k)' BY <2>3, <2>4, <2>5, VisitStays DEF AdminInv
  <2> QED BY <2>1, <2>6
<1> QED BY <1>3, <1>4, <1>5 DEF AdminInv

\* A step that leaves the visits and the bucket alone.
LEMMA BootMoves ==
  ASSUME AdminInv, UNCHANGED <<scene, allowLog, visit>>,
         tokenFile' \in [Homes -> Seq(Nat)], booted' \in [Homes -> {"down", "writing", "up"}],
         adminToken' \in [Homes -> Nat], learned' \in [Homes -> Nat], drawn' \in Nat,
         mcpConfig' \in [Homes -> Config \cup {NoConfig}],
         \A g \in Homes : learned[g] # 0 => learned'[g] = learned[g], TokenInv'
  PROVE AdminInv'
<1>1. AdminData' BY DEF AdminInv, AdminData
<1>2. EditsKept' BY DEF AdminInv, EditsKept
<1>3. ASSUME NEW p \in Visits PROVE VisitOk(p, visit[p])'
  <2>1. PICK k : k = visit[p] OBVIOUS
  <2>2. VisitOk(p, k) BY <2>1 DEF AdminInv
  <2>3. k.rev \in Nat BY <2>1 DEF AdminInv, AdminData, VisitState
  <2>4. allowLog \in Seq(Revision) BY DEF AdminInv, AdminData
  <2>5. Len(allowLog) <= Len(allowLog') /\ \A i \in 1..Len(allowLog) : allowLog'[i] = allowLog[i] BY <2>4
  <2>6. VisitOk(p, k)' BY <2>2, <2>3, <2>5, VisitStays DEF AdminInv
  <2>7. k = visit'[p] BY <2>1
  <2> QED BY <2>6, <2>7
<1> QED BY <1>1, <1>2, <1>3 DEF AdminInv

LEMMA AdminInits == AdminInit => AdminInv
<1> SUFFICES ASSUME AdminInit PROVE AdminInv OBVIOUS
<1>1. visit \in [Visits -> VisitState({})] BY NoVisitIs DEF AdminInit
<1>2. AdminData BY <1>1 DEF AdminInit, AdminData
<1>3. TokenInv BY AdminSurfaceAssumption DEF AdminInit, TokenInv
<1>4. EditsKept BY DEF AdminInit, EditsKept
<1>5. \A q \in Visits : visit[q].at = "idle" BY NoVisitIs DEF AdminInit
<1>6. \A q \in Visits : VisitOk(q, visit[q]) BY <1>5 DEF VisitOk, OneDeed, WritesEdit, Consented, Shown
<1> QED BY <1>2, <1>3, <1>4, <1>6 DEF AdminInv

LEMMA UpIs ==
  ASSUME AdminInv, NEW g \in Homes, NEW tok \in Nat, Up(g, tok)
  PROVE /\ booted' \in [Homes -> {"down", "writing", "up"}] /\ adminToken' \in [Homes -> Nat]
        /\ learned' \in [Homes -> Nat] /\ mcpConfig' \in [Homes -> Config \cup {NoConfig}]
        /\ booted'[g] = "up" /\ adminToken'[g] = tok /\ learned'[g] = (IF learned[g] = 0 THEN tok ELSE learned[g])
        /\ \A h \in Homes \ {g} : booted'[h] = booted[h] /\ adminToken'[h] = adminToken[h] /\ learned'[h] = learned[h]
<1>1. SeedOf[g] \in Config \cup {NoConfig} BY AdminSurfaceAssumption
<1>2. booted' \in [Homes -> {"down", "writing", "up"}] /\ booted'[g] = "up" /\ \A h \in Homes \ {g} : booted'[h] = booted[h]
  BY DEF AdminInv, AdminData, Up, Boot
<1>3. adminToken' \in [Homes -> Nat] /\ adminToken'[g] = tok /\ \A h \in Homes \ {g} : adminToken'[h] = adminToken[h]
  BY DEF AdminInv, AdminData, Up
<1>4. /\ learned' \in [Homes -> Nat] /\ learned'[g] = (IF learned[g] = 0 THEN tok ELSE learned[g])
      /\ \A h \in Homes \ {g} : learned'[h] = learned[h]
  BY DEF AdminInv, AdminData, Up
<1>5. mcpConfig' \in [Homes -> Config \cup {NoConfig}] BY <1>1 DEF AdminInv, AdminData, Up
<1> QED BY <1>2, <1>3, <1>4, <1>5

LEMMA LoadStep == ASSUME AdminInv, NEW g \in Homes, LoadToken(g) PROVE AdminInv'
<1> DEFINE tok == tokenFile[g][1]
<1>1. /\ booted[g] = "down" /\ g \in Durable /\ tokenFile[g] # <<>> /\ tok # 0 /\ Up(g, tok)
      /\ UNCHANGED <<scene, tokenFile, drawn, allowLog, mcpWatch, visit, crashed, broken>>
  BY DEF LoadToken
<1>2. tokenFile[g] \in Seq(Nat) BY DEF AdminInv, AdminData
<1>3. tok \in Nat BY <1>1, <1>2
<1>4. learned[g] = tok BY <1>1 DEF AdminInv, TokenInv
<1> HIDE DEF tok
<1>5. /\ booted' \in [Homes -> {"down", "writing", "up"}] /\ adminToken' \in [Homes -> Nat]
      /\ learned' \in [Homes -> Nat] /\ mcpConfig' \in [Homes -> Config \cup {NoConfig}]
      /\ booted'[g] = "up" /\ adminToken'[g] = tok /\ learned'[g] = tok
      /\ \A h \in Homes \ {g} : booted'[h] = booted[h] /\ adminToken'[h] = adminToken[h] /\ learned'[h] = learned[h]
  BY <1>1, <1>3, <1>4, UpIs
<1>6. \A h \in Homes : learned'[h] = learned[h] BY <1>4, <1>5
<1>7. TokenInv' BY <1>1, <1>4, <1>5, <1>6, AdminSurfaceAssumption DEF AdminInv, TokenInv
<1> QED BY <1>1, <1>5, <1>6, <1>7, BootMoves DEF AdminInv, AdminData

LEMMA GenerateStep == ASSUME AdminInv, NEW g \in Homes, GenerateToken(g) PROVE AdminInv'
<1>1. booted[g] = "down" /\ drawn' = drawn + 1 /\ UNCHANGED <<scene, allowLog, mcpWatch, visit, crashed, broken>> BY DEF GenerateToken
<1>2. drawn' \in Nat /\ drawn' # 0 BY <1>1 DEF AdminInv, AdminData
<1>3. CASE g \notin Durable /\ Up(g, drawn') /\ UNCHANGED tokenFile
  <2>1. PICK tok \in Nat : tok = drawn' BY <1>2
  <2>2. Up(g, tok) BY <1>3, <2>1
  <2>3. /\ booted' \in [Homes -> {"down", "writing", "up"}] /\ adminToken' \in [Homes -> Nat]
        /\ learned' \in [Homes -> Nat] /\ mcpConfig' \in [Homes -> Config \cup {NoConfig}]
        /\ booted'[g] = "up" /\ learned'[g] = (IF learned[g] = 0 THEN tok ELSE learned[g])
        /\ \A h \in Homes \ {g} : booted'[h] = booted[h] /\ adminToken'[h] = adminToken[h] /\ learned'[h] = learned[h]
    BY <2>2, UpIs
  <2>4. \A h \in Homes : learned[h] # 0 => learned'[h] = learned[h] BY <2>3
  <2>5. TokenInv' BY <1>3, <2>3, AdminSurfaceAssumption DEF AdminInv, TokenInv
  <2> QED BY <1>1, <1>2, <1>3, <2>3, <2>4, <2>5, BootMoves DEF AdminInv, AdminData
<1>4. CASE /\ g \in Durable /\ tokenFile[g] = <<>>
           /\ Boot(g, "writing") /\ adminToken' = [adminToken EXCEPT ![g] = drawn']
           /\ tokenFile' = [tokenFile EXCEPT ![g] = <<0>>]
           /\ UNCHANGED <<learned, mcpConfig>>
  <2>1. /\ booted' \in [Homes -> {"down", "writing", "up"}] /\ booted'[g] = "writing"
        /\ \A h \in Homes \ {g} : booted'[h] = booted[h]
    BY <1>4 DEF AdminInv, AdminData, Boot
  <2>2. /\ adminToken' \in [Homes -> Nat] /\ \A h \in Homes \ {g} : adminToken'[h] = adminToken[h]
    BY <1>2, <1>4 DEF AdminInv, AdminData
  <2>3. <<0>> \in Seq(Nat) /\ <<0>> # <<>> /\ <<0>>[1] = 0 OBVIOUS
  <2>4. /\ tokenFile' \in [Homes -> Seq(Nat)] /\ tokenFile'[g] = <<0>> /\ \A h \in Homes \ {g} : tokenFile'[h] = tokenFile[h]
    BY <1>4, <2>3 DEF AdminInv, AdminData
  <2>5. learned[g] = 0 /\ UNCHANGED learned BY <1>4 DEF AdminInv, TokenInv
  <2>6. TokenInv'
    <3>0. \A h \in Homes : learned'[h] = learned[h] BY <2>5
    <3>1. ASSUME NEW h \in Homes \ {g} PROVE
             /\ h \in Durable =>
                /\ tokenFile'[h] = <<>> => learned'[h] = 0 /\ booted'[h] = "down"
                /\ tokenFile'[h] # <<>> => learned'[h] = tokenFile'[h][1]
                /\ booted'[h] = "up" => adminToken'[h] = learned'[h]
             /\ booted'[h] = "writing" => h \in Durable /\ tokenFile'[h] # <<>> /\ learned'[h] = 0
      BY <2>1, <2>2, <2>4, <3>0 DEF AdminInv, TokenInv
    <3> QED BY <1>4, <2>1, <2>3, <2>4, <2>5, <3>1, AdminSurfaceAssumption DEF TokenInv
  <2> QED BY <1>1, <1>2, <1>4, <2>1, <2>2, <2>4, <2>5, <2>6, BootMoves DEF AdminInv, AdminData
<1> QED BY <1>3, <1>4 DEF GenerateToken

LEMMA WriteTokenStep == ASSUME AdminInv, NEW g \in Homes, WriteToken(g) PROVE AdminInv'
<1> DEFINE tok == adminToken[g]
<1>1. /\ booted[g] = "writing" /\ tokenFile' = [tokenFile EXCEPT ![g] = <<tok>>] /\ Up(g, tok)
      /\ UNCHANGED <<scene, drawn, allowLog, mcpWatch, visit, crashed, broken>>
  BY DEF WriteToken
<1>2. tok \in Nat BY DEF AdminInv, AdminData
<1>3. g \in Durable /\ learned[g] = 0 BY <1>1 DEF AdminInv, TokenInv
<1> HIDE DEF tok
<1>4. /\ booted' \in [Homes -> {"down", "writing", "up"}] /\ adminToken' \in [Homes -> Nat]
      /\ learned' \in [Homes -> Nat] /\ mcpConfig' \in [Homes -> Config \cup {NoConfig}]
      /\ booted'[g] = "up" /\ adminToken'[g] = tok /\ learned'[g] = tok
      /\ \A h \in Homes \ {g} : booted'[h] = booted[h] /\ adminToken'[h] = adminToken[h] /\ learned'[h] = learned[h]
  BY <1>1, <1>2, <1>3, UpIs
<1>5. <<tok>> \in Seq(Nat) /\ <<tok>> # <<>> /\ <<tok>>[1] = tok BY <1>2
<1>6. tokenFile' \in [Homes -> Seq(Nat)] /\ tokenFile'[g] = <<tok>> /\ \A h \in Homes \ {g} : tokenFile'[h] = tokenFile[h]
  BY <1>1, <1>5 DEF AdminInv, AdminData
<1>7. \A h \in Homes : learned[h] # 0 => learned'[h] = learned[h] BY <1>3, <1>4
<1>8. TokenInv'
  <2>1. ASSUME NEW h \in Homes \ {g} PROVE
           /\ h \in Durable =>
              /\ tokenFile'[h] = <<>> => learned'[h] = 0 /\ booted'[h] = "down"
              /\ tokenFile'[h] # <<>> => learned'[h] = tokenFile'[h][1]
              /\ booted'[h] = "up" => adminToken'[h] = learned'[h]
           /\ booted'[h] = "writing" => h \in Durable /\ tokenFile'[h] # <<>> /\ learned'[h] = 0
    BY <1>4, <1>6 DEF AdminInv, TokenInv
  <2> QED BY <1>4, <1>5, <1>6, <2>1, AdminSurfaceAssumption DEF TokenInv
<1> QED BY <1>1, <1>4, <1>6, <1>7, <1>8, BootMoves DEF AdminInv, AdminData

LEMMA CrashStep == ASSUME AdminInv, NEW g \in Homes, Crash(g) PROVE AdminInv'
<1>1. PICK S : visit \in [Visits -> VisitState(S)] BY DEF AdminInv, AdminData
<1>2. /\ \A q \in Visits : visit'[q] \in {visit[q], NoVisit}
      /\ visit' \in [Visits -> VisitState(S)]
      /\ UNCHANGED <<scene, tokenFile, drawn, learned, allowLog, broken>>
  <2>1. NoVisit \in VisitState(S) BY NoVisitIs
  <2> QED BY <1>1, <2>1 DEF Crash
<1>3. booted' \in [Homes -> {"down", "writing", "up"}] /\ booted'[g] = "down" /\ \A h \in Homes \ {g} : booted'[h] = booted[h]
  BY DEF Crash, Boot, AdminInv, AdminData
<1>4. adminToken' \in [Homes -> Nat] /\ \A h \in Homes \ {g} : adminToken'[h] = adminToken[h] BY DEF Crash, AdminInv, AdminData
<1>5. mcpConfig' \in [Homes -> Config \cup {NoConfig}] BY DEF Crash, AdminInv, AdminData
<1>6. AdminData' BY <1>2, <1>3, <1>4, <1>5 DEF AdminInv, AdminData
<1>7. TokenInv' BY <1>2, <1>3, <1>4, AdminSurfaceAssumption DEF AdminInv, TokenInv
<1>8. EditsKept' BY <1>2 DEF AdminInv, EditsKept
<1>9. ASSUME NEW p \in Visits PROVE VisitOk(p, visit[p])'
  <2>1. PICK k : k = visit'[p] OBVIOUS
  <2>2. VisitOk(p, k)
    <3>1. k = visit[p] \/ k.at = "idle" BY <1>2, <2>1, NoVisitIs
    <3> QED BY <3>1 DEF AdminInv, VisitOk, OneDeed, WritesEdit, Consented, Shown
  <2>3. k.rev \in Nat BY <1>2, <2>1 DEF VisitState
  <2>4. allowLog \in Seq(Revision) BY DEF AdminInv, AdminData
  <2>5. Len(allowLog) <= Len(allowLog') /\ \A i \in 1..Len(allowLog) : allowLog'[i] = allowLog[i] BY <1>2, <2>4
  <2>6. VisitOk(p, k)' BY <1>2, <2>2, <2>3, <2>5, VisitStays DEF AdminInv
  <2> QED BY <2>1, <2>6
<1> QED BY <1>6, <1>7, <1>8, <1>9 DEF AdminInv

LEMMA WatchesStep == ASSUME AdminInv, NEW g \in Homes, WatchOpens(g) \/ WatchDelivers(g) \/ WatchBreaks(g) PROVE AdminInv'
<1>1. UNCHANGED <<bootVars, scene, allowLog, visit>> BY DEF WatchOpens, WatchDelivers, WatchBreaks
<1>2. mcpConfig' \in [Homes -> Config \cup {NoConfig}]
  <2>1. CASE UNCHANGED mcpConfig BY <2>1 DEF AdminInv, AdminData
  <2>2. CASE WatchDelivers(g)
    <3>1. allowLog[mcpWatch[g]] \in Revision BY <2>2 DEF WatchDelivers, AdminInv, AdminData
    <3>2. allowLog[mcpWatch[g]] # BadConfig => allowLog[mcpWatch[g]] \in Config \cup {NoConfig} BY <3>1 DEF Revision
    <3> QED BY <2>2, <3>2 DEF WatchDelivers, AdminInv, AdminData
  <2> QED BY <2>1, <2>2 DEF WatchOpens, WatchBreaks
<1>3. TokenInv' BY <1>1 DEF AdminInv, TokenInv, bootVars
<1> QED BY <1>1, <1>2, <1>3, BootMoves DEF AdminInv, AdminData, bootVars

LEMMA MiddlewareStep == ASSUME AdminInv, NEW q \in Visits, AdminMiddleware(q) PROVE AdminInv'
<1>1. PICK g \in scene.sent[q], d \in scene.deeds[q], bearer \in {0} \cup {learned[h] : h \in Homes}, delegated \in BOOLEAN :
        /\ booted[g] = "up"
        /\ \E via \in IF d.public THEN {"public"}
                      ELSE IF delegated THEN consultAdminDelegate(g, bearer)
                      ELSE {IF checkBearerEqual(g, bearer) THEN "bearer" ELSE "refused"} :
            /\ via # "refused"
            /\ Goes(q, [NoVisit EXCEPT !.at = "serving", !.home = g, !.deed = {d}, !.via = via,
                                       !.bearer = IF via = "bearer" THEN bearer ELSE 0])
  BY DEF AdminMiddleware
<1>2. PICK via \in {"public", "delegate", "bearer"} :
        /\ via = "public" => d.public
        /\ via = "bearer" => checkBearerEqual(g, bearer)
        /\ Goes(q, [NoVisit EXCEPT !.at = "serving", !.home = g, !.deed = {d}, !.via = via,
                                   !.bearer = IF via = "bearer" THEN bearer ELSE 0])
  BY <1>1 DEF consultAdminDelegate
<1>3. UNCHANGED <<bootVars, scene, allowLog, mirrorVars, crashed, broken>> BY DEF AdminMiddleware
<1>4. g \in Homes BY AdminSurfaceAssumption DEF AdminInv, AdminData, Scene
<1>5. d \in Deed BY DeedsAre DEF AdminInv
<1>6. bearer \in Nat BY DEF AdminInv, AdminData
<1> DEFINE b == IF via = "bearer" THEN bearer ELSE 0
           v == [NoVisit EXCEPT !.at = "serving", !.home = g, !.deed = {d}, !.via = via, !.bearer = b]
<1>7. b \in Nat /\ (via = "bearer" => b = bearer) BY <1>6
<1>8. Goes(q, v) BY <1>2
<1> HIDE DEF b
<1>9. /\ v \in VisitState({}) /\ v.at = "serving" /\ v.home = g /\ v.deed = {d} /\ v.via = via /\ v.bearer = b
  <2>1. NoVisit \in VisitState({}) BY NoVisitIs
  <2> QED BY <1>4, <1>5, <1>7, <2>1 DEF VisitState
<1> HIDE DEF v
<1>10. Consented(v)
  <2>1. CASE via = "bearer"
    <3>1. bearer # 0 /\ bearer = adminToken[g] BY <1>2, <2>1 DEF checkBearerEqual
    <3>2. g \in Durable => adminToken[g] = learned[g] BY <1>1 DEF AdminInv, TokenInv
    <3> QED BY <1>7, <1>9, <2>1, <3>1, <3>2 DEF Consented
  <2>2. CASE via # "bearer" BY <1>2, <1>9, <2>2 DEF Consented
  <2> QED BY <2>1, <2>2
<1>11. VisitOk(q, v) BY <1>4, <1>9, <1>10 DEF VisitOk, OneDeed, WritesEdit, Shown
<1>12. /\ allowLog' \in Seq(Revision) /\ mcpConfig' \in [Homes -> Config \cup {NoConfig}]
       /\ Len(allowLog) <= Len(allowLog') /\ \A i \in 1..Len(allowLog) : allowLog'[i] = allowLog[i]
  BY <1>3 DEF AdminInv, AdminData, mirrorVars
<1>13. EditsKept' BY <1>3 DEF AdminInv, EditsKept
<1> QED BY <1>3, <1>8, <1>9, <1>11, <1>12, <1>13, VisitMoves

LEMMA DeedOfIs == ASSUME NEW q, NEW d, visit[q].deed = {d} PROVE DeedOf(q) = d
BY DEF DeedOf

LEMMA MutateStep == ASSUME AdminInv, NEW q \in Visits, mutateMCPConfig(q) PROVE AdminInv'
<1> DEFINE g == visit[q].home
<1>1. visit[q].at = "serving" /\ \E d \in visit[q].deed : d.op = "edit" BY DEF mutateMCPConfig, Serving
<1>2. PICK d \in scene.deeds[q] : visit[q].deed = {d} BY <1>1 DEF AdminInv, VisitOk, OneDeed
<1>3. d.op = "edit" /\ DeedOf(q) = d BY <1>1, <1>2, DeedOfIs
<1>4. d \in Deed /\ d.part # Blank BY <1>3, DeedsAre DEF AdminInv
<1>5. UNCHANGED <<bootVars, scene, allowLog, mcpWatch, crashed, broken>> BY DEF mutateMCPConfig
<1>6. PICK S : visit \in [Visits -> VisitState(S)] BY DEF AdminInv, AdminData
<1>7. /\ allowLog' \in Seq(Revision)
      /\ Len(allowLog) <= Len(allowLog') /\ \A i \in 1..Len(allowLog) : allowLog'[i] = allowLog[i]
  BY <1>5 DEF AdminInv, AdminData
<1>8. EditsKept' BY <1>5 DEF AdminInv, EditsKept
<1>9. g \in Homes /\ ConfigOf(g) \in Config BY <1>1, HeldConfig DEF AdminInv, VisitOk, OneDeed
<1>10. CASE scene.tracked
  <2> DEFINE c == ConfigOf(g)
             v == [visit[q] EXCEPT !.at = "get", !.via = Blank, !.bearer = 0, !.seed = c, !.nth = 1]
  <2>1. Goes(q, v) /\ UNCHANGED mcpConfig BY <1>10 DEF mutateMCPConfig
  <2> HIDE DEF c
  <2>2. v \in VisitState(S) /\ v.at = "get" /\ v.deed = {d} /\ v.home = g BY <1>2, <1>6, <1>9 DEF VisitState, c
  <2> HIDE DEF v
  <2>3. VisitOk(q, v) BY <1>3, <1>9, <2>2 DEF VisitOk, OneDeed, WritesEdit, Consented, Shown
  <2>4. mcpConfig' \in [Homes -> Config \cup {NoConfig}] BY <2>1 DEF AdminInv, AdminData
  <2> QED BY <1>5, <1>7, <1>8, <2>1, <2>2, <2>3, <2>4, VisitMoves
<1>11. CASE ~scene.tracked
  <2>1. mcpConfig' = [mcpConfig EXCEPT ![g] = Edited(d, ConfigOf(g))] /\ Goes(q, NoVisit) BY <1>3, <1>11 DEF mutateMCPConfig
  <2>2. Edited(d, ConfigOf(g)) \in Config BY <1>4, <1>9, EditedIs
  <2>3. mcpConfig' \in [Homes -> Config \cup {NoConfig}] BY <2>1, <2>2 DEF AdminInv, AdminData
  <2>4. VisitOk(q, NoVisit) BY NoVisitIs DEF VisitOk, OneDeed, WritesEdit, Consented, Shown
  <2> QED BY <1>5, <1>7, <1>8, <2>1, <2>3, <2>4, NoVisitIs, VisitMoves
<1> QED BY <1>10, <1>11

LEMMA GetStep == ASSUME AdminInv, NEW q \in Visits, Get(q) PROVE AdminInv'
<1> DEFINE old == IF Absent THEN visit[q].seed ELSE Decoded(Last(allowLog))
           rev == IF Absent THEN 0 ELSE Len(allowLog)
           cur == Edited(DeedOf(q), old)
           v == [visit[q] EXCEPT !.at = "write", !.rev = rev, !.cur = cur]
<1>1. visit[q].at = "get" /\ UNCHANGED <<bootVars, scene, allowLog, mirrorVars, crashed, broken>> BY DEF Get
<1>2. PICK S : visit \in [Visits -> VisitState(S)] BY DEF AdminInv, AdminData
<1>3. Goes(q, v)
  <2>1. visit[q] \in VisitState(S) BY <1>2
  <2> QED BY <2>1 DEF Get, VisitState
<1>4. PICK d \in scene.deeds[q] : visit[q].deed = {d} /\ d.op = "edit" BY <1>1 DEF AdminInv, VisitOk, OneDeed
<1>5. DeedOf(q) = d /\ d \in Deed /\ d.part # Blank BY <1>4, DeedOfIs, DeedsAre DEF AdminInv
<1>6. allowLog \in Seq(Revision) /\ Len(allowLog) \in Nat BY DEF AdminInv, AdminData
<1>7. ~Absent => Last(allowLog) = allowLog[Len(allowLog)] /\ Decoded(Last(allowLog)) \in Config
  <2> SUFFICES ASSUME ~Absent PROVE Last(allowLog) = allowLog[Len(allowLog)] /\ Decoded(Last(allowLog)) \in Config OBVIOUS
  <2>1. allowLog # <<>> /\ Last(allowLog) # NoConfig BY DEF Absent
  <2>2. Last(allowLog) = allowLog[Len(allowLog)] BY DEF Last
  <2>3. allowLog[Len(allowLog)] \in Revision BY <1>6, <2>1
  <2> QED BY <2>1, <2>2, <2>3, EmptyIsConfig DEF Revision, Decoded
<1>8. visit[q].seed \in Config BY <1>2 DEF VisitState
<1>9. old \in Config /\ rev \in Nat /\ rev <= Len(allowLog) BY <1>6, <1>7, <1>8
<1>10. cur = Edited(d, old) /\ cur \in Config BY <1>5, <1>9, EditedIs
<1>11. rev # 0 => old = Decoded(allowLog[rev]) BY <1>7
<1> HIDE DEF old, rev, cur
<1>12. /\ v \in VisitState(S) /\ v.at = "write" /\ v.deed = {d} /\ v.home = visit[q].home
       /\ v.rev = rev /\ v.cur = cur
  BY <1>2, <1>4, <1>6, <1>9, <1>10 DEF VisitState
<1> HIDE DEF v
<1>13. visit[q].home \in Homes BY <1>1 DEF AdminInv, VisitOk, OneDeed
<1>14. WritesEdit(v) BY <1>9, <1>10, <1>11, <1>12 DEF WritesEdit
<1>15. VisitOk(q, v) BY <1>4, <1>12, <1>13, <1>14 DEF VisitOk, OneDeed, Consented, Shown
<1>16. /\ allowLog' \in Seq(Revision) /\ mcpConfig' \in [Homes -> Config \cup {NoConfig}]
       /\ Len(allowLog) <= Len(allowLog') /\ \A i \in 1..Len(allowLog) : allowLog'[i] = allowLog[i]
  BY <1>1, <1>6 DEF AdminInv, AdminData, mirrorVars
<1>17. EditsKept' BY <1>1 DEF AdminInv, EditsKept
<1> QED BY <1>1, <1>3, <1>12, <1>15, <1>16, <1>17, VisitMoves

LEMMA AgainIs ==
  ASSUME AdminInv, NEW q \in Visits, visit[q].at = "write", NEW S, visit[q] \in VisitState(S)
  PROVE Again_(visit[q]) \in VisitState(S) /\ VisitOk(q, Again_(visit[q]))
<1> DEFINE n == visit[q].nth + 1
           v == [visit[q] EXCEPT !.at = "get", !.nth = n]
<1>0. n \in Nat BY DEF VisitState
<1>1. CASE visit[q].nth < CASAttempts
  <2>1. Again_(visit[q]) = v BY <1>1 DEF Again_, VisitState
  <2> HIDE DEF n
  <2>2. v \in VisitState(S) /\ v.at = "get" /\ v.deed = visit[q].deed /\ v.home = visit[q].home BY <1>0 DEF VisitState
  <2> HIDE DEF v
  <2>3. OneDeed(q, v) BY <2>2 DEF AdminInv, VisitOk, OneDeed
  <2>4. VisitOk(q, v) BY <2>2, <2>3 DEF VisitOk, WritesEdit, Consented, Shown
  <2> QED BY <2>1, <2>2, <2>4
<1>2. CASE ~(visit[q].nth < CASAttempts)
  <2>1. Again_(visit[q]) = NoVisit BY <1>2 DEF Again_
  <2>2. VisitOk(q, NoVisit) BY NoVisitIs DEF VisitOk, OneDeed, WritesEdit, Consented, Shown
  <2> QED BY <2>1, <2>2, NoVisitIs
<1> QED BY <1>1, <1>2

LEMMA WriteStep == ASSUME AdminInv, NEW q \in Visits, Write(q) PROVE AdminInv'
<1>1. visit[q].at = "write" /\ UNCHANGED <<bootVars, scene, mirrorVars, crashed>> BY DEF Write
<1>2. PICK S : visit \in [Visits -> VisitState(S)] BY DEF AdminInv, AdminData
<1>3. visit[q] \in VisitState(S) BY <1>2
<1>4. PICK v : v \in {NoVisit, Again_(visit[q])} /\ Goes(q, v) BY DEF Write
<1>5. v \in VisitState(S) /\ VisitOk(q, v)
  <2>1. VisitOk(q, NoVisit) BY NoVisitIs DEF VisitOk, OneDeed, WritesEdit, Consented, Shown
  <2> QED BY <1>1, <1>3, <1>4, <2>1, NoVisitIs, AgainIs
<1>6. mcpConfig' \in [Homes -> Config \cup {NoConfig}] BY <1>1 DEF AdminInv, AdminData, mirrorVars
<1>7. allowLog \in Seq(Revision) /\ Len(allowLog) \in Nat BY DEF AdminInv, AdminData
<1>8. CASE UNCHANGED allowLog
  <2>1. Len(allowLog) <= Len(allowLog') /\ \A i \in 1..Len(allowLog) : allowLog'[i] = allowLog[i] BY <1>7, <1>8
  <2>2. EditsKept' BY <1>1, <1>8 DEF AdminInv, EditsKept
  <2> QED BY <1>1, <1>4, <1>5, <1>6, <1>7, <1>8, <2>1, <2>2, VisitMoves
<1>9. CASE Lands(visit[q]) /\ allowLog' = Append(allowLog, visit[q].cur)
  <2> DEFINE n == Len(allowLog)
  <2>1. visit[q].cur \in Config BY <1>3 DEF VisitState
  <2>2. /\ allowLog' \in Seq(Revision) /\ Len(allowLog') = n + 1 /\ allowLog'[n + 1] = visit[q].cur
        /\ \A i \in 1..n : allowLog'[i] = allowLog[i]
    <3>1. visit[q].cur \in Revision BY <2>1 DEF Revision
    <3> QED BY <1>7, <1>9, <3>1
  <2>3. n \in Nat BY <1>7
  <2>4. PICK d \in scene.deeds[q] : visit[q].deed = {d} /\ d.op = "edit" BY <1>1 DEF AdminInv, VisitOk, OneDeed
  <2>5. n # 0 /\ allowLog[n] # NoConfig => visit[q].cur = Edited(d, Decoded(allowLog[n]))
    <3> SUFFICES ASSUME n # 0, allowLog[n] # NoConfig PROVE visit[q].cur = Edited(d, Decoded(allowLog[n])) OBVIOUS
    <3>1. allowLog # <<>> /\ Last(allowLog) = allowLog[n] BY DEF Last
    <3>2. ~Absent BY <3>1 DEF Absent
    <3>3. visit[q].rev = n /\ visit[q].rev # 0 BY <1>9, <3>2 DEF Lands
    <3> QED BY <1>1, <2>4, <3>3 DEF AdminInv, VisitOk, WritesEdit
  <2> HIDE DEF n
  <2>6. EditsKept'
    <3> SUFFICES ASSUME NEW i \in 2..(n + 1), allowLog'[i] \notin {NoConfig, BadConfig}, allowLog'[i - 1] # NoConfig
                 PROVE \E e \in UNION {scene.deeds[p] : p \in Visits} : e.op = "edit" /\ allowLog'[i] = Edited(e, Decoded(allowLog'[i - 1]))
      BY <1>1, <2>2 DEF EditsKept
    <3>1. CASE i = n + 1
      <4>1. n \in 1..n /\ n # 0 /\ i - 1 = n BY <2>3, <3>1
      <4>2. allowLog'[i - 1] = allowLog[n] BY <2>2, <4>1
      <4>3. d \in UNION {scene.deeds[p] : p \in Visits} BY <2>4
      <4> QED BY <2>2, <2>4, <2>5, <3>1, <4>1, <4>2, <4>3
    <3>2. CASE i # n + 1
      <4>1. i \in 2..n /\ i \in 1..n /\ i - 1 \in 1..n BY <2>3, <3>2
      <4>2. allowLog'[i] = allowLog[i] /\ allowLog'[i - 1] = allowLog[i - 1] BY <2>2, <4>1
      <4>3. \E e \in UNION {scene.deeds[p] : p \in Visits} : e.op = "edit" /\ allowLog[i] = Edited(e, Decoded(allowLog[i - 1]))
        BY <4>1, <4>2 DEF AdminInv, EditsKept, n
      <4> QED BY <4>2, <4>3
    <3> QED BY <3>1, <3>2
  <2>7. Len(allowLog) <= Len(allowLog') BY <2>2, <2>3 DEF n
  <2>8. \A i \in 1..Len(allowLog) : allowLog'[i] = allowLog[i] BY <2>2 DEF n
  <2> QED BY <1>1, <1>4, <1>5, <1>6, <2>2, <2>6, <2>7, <2>8, VisitMoves
<1> QED BY <1>8, <1>9 DEF Write

LEMMA StrayStep == ASSUME AdminInv, Stray PROVE AdminInv'
<1>1. PICK rev \in {NoConfig, BadConfig} : allowLog' = Append(allowLog, rev)
  <2>1. scene.strays \subseteq {NoConfig, BadConfig} BY AdminSurfaceAssumption DEF AdminInv, AdminData, Scene
  <2> QED BY <2>1 DEF Stray
<1>2. UNCHANGED <<bootVars, scene, mirrorVars, visit>> BY DEF Stray
<1>3. allowLog \in Seq(Revision) BY DEF AdminInv, AdminData
<1> DEFINE n == Len(allowLog)
<1>4. n \in Nat BY <1>3
<1>5. /\ allowLog' \in Seq(Revision) /\ Len(allowLog') = n + 1 /\ allowLog'[n + 1] = rev
      /\ \A i \in 1..n : allowLog'[i] = allowLog[i]
  <2>1. rev \in Revision BY DEF Revision
  <2> QED BY <1>1, <1>3, <2>1
<1> HIDE DEF n
<1>6. EditsKept'
  <2> SUFFICES ASSUME NEW i \in 2..(n + 1), allowLog'[i] \notin {NoConfig, BadConfig}, allowLog'[i - 1] # NoConfig
               PROVE \E e \in UNION {scene.deeds[p] : p \in Visits} : e.op = "edit" /\ allowLog'[i] = Edited(e, Decoded(allowLog'[i - 1]))
    BY <1>2, <1>5 DEF EditsKept
  <2>1. i # n + 1 BY <1>1, <1>5
  <2>2. i \in 2..n /\ i \in 1..n /\ i - 1 \in 1..n BY <1>4, <2>1
  <2>3. allowLog'[i] = allowLog[i] /\ allowLog'[i - 1] = allowLog[i - 1] BY <1>5, <2>2
  <2>4. \E e \in UNION {scene.deeds[p] : p \in Visits} : e.op = "edit" /\ allowLog[i] = Edited(e, Decoded(allowLog[i - 1]))
    BY <2>2, <2>3 DEF AdminInv, EditsKept, n
  <2> QED BY <2>3, <2>4
<1>7. AdminData' BY <1>2, <1>5 DEF AdminInv, AdminData, bootVars, mirrorVars
<1>8. TokenInv' BY <1>2 DEF AdminInv, TokenInv, bootVars
<1>9. ASSUME NEW p \in Visits PROVE VisitOk(p, visit[p])'
  <2>1. PICK k : k = visit[p] OBVIOUS
  <2>2. VisitOk(p, k) BY <2>1 DEF AdminInv
  <2>3. k.rev \in Nat BY <2>1 DEF AdminInv, AdminData, VisitState
  <2>4. Len(allowLog) <= Len(allowLog') BY <1>4, <1>5 DEF n
  <2>5. \A i \in 1..Len(allowLog) : allowLog'[i] = allowLog[i] BY <1>5 DEF n
  <2>6. \A g \in Homes : learned'[g] = learned[g] BY <1>2 DEF bootVars
  <2>7. VisitOk(p, k)' BY <1>2, <2>2, <2>3, <2>4, <2>5, <2>6, VisitStays DEF AdminInv
  <2>8. k = visit'[p] BY <1>2, <2>1
  <2> QED BY <2>7, <2>8
<1> QED BY <1>6, <1>7, <1>8, <1>9 DEF AdminInv

\* On paths the allowlist permits what it means.
LEMMA AllowsPermits ==
  ASSUME NEW cfg \in Config, NEW p \in Seq(STRING), mcpAllows(cfg, p)
  PROVE Permits(cfg, p)
<1>1. cfg.exclude \subseteq Seq(STRING) /\ cfg.include \subseteq Seq(STRING) /\ cfg.auto \in BOOLEAN BY DEF Config
<1>2. \A x \in cfg.exclude \cup cfg.include : globMatchSegments(x, p) <=> Denotes(x, p) BY <1>1, GlobsDenote
<1> QED BY <1>1, <1>2 DEF mcpAllows, Permits

LEMMA PathsAre ==
  ASSUME NEW s \in Services, NEW p \in PathsOf(s) PROVE p \in AllPaths /\ Head(p) = s.ns
BY AdminSurfaceAssumption DEF AllPaths, PathsOf, IsService

\* An answer shows what the allowlist permits and the types that ride along.
LEMMA AnswersOk ==
  ASSUME AdminInv, NEW q \in Visits, visit[q].at = "serving", NEW sees, Answers(q, sees),
         \A p \in sees : \/ p \in AllPaths /\ Permits(ConfigOf(visit[q].home), p)
                       \/ RidesAlong(ConfigOf(visit[q].home), DeedOf(q).entry, p)
  PROVE AdminInv'
<1> DEFINE cfg == ConfigOf(visit[q].home)
           v == [NoVisit EXCEPT !.at = "done", !.deed = visit[q].deed, !.cur = cfg, !.sees = sees]
<1>1. Goes(q, v) /\ UNCHANGED <<bootVars, scene, allowLog, mirrorVars, crashed, broken>> BY DEF Answers
<1>2. visit[q].home \in Homes BY DEF AdminInv, VisitOk, OneDeed
<1>3. cfg \in Config BY <1>2, HeldConfig DEF AdminInv
<1>4. PICK d \in scene.deeds[q] : visit[q].deed = {d} BY DEF AdminInv, VisitOk, OneDeed
<1>5. DeedOf(q) = d /\ d \in Deed BY <1>4, DeedOfIs, DeedsAre DEF AdminInv
<1> HIDE DEF cfg
<1>6. v \in VisitState(sees) /\ v.at = "done" /\ v.deed = {d} /\ v.cur = cfg /\ v.sees = sees
  <2>1. NoVisit \in VisitState(sees) BY NoVisitIs
  <2> QED BY <1>3, <1>4, <1>5, <2>1 DEF VisitState
<1> HIDE DEF v
<1>7. Shown(v) BY <1>5, <1>6 DEF Shown, cfg
<1>8. VisitOk(q, v) BY <1>6, <1>7 DEF VisitOk, OneDeed, WritesEdit, Consented
<1>9. /\ allowLog' \in Seq(Revision) /\ mcpConfig' \in [Homes -> Config \cup {NoConfig}]
      /\ Len(allowLog) <= Len(allowLog') /\ \A i \in 1..Len(allowLog) : allowLog'[i] = allowLog[i]
  BY <1>1 DEF AdminInv, AdminData, mirrorVars
<1>10. EditsKept' BY <1>1 DEF AdminInv, EditsKept
<1> QED BY <1>1, <1>6, <1>8, <1>9, <1>10, VisitMoves

LEMMA ToolsStep ==
  ASSUME AdminInv, NEW q \in Visits, mcpSchemaList(q) \/ mcpSchemaSearch(q) \/ mcpSchemaExpand(q)
  PROVE AdminInv'
<1>1. visit[q].at = "serving" BY DEF mcpSchemaList, mcpSchemaSearch, mcpSchemaExpand, Serving
<1> DEFINE cfg == ConfigOf(visit[q].home)
<1>2. visit[q].home \in Homes BY <1>1 DEF AdminInv, VisitOk, OneDeed
<1>3. cfg \in Config BY <1>2, HeldConfig DEF AdminInv
<1>4. ASSUME NEW p \in AllPaths, mcpAllows(cfg, p) PROVE Permits(cfg, p)
  <2>1. p \in Seq(STRING) BY AdminSurfaceAssumption DEF AllPaths, PathsOf, IsService
  <2> QED BY <1>3, <1>4, <2>1, AllowsPermits
<1>5. CASE mcpSchemaList(q)
  <2> DEFINE sees == {p \in AllPaths : mcpAllows(cfg, p)}
  <2>1. Answers(q, sees) BY <1>5 DEF mcpSchemaList
  <2>2. \A p \in sees : p \in AllPaths /\ Permits(cfg, p) BY <1>4
  <2> HIDE DEF sees
  <2> QED BY <1>1, <2>1, <2>2, AnswersOk
<1>6. CASE mcpSchemaSearch(q)
  <2> DEFINE sees == {p \in AllPaths : mcpAllows(cfg, p) /\ globMatchSegments(DeedOf(q).entry, p)}
  <2>1. Answers(q, sees) BY <1>6 DEF mcpSchemaSearch
  <2>2. \A p \in sees : p \in AllPaths /\ Permits(cfg, p) BY <1>4
  <2> HIDE DEF sees
  <2> QED BY <1>1, <2>1, <2>2, AnswersOk
<1>7. CASE mcpSchemaExpand(q)
  <2> DEFINE e == DeedOf(q).entry
  <2>1. \/ Answers(q, {})
        \/ /\ mcpAllows(cfg, e)
           /\ \E s \in Services : e \in PathsOf(s) /\ Answers(q, {e} \cup {<<t>> : t \in TypesFrom(s, s.refs[e])})
        \/ \E s \in Services : s.ns \notin Hidden /\ Answers(q, {<<t>> : t \in TypesFrom(s, Named(s, e))})
    BY <1>7 DEF mcpSchemaExpand
  <2>2. CASE Answers(q, {})
    <3>1. \A p \in {} : RidesAlong(cfg, e, p) OBVIOUS
    <3> QED BY <1>1, <2>2, <3>1, AnswersOk
  <2>3. ASSUME mcpAllows(cfg, e), NEW s \in Services, e \in PathsOf(s),
               Answers(q, {e} \cup {<<t>> : t \in TypesFrom(s, s.refs[e])})
        PROVE AdminInv'
    <3> DEFINE sees == {e} \cup {<<t>> : t \in TypesFrom(s, s.refs[e])}
    <3>1. e \in AllPaths /\ Permits(cfg, e) BY <1>4, <2>3, PathsAre
    <3>2. s.ns \notin Hidden BY <2>3, <3>1, PathsAre DEF Permits
    <3>3. ASSUME NEW t \in TypesFrom(s, s.refs[e]) PROVE RidesAlong(cfg, e, <<t>>)
      BY <2>3, <3>1, <3>2 DEF RidesAlong
    <3>4. \A p \in sees : (p \in AllPaths /\ Permits(cfg, p)) \/ RidesAlong(cfg, e, p) BY <3>1, <3>3
    <3>5. Answers(q, sees) BY <2>3
    <3> HIDE DEF sees
    <3> QED BY <1>1, <3>4, <3>5, AnswersOk
  <2>4. ASSUME NEW s \in Services, s.ns \notin Hidden, Answers(q, {<<t>> : t \in TypesFrom(s, Named(s, e))})
        PROVE AdminInv'
    <3> DEFINE sees == {<<t>> : t \in TypesFrom(s, Named(s, e))}
    <3>1. ASSUME NEW t \in TypesFrom(s, Named(s, e)) PROVE RidesAlong(cfg, e, <<t>>)
      BY <2>4 DEF RidesAlong
    <3>2. \A p \in sees : RidesAlong(cfg, e, p) BY <3>1
    <3>3. Answers(q, sees) BY <2>4
    <3> HIDE DEF sees
    <3> QED BY <1>1, <3>2, <3>3, AnswersOk
  <2> QED BY <2>1, <2>2, <2>3, <2>4
<1> QED BY <1>5, <1>6, <1>7

LEMMA EndsStep == ASSUME AdminInv, NEW q \in Visits, VisitEnds(q) PROVE AdminInv'
<1>1. Goes(q, NoVisit) /\ UNCHANGED <<bootVars, scene, allowLog, mirrorVars, crashed, broken>> BY DEF VisitEnds
<1>2. VisitOk(q, NoVisit) BY NoVisitIs DEF VisitOk, OneDeed, WritesEdit, Consented, Shown
<1>3. /\ allowLog' \in Seq(Revision) /\ mcpConfig' \in [Homes -> Config \cup {NoConfig}]
      /\ Len(allowLog) <= Len(allowLog') /\ \A i \in 1..Len(allowLog) : allowLog'[i] = allowLog[i]
  BY <1>1 DEF AdminInv, AdminData, mirrorVars
<1>4. EditsKept' BY <1>1 DEF AdminInv, EditsKept
<1>5. NoVisit \in VisitState({}) BY NoVisitIs
<1> QED BY <1>1, <1>2, <1>3, <1>4, <1>5, VisitMoves

LEMMA AdminStep == ASSUME AdminInv, [AdminNext]_adminVars PROVE AdminInv'
<1>1. ASSUME NEW g \in Homes, BootStep(g) PROVE AdminInv' BY <1>1, LoadStep, GenerateStep, WriteTokenStep DEF BootStep
<1>2. ASSUME NEW g \in Homes, WatchStep(g) \/ WatchBreaks(g) PROVE AdminInv' BY <1>2, WatchesStep DEF WatchStep
<1>3. ASSUME NEW g \in Homes, Crash(g) PROVE AdminInv' BY <1>3, CrashStep
<1>4. ASSUME NEW q \in Visits, VisitStep(q) PROVE AdminInv'
  BY <1>4, MiddlewareStep, MutateStep, GetStep, WriteStep, ToolsStep, EndsStep DEF VisitStep
<1>5. CASE UNCHANGED adminVars
  <2>1. UNCHANGED <<bootVars, scene, allowLog, visit, mcpConfig>> BY <1>5 DEF adminVars, mirrorVars
  <2>2. TokenInv' BY <2>1 DEF AdminInv, TokenInv, bootVars
  <2> QED BY <2>1, <2>2, BootMoves DEF AdminInv, AdminData, bootVars
<1> QED BY <1>1, <1>2, <1>3, <1>4, <1>5, StrayStep DEF AdminNext

LEMMA AdminInvGuards == AdminInv => AdminGuarded
<1> SUFFICES ASSUME AdminInv PROVE AdminGuarded OBVIOUS
<1>1. TokensKept BY DEF AdminInv, TokenInv, TokensKept
<1>2. ServedWithConsent BY DEF AdminInv, VisitOk, Consented, ServedWithConsent
<1>3. ToolsAllowed BY DEF AdminInv, VisitOk, Shown, ToolsAllowed
<1>4. EditsKept BY DEF AdminInv
<1> QED BY <1>1, <1>2, <1>3, <1>4 DEF AdminGuarded

(***************************************************************************)
(* The token operators hold survives every crash, nothing is served        *)
(* without consent, no edit of the allowlist is lost, and no tool shows an *)
(* operation it keeps back, or a type beside those such an operation leads *)
(* to and those asked for by name, for any gateways, requests, globs and   *)
(* services (auth_admin.go, mcp_config.go, mcp_tools.go).                  *)
(***************************************************************************)
THEOREM AdminGuardedHolds == AdminSpec => []AdminGuarded
<1>1. AdminInv /\ [AdminNext]_adminVars => AdminInv' BY AdminStep
<1> QED BY <1>1, AdminInits, AdminInvGuards, PTL DEF AdminSpec

-----------------------------------------------------------------------------
(* Side by side.                                                           *)

(***************************************************************************)
(* Nobody gets past a check: the three, on the behaviours the run checks,  *)
(* for every value of the constants (auth_channel.go checkChannelAuth,     *)
(* auth_admin.go AdminMiddleware, mcp_config.go mutateMCPConfig,           *)
(* token_exchange.go exchange).                                            *)
(***************************************************************************)
THEOREM AccessGuardedHolds == Either => []AccessGuarded
<1> DEFINE Inv == IInv /\ ChannelInv /\ AdminInv
<1>1. EitherInit => Inv BY InitInv, ChannelsInit, AdminInits DEF EitherInit
<1>2. Inv /\ [EitherNext]_AllVars => Inv'
  <2> SUFFICES ASSUME Inv, [EitherNext]_AllVars PROVE Inv' OBVIOUS
  <2>1. [Next]_vars /\ [ChannelNext]_channelVars /\ [AdminNext]_adminVars BY DEF EitherNext, AllVars
  <2>2. IInv' BY <2>1, IInvStep
  <2>3. ChannelInv' BY <2>1, ChannelStep
  <2>4. AdminInv' BY <2>1, AdminStep
  <2> QED BY <2>2, <2>3, <2>4
<1>3. Inv => AccessGuarded
  <2>1. ChannelInv => ChannelsGuarded BY DEF ChannelInv
  <2> QED BY <2>1, TokensStayGood, AdminInvGuards DEF AccessGuarded
<1> HIDE DEF Inv
<1> QED BY <1>1, <1>2, <1>3, PTL DEF Either
=============================================================================
