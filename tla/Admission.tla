----------------------------- MODULE Admission ------------------------------
(***************************************************************************)
(* What a request goes through before it leaves the gateway: the caller-id *)
(* gate (gw/caller_id.go), the permit gate (gw/quota.go), which resolves   *)
(* the caller a second time, and the exchange of its token by the outbound *)
(* client (gw/token_exchange.go).                                          *)
(***************************************************************************)
EXTENDS CallerIdentity, Quota, TokenExchange

CONSTANT Setups   \* the gateways: which extractor and gates, and the requests sent to it

ASSUME SetupsAssumption ==
    Setups \subseteq [caller: {"none", "public", "hmac", "delegated"},
                      enforce: BOOLEAN, quota: BOOLEAN, exchange: BOOLEAN,
                      clients: SUBSET Requests]

VARIABLES
    setup,    \* the options the gateway was built with
    stage     \* per request: the gate it is at

vars == <<now, idVars, quotaVars, exchangeVars, setup, stage>>

TypeOK ==
    /\ now \in 0..MaxTime
    /\ IdTypeOK /\ QuotaTypeOK /\ ExchangeTypeOK
    /\ setup \in Setups
    /\ stage \in [Requests -> {"new", "enforce", "caller", "quota", "exchange", "out", "refused"}]

Init ==
    /\ now = 0
    /\ IdInit /\ QuotaInit /\ ExchangeInit
    /\ setup \in Setups
    /\ stage = [r \in Requests |-> "new"]

To(r, s) == stage' = [stage EXCEPT ![r] = s] /\ UNCHANGED <<now, setup>>

\* The gate after the named one; an option that is not set is the identity.
After(gate) ==
    CASE gate = "arrival" /\ setup.enforce -> "enforce"
      [] gate \in {"arrival", "enforce"} /\ setup.quota -> "caller"
      [] gate # "exchange" /\ setup.exchange -> "exchange"
      [] OTHER -> "out"

\* What entering a gate starts.
Start(r, gate) ==
    /\ To(r, gate)
    /\ IF gate \in {"enforce", "caller"}
       THEN idpc' = [idpc EXCEPT ![r] = "lookup"]
            /\ UNCHANGED <<cache, revoked, events, authFlight, authCall, who>>
       ELSE UNCHANGED idVars
    /\ IF gate = "exchange" THEN ExchangeEnters(r) ELSE UNCHANGED exchangeVars

\* A request arrives; callerIDEnforceMiddleware is the outermost gate.
Arrive(r) ==
    /\ stage[r] = "new" /\ r \in setup.clients
    /\ Start(r, After("arrival"))
    /\ UNCHANGED quotaVars

Refuse(r) == To(r, "refused") /\ UNCHANGED <<idVars, exchangeVars>>

\* enforceCallerID: an anonymous caller is refused.
Enforce(r) ==
    /\ stage[r] = "enforce" /\ idpc[r] = "done"
    /\ \/ who[r] # Nobody /\ Start(r, After("enforce"))
       \/ who[r] = Nobody /\ Refuse(r)
    /\ UNCHANGED quotaVars

\* quotaMiddleware: the caller was resolved anew.
Charge(r) ==
    /\ stage[r] = "caller" /\ idpc[r] = "done"
    /\ To(r, "quota")
    /\ QuotaEnters(r, who[r])
    /\ UNCHANGED <<idVars, exchangeVars>>

Admit(r) ==
    /\ stage[r] = "quota"
    /\ \/ qpc[r] = "admitted" /\ Start(r, After("quota"))
       \/ qpc[r] = "rejected" /\ Refuse(r)
    /\ UNCHANGED quotaVars

Leave(r) ==
    /\ stage[r] = "exchange" /\ xpc[r] \in {"sent", "failed"}
    /\ To(r, IF xpc[r] = "sent" THEN "out" ELSE "refused")
    /\ UNCHANGED <<idVars, quotaVars, exchangeVars>>

Identify ==
    /\ \/ \E r \in Requests : ResolveLocal(setup.caller, r)
       \/ setup.caller = "delegated" /\ \E r \in Requests : Lookup(r) \/ JoinAuthorize(r)
       \/ \E t \in Tokens : DelegateDecides(t) \/ AuthorizeReturns(t)
    /\ UNCHANGED <<now, quotaVars, exchangeVars, setup, stage>>

Revocation ==
    /\ setup.caller = "delegated"
    /\ \E t \in {TokenOf[r] : r \in setup.clients} \ {Nobody} :
          Revoke(t) \/ RevokeArrives(t)
    /\ UNCHANGED <<now, quotaVars, exchangeVars, setup, stage>>

Debit ==
    /\ \/ \E r \in Requests : TryDebit(r) \/ JoinRefill(r)
       \/ \E b \in Buckets : QuotaStep(b)
    /\ UNCHANGED <<now, idVars, exchangeVars, setup, stage>>

Exchange ==
    /\ \/ \E r \in Requests : SwapLookup(r) \/ SwapJoin(r)
       \/ \E t \in Tokens : ExchangeStep(t)
    /\ UNCHANGED <<now, idVars, quotaVars, setup, stage>>

Tick ==
    /\ now < MaxTime /\ AuthMayTick /\ ExchangeMayTick
    /\ now' = now + 1
    /\ UNCHANGED <<idVars, quotaVars, exchangeVars, setup, stage>>

Gates == \E r \in Requests : Arrive(r) \/ Enforce(r) \/ Charge(r) \/ Admit(r) \/ Leave(r)

Next == Gates \/ Identify \/ Revocation \/ Debit \/ Exchange \/ Tick

Spec == Init /\ [][Next]_vars
Fairness == WF_vars(Gates) /\ WF_vars(Identify) /\ WF_vars(Debit) /\ WF_vars(Exchange)
FairSpec == Spec /\ Fairness

-----------------------------------------------------------------------------
(***************************************************************************)
(* Every request is answered: no waiter is left behind in a singleflight   *)
(* whose leader is done, and the refill loop ends.                         *)
(***************************************************************************)
Answered == \A r \in Requests : r \in setup.clients ~> stage[r] \in {"out", "refused"}

(***************************************************************************)
(* A request is charged to the caller the gate let in.                     *)
(***************************************************************************)
ChargedToAdmitted ==
    \A r \in Requests :
        setup.enforce /\ setup.quota /\ stage[r] \in {"quota", "exchange", "out"} => bucket[r] # Nobody
=============================================================================
