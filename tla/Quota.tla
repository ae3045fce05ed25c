------------------------------- MODULE Quota --------------------------------
(***************************************************************************)
(* The permit gate (gw/quota.go): a dispatch takes a permit out of the     *)
(* bucket of its caller; an empty or expired bucket is refilled by the     *)
(* delegate registered as _quota_auth/v1, one call per bucket at a time,   *)
(* and every waiter then tries again, a bounded number of times.           *)
(***************************************************************************)
EXTENDS CallerIdentity

CONSTANTS
    Grants,            \* permits the delegate may grant: 0 is a denial, none if it is silent
    Windows,           \* how long it says they last; 0 is in the past
    MaxBlockSize, MaxValidUntil,
    EmergencyPermits, EmergencyTTL,
    QuotaEnforce,      \* WithQuotaEnforce
    Retries            \* quotaRefillRetries, 4 in the code

ASSUME QuotaAssumption ==
    /\ {MaxBlockSize, MaxValidUntil, EmergencyPermits, EmergencyTTL, Retries} \subseteq Nat
    /\ Grants \subseteq Nat /\ Windows \subseteq Nat
    /\ QuotaEnforce \in BOOLEAN

VARIABLES
    permits, until,    \* per bucket: permits left, end of the block
    refillFlight,      \* d.sf
    refilling,         \* per bucket: the leader is in the delegate's call
    qpc, tries,        \* per request: where check is, the loop's counter
    bucket,            \* per request: its bucket, the caller it resolved to
    granted, debited, lapsed  \* history, per bucket

quotaVars == <<permits, until, refillFlight, refilling, qpc, tries, bucket, granted, debited, lapsed>>
Buckets == Tokens \cup {Nobody}

QuotaTypeOK ==
    /\ permits \in [Buckets -> Nat] /\ until \in [Buckets -> Nat]
    /\ refillFlight \in [Buckets -> Flight]
    /\ refilling \in [Buckets -> BOOLEAN]
    /\ qpc \in [Requests -> {"idle", "try", "miss", "wait", "admitted", "rejected"}]
    /\ tries \in [Requests -> 0..Retries]
    /\ bucket \in [Requests -> Buckets]

QuotaInit ==
    /\ permits = [b \in Buckets |-> 0] /\ until = [b \in Buckets |-> 0]
    /\ refillFlight = [b \in Buckets |-> NoFlight]
    /\ refilling = [b \in Buckets |-> FALSE]
    /\ qpc = [r \in Requests |-> "idle"] /\ tries = [r \in Requests |-> 0]
    /\ bucket = [r \in Requests |-> Nobody]
    /\ granted = [b \in Buckets |-> 0]
    /\ debited = [b \in Buckets |-> 0]
    /\ lapsed = [b \in Buckets |-> 0]

permitsLive(b) == permits[b] > 0 /\ now <= until[b]

\* check starts.
QuotaEnters(r, b) ==
    /\ qpc[r] = "idle"
    /\ qpc' = [qpc EXCEPT ![r] = "try"]
    /\ bucket' = [bucket EXCEPT ![r] = b]
    /\ UNCHANGED <<permits, until, refillFlight, refilling, tries, granted, debited, lapsed>>

\* tryDebit: takes a permit of a live block; an expired one is emptied.
TryDebit(r) ==
    LET b == bucket[r]
    IN  /\ qpc[r] = "try"
        /\ \/ /\ permitsLive(b)
              /\ permits' = [permits EXCEPT ![b] = @ - 1]
              /\ debited' = [debited EXCEPT ![b] = @ + 1]
              /\ qpc' = [qpc EXCEPT ![r] = "admitted"]
              /\ UNCHANGED lapsed
           \/ /\ ~permitsLive(b)
              /\ permits' = [permits EXCEPT ![b] = 0]
              /\ lapsed' = [lapsed EXCEPT ![b] = @ + permits[b]]
              /\ qpc' = [qpc EXCEPT ![r] = "miss"]
              /\ UNCHANGED debited
        /\ UNCHANGED <<until, refillFlight, refilling, tries, bucket, granted>>

\* sf.Do.
JoinRefill(r) ==
    /\ qpc[r] = "miss"
    /\ qpc' = [qpc EXCEPT ![r] = "wait"]
    /\ refillFlight' = [refillFlight EXCEPT ![bucket[r]] = Do(@, r)]
    /\ UNCHANGED <<permits, until, refilling, tries, bucket, granted, debited, lapsed>>

\* A refill that was granted: every waiter goes round again, or has gone round
\* often enough.
Again(b) ==
    LET rs == refillFlight[b].members
    IN  /\ refillFlight' = [refillFlight EXCEPT ![b] = NoFlight]
        /\ tries' = [r \in Requests |-> IF r \in rs THEN tries[r] + 1 ELSE tries[r]]
        /\ qpc' = [r \in Requests |-> IF r \in rs
                                      THEN IF tries'[r] = Retries THEN "rejected" ELSE "try"
                                      ELSE qpc[r]]

\* Mutation: the leader does not look at the bucket again.
RefillRecheckMissing(b) ==
    /\ refillFlight[b].leader # Nobody /\ ~refilling[b]
    /\ refilling' = [refilling EXCEPT ![b] = TRUE]
    /\ UNCHANGED <<permits, until, bucket, granted, debited, lapsed, refillFlight, tries, qpc>>

\* The leader looks at the bucket again before it calls the delegate.
RefillRecheck(b) ==
    /\ refillFlight[b].leader # Nobody /\ ~refilling[b]
    /\ \/ /\ permitsLive(b) /\ Again(b)
          /\ UNCHANGED refilling
       \/ /\ ~permitsLive(b)
          /\ refilling' = [refilling EXCEPT ![b] = TRUE]
          /\ UNCHANGED <<refillFlight, tries, qpc>>
    /\ UNCHANGED <<permits, until, bucket, granted, debited, lapsed>>

\* install replaces what is in the bucket.
Install(b, n, end) ==
    /\ permits' = [permits EXCEPT ![b] = n]
    /\ until' = [until EXCEPT ![b] = end]
    /\ granted' = [granted EXCEPT ![b] = @ + n]
    /\ lapsed' = [lapsed EXCEPT ![b] = @ + IF permitsLive(b) THEN 0 ELSE permits[b]]

\* validUntilFromResp: capped, and never in the past.
validUntilFromResp(w) == now + (IF w = 0 THEN EmergencyTTL ELSE Least(w, MaxValidUntil))

\* The delegate grants a block, capped.
RefillGranted(b, n, w) ==
    /\ refilling[b] /\ n > 0
    /\ refilling' = [refilling EXCEPT ![b] = FALSE]
    /\ Install(b, Least(n, MaxBlockSize), validUntilFromResp(w))
    /\ Again(b)
    /\ UNCHANGED <<bucket, debited>>

\* The delegate denies, or grants nothing, or is silent where that fails closed:
\* every waiter is rejected.
RefillDenied(b) ==
    /\ refilling[b] /\ (0 \in Grants \/ QuotaEnforce)
    /\ refilling' = [refilling EXCEPT ![b] = FALSE]
    /\ qpc' = [r \in Requests |-> IF r \in refillFlight[b].members THEN "rejected" ELSE qpc[r]]
    /\ refillFlight' = [refillFlight EXCEPT ![b] = NoFlight]
    /\ UNCHANGED <<permits, until, tries, bucket, granted, debited, lapsed>>

\* The delegate is absent or does not answer: an emergency block.
RefillUnavailable(b) ==
    /\ refilling[b] /\ ~QuotaEnforce
    /\ refilling' = [refilling EXCEPT ![b] = FALSE]
    /\ Install(b, EmergencyPermits, now + EmergencyTTL)
    /\ Again(b)
    /\ UNCHANGED <<bucket, debited>>

QuotaStep(b) ==
    \/ RefillRecheck(b) \/ RefillDenied(b) \/ RefillUnavailable(b)
    \/ \E n \in Grants, w \in Windows : RefillGranted(b, n, w)

-----------------------------------------------------------------------------
(***************************************************************************)
(* Every permit the delegate granted is spent once, still there, or ran    *)
(* out unspent: no refill wipes out a live block and nobody takes a permit *)
(* twice, however many requests meet an empty bucket together.             *)
(***************************************************************************)
PermitsAccounted ==
    \A b \in Buckets : granted[b] = debited[b] + permits[b] + lapsed[b]

(***************************************************************************)
(* "Always returns nil on fail-open paths": while no delegate answers, no  *)
(* request is rejected.                                                    *)
(***************************************************************************)
FailOpenAdmits == \A r \in Requests : qpc[r] # "rejected"
=============================================================================
