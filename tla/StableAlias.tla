---------------------------- MODULE StableAlias -----------------------------
(***************************************************************************)
(* The stable alias of one namespace in a cluster (gw/stable.go).  Every   *)
(* gateway keeps the highest vN it has created a slot for, writes it to    *)
(* the `gwag-stable` bucket from a goroutine of its own with compare and   *)
(* set, and follows the bucket's watch.  RetractStable lowers the alias    *)
(* with a forced put.  Namespaces do not interact, so one is enough.       *)
(*                                                                         *)
(* Which versions are registered in the cluster is the environment here    *)
(* (Reconciler models how it comes about): a gateway's reconciler creates  *)
(* and releases the slots of its own index to follow it.                   *)
(***************************************************************************)
EXTENDS Naturals, Sequences, FiniteSets

CONSTANTS
    Gateways,
    MaxVN,          \* bound: versions that are registered
    MaxAttempts,    \* attempts of one write-back goroutine (10 in the code)
    MaxRegisters,   \* bound: registrations of a version
    MaxRetracts,    \* bound: RetractStable calls
    MaxFailures,    \* bound: KV calls that fail
    MaxRestarts     \* bound: gateway restarts and watch restarts

ASSUME StableAssumption ==
    /\ MaxVN \in Nat \ {0} /\ MaxAttempts \in Nat \ {0}
    /\ MaxRegisters \in Nat /\ MaxRetracts \in Nat
    /\ MaxFailures \in Nat /\ MaxRestarts \in Nat

VN == 1..MaxVN
Ready == 0   \* the nil update a watch sends when the replay is over

\* A write-back goroutine: about to read the bucket, or to compare and set.
Writer == [gw: Gateways, vn: VN, phase: {"get", "cas"}, rev: Nat, left: 1..MaxAttempts]

VARIABLES
    registered,  \* versions with a replica in the cluster
    has,         \* per gateway: versions with a slot
    stable,      \* per gateway: g.stableVN of the namespace, 0 when unset
    served,      \* per gateway: the alias in the schema that is served
    kv, rev,     \* the bucket: value (0 when absent) and its revision
    queue,       \* per gateway: watch updates not handled yet
    ready,       \* gateways whose watch has replayed the bucket
    writers,     \* write-back goroutines
    retracts,    \* per gateway: target of a RetractStable about to be put, or 0
    settled,     \* history: a retract was put when every gateway had a slot for
                 \* every version and no write-back ran, and none registered since
    count        \* uses of the bounds

vars == <<registered, has, stable, served, kv, rev, queue, ready, writers, retracts,
          settled, count>>
bucket == <<kv, rev, queue>>

TypeOK ==
    /\ registered \subseteq VN
    /\ has \in [Gateways -> SUBSET VN]
    /\ stable \in [Gateways -> 0..MaxVN]
    /\ served \in [Gateways -> 0..MaxVN]
    /\ kv \in 0..MaxVN
    /\ rev \in Nat
    /\ queue \in [Gateways -> Seq(0..MaxVN)]
    /\ ready \subseteq Gateways
    /\ writers \subseteq Writer
    /\ retracts \in [Gateways -> 0..MaxVN]
    /\ settled \in BOOLEAN
    /\ count \in [reg: 0..MaxRegisters, retract: 0..MaxRetracts,
                  fail: 0..MaxFailures, restart: 0..MaxRestarts]

Init ==
    /\ registered = {}
    /\ has = [g \in Gateways |-> {}]
    /\ stable = [g \in Gateways |-> 0]
    /\ served = [g \in Gateways |-> 0]
    /\ kv = 0
    /\ rev = 0
    /\ queue = [g \in Gateways |-> <<Ready>>]
    /\ ready = {}
    /\ writers = {}
    /\ retracts = [g \in Gateways |-> 0]
    /\ settled = FALSE
    /\ count = [reg |-> 0, retract |-> 0, fail |-> 0, restart |-> 0]

-----------------------------------------------------------------------------
(* The bucket.                                                             *)

Put(v) ==
    /\ kv' = v
    /\ rev' = rev + 1
    /\ queue' = [g \in Gateways |-> Append(queue[g], v)]

Replay == IF kv = 0 THEN <<Ready>> ELSE <<kv, Ready>>

\* A call returns an error.
Fail ==
    /\ count.fail < MaxFailures
    /\ count' = [count EXCEPT !.fail = @ + 1]

\* A watch drops an update that a newer one has overwritten.
Skip(g) ==
    /\ \E i \in 2..Len(queue[g]) : queue[g][1] # Ready /\ queue[g][i] # Ready
    /\ queue' = [queue EXCEPT ![g] = Tail(@)]
    /\ UNCHANGED <<registered, has, stable, served, kv, rev, ready, writers, retracts, settled, count>>

-----------------------------------------------------------------------------
(* Registrations in the cluster, and the slots a gateway keeps for them.   *)

Register(n) ==
    /\ n \notin registered
    /\ count.reg < MaxRegisters
    /\ registered' = registered \cup {n}
    /\ count' = [count EXCEPT !.reg = @ + 1]
    /\ settled' = FALSE
    /\ UNCHANGED <<has, stable, served, bucket, ready, writers, retracts>>

Leave(n) ==
    /\ n \in registered
    /\ registered' = registered \ {n}
    /\ UNCHANGED <<has, stable, served, bucket, ready, writers, retracts, settled, count>>

\* The alias is rendered if its version is in the build.
Alias(slots, n) == IF n \in slots THEN n ELSE 0

\* A slot is created: advanceStableLocked, then assembly.
Create(g, n) ==
    /\ n \in registered \ has[g]
    /\ has' = [has EXCEPT ![g] = @ \cup {n}]
    /\ IF n > stable[g]
       THEN /\ stable' = [stable EXCEPT ![g] = n]
            /\ writers' = writers \cup
                 {[gw |-> g, vn |-> n, phase |-> "get", rev |-> 0, left |-> MaxAttempts]}
       ELSE UNCHANGED <<stable, writers>>
    /\ served' = [served EXCEPT ![g] = Alias(has'[g], stable'[g])]
    /\ UNCHANGED <<registered, bucket, ready, retracts, settled, count>>

\* A slot is released: the schema is rebuilt, the alias stays.
Release(g, n) ==
    /\ n \in has[g] \ registered
    /\ has' = [has EXCEPT ![g] = @ \ {n}]
    /\ served' = [served EXCEPT ![g] = Alias(has'[g], stable[g])]
    /\ UNCHANGED <<registered, stable, bucket, ready, writers, retracts, settled, count>>

-----------------------------------------------------------------------------
(* writeStableMonotonic: read, then Create or Update at that revision.     *)

\* Mutation: no second attempt.
RetryNever(w) == {}

\* Another attempt, if there is one left.
Retry(w) == IF w.left = 1 THEN {} ELSE {[w EXCEPT !.phase = "get", !.rev = 0, !.left = @ - 1]}

WriterGet(w) ==
    /\ w.phase = "get"
    /\ \/ /\ writers' = (writers \ {w}) \cup
                          IF w.vn <= kv THEN {} ELSE {[w EXCEPT !.phase = "cas", !.rev = rev]}
          /\ UNCHANGED <<bucket, count>>
       \/ /\ Fail /\ UNCHANGED bucket
          /\ writers' = (writers \ {w}) \cup Retry(w)
    /\ UNCHANGED <<registered, has, stable, served, ready, retracts, settled>>

\* A write that is reported to have failed may have landed all the same.
WriterCas(w) ==
    /\ w.phase = "cas"
    /\ \/ /\ rev = w.rev
          /\ Put(w.vn)
          /\ writers' = writers \ {w}
          /\ UNCHANGED count
       \/ /\ rev # w.rev
          /\ writers' = (writers \ {w}) \cup Retry(w)
          /\ UNCHANGED <<bucket, count>>
       \/ /\ Fail /\ (UNCHANGED bucket \/ (rev = w.rev /\ Put(w.vn)))
          /\ writers' = (writers \ {w}) \cup Retry(w)
    /\ UNCHANGED <<registered, has, stable, served, ready, retracts, settled>>

-----------------------------------------------------------------------------
(* RetractStable: lower the local value and rebuild, then force the put.   *)

Retract(g, target) ==
    /\ count.retract < MaxRetracts
    /\ retracts[g] = 0
    /\ stable[g] # 0 /\ target < stable[g]
    /\ target \in has[g]
    /\ stable' = [stable EXCEPT ![g] = target]
    /\ served' = [served EXCEPT ![g] = target]
    /\ retracts' = [retracts EXCEPT ![g] = target]
    /\ count' = [count EXCEPT !.retract = @ + 1]
    /\ UNCHANGED <<registered, has, bucket, ready, writers, settled>>

RetractPut(g) ==
    /\ retracts[g] # 0
    /\ \/ /\ Put(retracts[g]) /\ UNCHANGED count
          /\ settled' = (writers = {} /\ \A h \in Gateways : registered \subseteq has[h])
       \/ /\ Fail /\ (UNCHANGED bucket \/ Put(retracts[g]))
          /\ UNCHANGED settled
    /\ retracts' = [retracts EXCEPT ![g] = 0]
    /\ UNCHANGED <<registered, has, stable, served, ready, writers>>

-----------------------------------------------------------------------------
(* stableWatchLoop.                                                        *)

\* Mutation: the local value is never lowered.
WatchMax(g) ==
    /\ queue[g] # <<>>
    /\ LET v == Head(queue[g])
       IN  /\ ready' = IF v = Ready THEN ready \cup {g} ELSE ready
           /\ stable' = IF v = Ready \/ v < stable[g] THEN stable ELSE [stable EXCEPT ![g] = v]
           /\ served' = IF stable'[g] # stable[g] /\ g \in ready
                        THEN [served EXCEPT ![g] = Alias(has[g], stable'[g])] ELSE served
    /\ queue' = [queue EXCEPT ![g] = Tail(@)]
    /\ UNCHANGED <<registered, has, kv, rev, writers, retracts, settled, count>>

\* The value of the bucket replaces the local one; a change rebuilds the
\* schema unless it comes from the replay.
Watch(g) ==
    /\ queue[g] # <<>>
    /\ LET v == Head(queue[g])
       IN  /\ ready' = IF v = Ready THEN ready \cup {g} ELSE ready
           /\ stable' = IF v = Ready THEN stable ELSE [stable EXCEPT ![g] = v]
           /\ served' = IF stable'[g] # stable[g] /\ g \in ready
                        THEN [served EXCEPT ![g] = Alias(has[g], stable'[g])] ELSE served
    /\ queue' = [queue EXCEPT ![g] = Tail(@)]
    /\ UNCHANGED <<registered, has, kv, rev, writers, retracts, settled, count>>

Restarted == count' = [count EXCEPT !.restart = @ + 1]

\* The update channel closes and the loop opens a new watch.
Rewatch(g) ==
    /\ count.restart < MaxRestarts /\ Restarted
    /\ queue' = [queue EXCEPT ![g] = Replay]
    /\ ready' = ready \ {g}
    /\ UNCHANGED <<registered, has, stable, served, kv, rev, writers, retracts, settled>>

\* The gateway process goes down and comes back with an empty memory.
Restart(g) ==
    /\ count.restart < MaxRestarts /\ Restarted
    /\ has' = [has EXCEPT ![g] = {}]
    /\ stable' = [stable EXCEPT ![g] = 0]
    /\ served' = [served EXCEPT ![g] = 0]
    /\ queue' = [queue EXCEPT ![g] = Replay]
    /\ ready' = ready \ {g}
    /\ writers' = {w \in writers : w.gw # g}
    /\ retracts' = [retracts EXCEPT ![g] = 0]
    /\ UNCHANGED <<registered, kv, rev, settled>>

-----------------------------------------------------------------------------
Next ==
    \/ \E n \in VN : Register(n) \/ Leave(n)
    \/ \E g \in Gateways :
        \/ \E n \in VN : Create(g, n) \/ Release(g, n) \/ Retract(g, n)
        \/ RetractPut(g) \/ Watch(g) \/ Skip(g) \/ Rewatch(g) \/ Restart(g)
    \/ \E w \in writers : WriterGet(w) \/ WriterCas(w)

Spec == Init /\ [][Next]_vars

(***************************************************************************)
(* Goroutines run, watches deliver and reconcilers follow the registry.    *)
(***************************************************************************)
Fairness ==
    /\ \A g \in Gateways : /\ WF_vars(Watch(g)) /\ WF_vars(RetractPut(g))
                           /\ \A n \in VN : WF_vars(Create(g, n))
    /\ WF_vars(\E w \in writers : WriterGet(w) \/ WriterCas(w))

FairSpec == Spec /\ Fairness

-----------------------------------------------------------------------------
(* Properties.                                                             *)

Quiet ==
    /\ writers = {}
    /\ \A g \in Gateways : queue[g] = <<>> /\ retracts[g] = 0

(***************************************************************************)
(* When all goroutines are done, all watches handled and no KV call was    *)
(* given up, every gateway has the value of the bucket: compare and set,   *)
(* the forced put of a retract and stale updates leave no gateway behind.  *)
(***************************************************************************)
GatewaysFollowBucket ==
    Quiet /\ count.fail = 0 => \A g \in Gateways : stable[g] = kv

(***************************************************************************)
(* Write-backs of concurrent gateways only raise the bucket's value: it is *)
(* lowered by the forced put of a retract and by nothing else.             *)
(***************************************************************************)
BucketLoweredByRetract ==
    [][kv' < kv => \E g \in Gateways : retracts[g] = kv' /\ retracts'[g] = 0]_vars

(***************************************************************************)
(* A version that stays registered is in the end covered by the alias of   *)
(* every gateway, through colliding write-backs, restarts and new watches, *)
(* if nothing is retracted and no KV call fails.                           *)
(***************************************************************************)
AliasCatchesUp ==
    [](count.retract = 0 /\ count.fail = 0) =>
        \A n \in VN : <>[](n \in registered) => <>[](\A g \in Gateways : stable[g] >= n)

(***************************************************************************)
(* stable.go calls the alias monotonic ("only advances"; RetractStable is  *)
(* the only path that decrements): without a retract no running gateway    *)
(* ever moves its alias back.                                              *)
(***************************************************************************)
AliasNeverBack ==
    [][count.retract = 0 => \A g \in Gateways :
          stable'[g] < stable[g] => has'[g] # has[g] \/ count' # count]_vars

(***************************************************************************)
(* stable.go says a retract stays in the bucket "until the next register   *)
(* lands": a retract that was put when every gateway had seen every        *)
(* registration is not undone before there is a new one.                   *)
(***************************************************************************)
RetractHolds == [][settled => kv' <= kv]_vars

(***************************************************************************)
(* control.go says a retract is reflected into every peer's local state,   *)
(* which then rebuilds: after a retract has settled, a gateway that has    *)
(* handled its watch serves the alias it holds.                            *)
(***************************************************************************)
ServedAliasFresh ==
    \A g \in Gateways :
        settled /\ queue[g] = <<>> => served[g] = Alias(has[g], stable[g])
=============================================================================
