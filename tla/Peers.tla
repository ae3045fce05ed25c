------------------------------- MODULE Peers --------------------------------
(***************************************************************************)
(* The peers of a cluster (gw/peers.go, ForgetPeer of gw/control.go):      *)
(* every gateway refreshes a key in the `gwag-peers` bucket, follows the   *)
(* bucket's watch in a set of live peers, and raises the replica count of  *)
(* the cluster's buckets with the number of peers.  Each gateway compares  *)
(* with a count of its own, currentR, that starts at 1 with the process.   *)
(*                                                                         *)
(* Setting the replicas is one call per bucket, so the calls of several    *)
(* gateways, and of the watch loop and ForgetPeer of one, interleave.      *)
(***************************************************************************)
EXTENDS Naturals, Sequences, FiniteSets, SequencesExt

CONSTANTS
    Gateways,
    Formed,       \* gateways that are up, in a settled cluster, at the start
    Buckets,      \* the buckets setReplicas updates, in its order
    MaxReplicas,  \* maxReplicas: 3 in the code
    MaxQueue,     \* bound: refreshes wait while a watch has this many updates
    MaxFailures,  \* bound: UpdateKeyValue calls that fail
    MaxCrashes,   \* bound: gateways that go down
    MaxLapses,    \* bound: keys that expire although their gateway is up
    MaxForgets,   \* bound: ForgetPeer calls
    Idle, Ready

Event == [gw: Gateways, op: {"put", "del"}]
Job == [r: 1..MaxReplicas, todo: Seq(Range(Buckets)), ok: BOOLEAN]

ASSUME PeersAssumption ==
    /\ IsFiniteSet(Gateways) /\ Formed \subseteq Gateways
    /\ MaxReplicas \in Nat \ {0}
    /\ MaxQueue \in Nat /\ MaxFailures \in Nat /\ MaxCrashes \in Nat
    /\ MaxLapses \in Nat /\ MaxForgets \in Nat
    /\ Idle \notin Job /\ Ready \notin Event

VARIABLES
    up,        \* gateways that run
    keys,      \* keys of the peers bucket, by revision
    queue,     \* per gateway: watch updates not handled yet
    live,      \* per gateway: t.live
    currentR,  \* per gateway: t.currentR
    raising,   \* per gateway: the setReplicas call of its watch loop
    dropping,  \* per gateway: the peer a ForgetPeer has found to be gone
    forgetting,\* per gateway: the setReplicas call of its ForgetPeer
    replicas,  \* per bucket: its replica count
    count      \* uses of the bounds

vars == <<up, keys, queue, live, currentR, raising, dropping, forgetting, replicas, count>>
procVars == <<live, currentR, raising, dropping, forgetting>>

TypeOK ==
    /\ up \subseteq Gateways
    /\ keys \in Seq(Gateways)
    /\ queue \in [Gateways -> Seq(Event \cup {Ready})]
    /\ live \in [Gateways -> SUBSET Gateways]
    /\ currentR \in [Gateways -> 1..MaxReplicas]
    /\ raising \in [Gateways -> Job \cup {Idle}]
    /\ dropping \in [Gateways -> Gateways \cup {Idle}]
    /\ forgetting \in [Gateways -> Job \cup {Idle}]
    /\ replicas \in [Range(Buckets) -> 1..MaxReplicas]
    /\ count \in [fail: 0..MaxFailures, crash: 0..MaxCrashes,
                  lapse: 0..MaxLapses, forget: 0..MaxForgets]

\* min(peers, maxReplicas), at least 1.
Desired(peers) ==
    LET n == Cardinality(peers)
    IN  IF n > MaxReplicas THEN MaxReplicas ELSE IF n < 1 THEN 1 ELSE n

Init ==
    /\ up = Formed
    /\ keys = SetToSeq(Formed)
    /\ queue = [g \in Gateways |-> <<>>]
    /\ live = [g \in Gateways |-> IF g \in Formed THEN Formed ELSE {}]
    /\ currentR = [g \in Gateways |-> IF g \in Formed THEN Desired(Formed) ELSE 1]
    /\ raising = [g \in Gateways |-> Idle]
    /\ dropping = [g \in Gateways |-> Idle]
    /\ forgetting = [g \in Gateways |-> Idle]
    /\ replicas = [b \in Range(Buckets) |-> Desired(Formed)]
    /\ count = [fail |-> 0, crash |-> 0, lapse |-> 0, forget |-> 0]

-----------------------------------------------------------------------------
(* The peers bucket.                                                       *)

Used(field) == count' = [count EXCEPT ![field] = @ + 1]
Send(q, e) == [g \in Gateways |-> IF g \in up THEN Append(q[g], e) ELSE q[g]]

PutKey(p) ==
    /\ keys' = Append(Remove(keys, p), p)
    /\ queue' = Send(queue, [gw |-> p, op |-> "put"])

\* A key that was not refreshed for the TTL; observed as a delete.
Expire(p) ==
    /\ p \in Range(keys)
    /\ \/ p \notin up /\ UNCHANGED count
       \/ p \in up /\ count.lapse < MaxLapses /\ Used("lapse")
    /\ keys' = Remove(keys, p)
    /\ queue' = Send(queue, [gw |-> p, op |-> "del"])
    /\ UNCHANGED <<up, procVars, replicas>>

\* A watch drops an update that a newer one for the same key has overwritten.
Skip(g) ==
    /\ queue[g] # <<>> /\ Head(queue[g]) # Ready
    /\ \E i \in 2..Len(queue[g]) :
          queue[g][i] # Ready /\ queue[g][i].gw = Head(queue[g]).gw
    /\ queue' = [queue EXCEPT ![g] = Tail(@)]
    /\ UNCHANGED <<up, keys, procVars, replicas, count>>

-----------------------------------------------------------------------------
(* startClusterTracking and the loops.                                     *)

Puts(s) == [i \in 1..Len(s) |-> [gw |-> s[i], op |-> "put"]]

\* Puts its own key, then opens the watch: the replay ends with a nil update.
Start(g) ==
    /\ g \notin up
    /\ up' = up \cup {g}
    /\ keys' = Append(Remove(keys, g), g)
    /\ queue' = [Send(queue, [gw |-> g, op |-> "put"]) EXCEPT ![g] =
                    Append(Puts(keys'), Ready)]
    /\ live' = [live EXCEPT ![g] = {g}]
    /\ UNCHANGED <<currentR, raising, dropping, forgetting, replicas, count>>

\* The process ends; what it kept in memory is gone.
Stop(g) ==
    /\ g \in up
    /\ count.crash < MaxCrashes /\ Used("crash")
    /\ up' = up \ {g}
    /\ queue' = [queue EXCEPT ![g] = <<>>]
    /\ live' = [live EXCEPT ![g] = {}]
    /\ currentR' = [currentR EXCEPT ![g] = 1]
    /\ raising' = [raising EXCEPT ![g] = Idle]
    /\ dropping' = [dropping EXCEPT ![g] = Idle]
    /\ forgetting' = [forgetting EXCEPT ![g] = Idle]
    /\ UNCHANGED <<keys, replicas>>

\* One round of refreshLoop.
Refresh(g) ==
    /\ g \in up
    /\ \A h \in up : Len(queue[h]) < MaxQueue
    /\ PutKey(g)
    /\ UNCHANGED <<up, procVars, replicas, count>>

\* reconcileReplicas: whether, and to what, this gateway raises the buckets.
Raise(g, peers) ==
    IF Desired(peers) > currentR[g]
    THEN [r |-> Desired(peers), todo |-> Buckets, ok |-> TRUE] ELSE Idle

\* Mutation: deletes are not looked at.
WatchPutsOnly(g) ==
    /\ queue[g] # <<>> /\ raising[g] = Idle
    /\ LET e == Head(queue[g])
           peers == IF e = Ready \/ e.op = "del" THEN live[g] ELSE live[g] \cup {e.gw}
       IN  /\ live' = [live EXCEPT ![g] = peers]
           /\ raising' = [raising EXCEPT ![g] = Raise(g, peers)]
    /\ queue' = [queue EXCEPT ![g] = Tail(@)]
    /\ UNCHANGED <<up, keys, currentR, dropping, forgetting, replicas, count>>

\* The watch loop takes the next update, and reconciles after each.
Watch(g) ==
    /\ queue[g] # <<>> /\ raising[g] = Idle
    /\ LET e == Head(queue[g])
           peers == IF e = Ready THEN live[g]
                    ELSE IF e.op = "put" THEN live[g] \cup {e.gw}
                    ELSE live[g] \ {e.gw}
       IN  /\ live' = [live EXCEPT ![g] = peers]
           /\ raising' = [raising EXCEPT ![g] = Raise(g, peers)]
    /\ queue' = [queue EXCEPT ![g] = Tail(@)]
    /\ UNCHANGED <<up, keys, currentR, dropping, forgetting, replicas, count>>

\* One UpdateKeyValue of a setReplicas call; a failure does not stop the others.
Update(job) ==
    \/ /\ replicas' = [replicas EXCEPT ![Head(job.todo)] = job.r]
       /\ UNCHANGED count
    \/ /\ count.fail < MaxFailures /\ Used("fail")
       /\ UNCHANGED replicas

Updated(job) == [job EXCEPT !.todo = Tail(@), !.ok = @ /\ count' = count]

\* Mutation: currentR is stored although a bucket was not updated.
StoredAnyway(g, job) == [currentR EXCEPT ![g] = job.r]

\* currentR after the call: stored only if every bucket was updated.
Stored(g, job) == IF job.ok THEN [currentR EXCEPT ![g] = job.r] ELSE currentR

RaiseStep(g) ==
    /\ raising[g] # Idle
    /\ \/ /\ raising[g].todo # <<>>
          /\ Update(raising[g])
          /\ raising' = [raising EXCEPT ![g] = Updated(@)]
          /\ UNCHANGED currentR
       \/ /\ raising[g].todo = <<>>
          /\ currentR' = Stored(g, raising[g])
          /\ raising' = [raising EXCEPT ![g] = Idle]
          /\ UNCHANGED <<replicas, count>>
    /\ UNCHANGED <<up, keys, queue, live, dropping, forgetting>>

-----------------------------------------------------------------------------
(* ForgetPeer: the key is looked up; then the peer leaves the live set and *)
(* the buckets are shrunk.                                                 *)

ForgetPeer(g, p) ==
    /\ g \in up /\ p # g
    /\ dropping[g] = Idle /\ forgetting[g] = Idle
    /\ p \notin Range(keys)
    /\ count.forget < MaxForgets /\ Used("forget")
    /\ dropping' = [dropping EXCEPT ![g] = p]
    /\ UNCHANGED <<up, keys, queue, live, currentR, raising, forgetting, replicas>>

ForgetDrop(g) ==
    /\ dropping[g] # Idle
    /\ live' = [live EXCEPT ![g] = @ \ {dropping[g]}]
    /\ forgetting' = [forgetting EXCEPT ![g] =
          IF Desired(live'[g]) < currentR[g]
          THEN [r |-> Desired(live'[g]), todo |-> Buckets, ok |-> TRUE] ELSE Idle]
    /\ dropping' = [dropping EXCEPT ![g] = Idle]
    /\ UNCHANGED <<up, keys, queue, currentR, raising, replicas, count>>

ForgetStep(g) ==
    /\ forgetting[g] # Idle
    /\ \/ /\ forgetting[g].todo # <<>>
          /\ Update(forgetting[g])
          /\ forgetting' = [forgetting EXCEPT ![g] = Updated(@)]
          /\ UNCHANGED currentR
       \/ /\ forgetting[g].todo = <<>>
          /\ currentR' = Stored(g, forgetting[g])
          /\ forgetting' = [forgetting EXCEPT ![g] = Idle]
          /\ UNCHANGED <<replicas, count>>
    /\ UNCHANGED <<up, keys, queue, live, raising, dropping>>

-----------------------------------------------------------------------------
Next ==
    \E g \in Gateways :
        \/ Start(g) \/ Stop(g) \/ Refresh(g) \/ Expire(g)
        \/ Watch(g) \/ Skip(g) \/ RaiseStep(g)
        \/ \E p \in Gateways : ForgetPeer(g, p)
        \/ ForgetDrop(g) \/ ForgetStep(g)

Spec == Init /\ [][Next]_vars

(***************************************************************************)
(* The loops of a gateway that is up run: the refresh ticker fires, the    *)
(* watch delivers, calls return.  The key of a gateway that is down runs   *)
(* into its TTL.                                                           *)
(***************************************************************************)
Fairness ==
    \A g \in Gateways :
        /\ WF_vars(Watch(g)) /\ WF_vars(RaiseStep(g))
        /\ WF_vars(ForgetDrop(g)) /\ WF_vars(ForgetStep(g))
        /\ SF_vars(Refresh(g))
        /\ WF_vars(g \notin up /\ Expire(g))

FairSpec == Spec /\ Fairness

-----------------------------------------------------------------------------
(* Properties.                                                             *)

(***************************************************************************)
(* Once the same gateways stay up, each of them has exactly these as its   *)
(* live peers, whatever keys lapsed and peers were forgotten on the way: a *)
(* peer that a late ForgetPeer removed comes back with its next refresh,   *)
(* one that a late update brought back leaves when its key expires.        *)
(***************************************************************************)
LiveFollowsUp ==
    \A G \in SUBSET Gateways :
        <>[](up = G) => <>[](\A g \in G : live[g] = G)

(***************************************************************************)
(* Once the same gateways stay up, every bucket gets min(peers,            *)
(* maxReplicas) replicas and keeps them, although updates fail in some     *)
(* buckets and not in others (reconcileReplicas runs on every refresh that *)
(* the watch delivers, and setReplicas stores nothing when it failed).     *)
(* Without ForgetPeer, which lowers on purpose, and for small clusters:    *)
(* ShortfallNoticed says how four gateways can miss it.                    *)
(***************************************************************************)
ReplicasCatchUp ==
    [](count.forget = 0) =>
        \A G \in SUBSET Gateways :
            <>[](up = G) => <>[](\A b \in Range(Buckets) : replicas[b] >= Desired(G))

(***************************************************************************)
(* peers.go says reconcileReplicas is strictly monotonic and ForgetPeer is *)
(* the only path that shrinks.                                             *)
(***************************************************************************)
ReplicasNeverLowered ==
    [][\A b \in Range(Buckets) :
          replicas'[b] < replicas[b] => \E g \in Gateways : forgetting'[g] # forgetting[g]]_vars

(***************************************************************************)
(* peers.go says reconcileReplicas raises the buckets to min(peers,        *)
(* maxReplicas): a cluster at rest, with every peer seen by every peer,    *)
(* has its replicas, or a gateway whose next watch update raises them.     *)
(***************************************************************************)
ShortfallNoticed ==
    /\ \A g \in Gateways : raising[g] = Idle /\ dropping[g] = Idle /\ forgetting[g] = Idle
    /\ \A g \in up : live[g] = up
    => \/ \A b \in Range(Buckets) : replicas[b] >= Desired(up)
       \/ \E g \in up : currentR[g] < Desired(up)

-----------------------------------------------------------------------------
(* A small instance for TLC.                                               *)

TwoBuckets == <<"peers", "registry">>
=============================================================================
