----------------------------- MODULE Reconciler -----------------------------
(***************************************************************************)
(* The service registry of a cluster of gateways: the registry KV bucket   *)
(* (gw/registry.go), the control plane of the gateway that receives a      *)
(* registration (gw/control.go) and the reconciler every gateway runs on   *)
(* the bucket's watch (gw/reconciler.go).                                  *)
(*                                                                         *)
(* A registration writes one key per binding, under a replica id that is   *)
(* drawn for it, and every later heartbeat writes the same value again: so *)
(* the value is a constant of the replica id, and a registration a         *)
(* constant list of replica ids and a home gateway.                        *)
(*                                                                         *)
(* The bucket keeps the last revision of a key (history 1).  A watch       *)
(* first replays what the bucket holds, in revision order, and then gets   *)
(* every new revision; one that was overwritten before it was read may be  *)
(* dropped.  The code takes an expired key to be observed as a delete.     *)
(*                                                                         *)
(* The stable alias, deprecation and rejection counters that a join also   *)
(* touches are in ControlPlane and StableAlias.                            *)
(***************************************************************************)
EXTENDS Registry, Sequences, SequencesExt

CONSTANTS
    Gateways,
    Addrs,
    Rids,        \* replica ids
    ValueOf,     \* the registryValue of a replica id: [key, spec, addr]
    Regs,        \* registrations
    RidsOf,      \* the replica ids of a registration, in binding order
    HomeOf,      \* the gateway that received it
    MaxBeats,    \* bound: heartbeats that are sent
    MaxCrashes,  \* bound: gateway restarts and watches opened anew
    Idle

Value == [key: Keys, spec: Specs, addr: Addrs]
Replica == [id: Rids, addr: Addrs]
Event == [rid: Rids, op: {"put", "del"}]
Call == [reg: Regs, todo: Seq(Rids), done: Seq(Rids), phase: {"put", "undo"}]

ASSUME ReconcilerAssumption ==
    /\ ValueOf \in [Rids -> Value]
    /\ RidsOf \in [Regs -> Seq(Rids)]
    /\ HomeOf \in [Regs -> Gateways]
    /\ MaxBeats \in Nat /\ MaxCrashes \in Nat
    /\ NoSlot \notin SlotOf(Replica)
    /\ Idle \notin Call

VARIABLES
    kv,         \* the bucket: last event of every key written, oldest first
    queue,      \* per gateway: watch events not handled yet
    slots,      \* per gateway: g.slots
    conns,      \* per gateway: reconciler.conns, references per address
    regs,       \* cp.regs, of all gateways
    used,       \* registrations that were started
    call,       \* per gateway: the Register call that holds cp.mu
    beats,      \* per registration: keys its heartbeat has yet to write
    deletes,    \* per registration: keys its Deregister has yet to delete
    sent,       \* heartbeats so far
    crashes     \* uses of MaxCrashes

vars == <<kv, queue, slots, conns, regs, used, call, beats, deletes, sent, crashes>>
cpVars == <<regs, used, call, beats, deletes, sent, crashes>>

TypeOK ==
    /\ kv \in Seq(Event)
    /\ queue \in [Gateways -> Seq(Event)]
    /\ slots \in [Gateways -> [Keys -> SlotOf(Replica) \cup {NoSlot}]]
    /\ conns \in [Gateways -> [Addrs -> Nat]]
    /\ regs \subseteq Regs
    /\ used \subseteq Regs
    /\ call \in [Gateways -> Call \cup {Idle}]
    /\ beats \in [Regs -> Seq(Rids)]
    /\ deletes \in [Regs -> Seq(Rids)]
    /\ sent \in 0..MaxBeats
    /\ crashes \in 0..MaxCrashes

Init ==
    /\ kv = <<>>
    /\ queue = [g \in Gateways |-> <<>>]
    /\ slots = [g \in Gateways |-> EmptyIndex]
    /\ conns = [g \in Gateways |-> [a \in Addrs |-> 0]]
    /\ regs = {}
    /\ used = {}
    /\ call = [g \in Gateways |-> Idle]
    /\ beats = [r \in Regs |-> <<>>]
    /\ deletes = [r \in Regs |-> <<>>]
    /\ sent = 0
    /\ crashes = 0

-----------------------------------------------------------------------------
(* The bucket.                                                             *)

\* The revisions without the one of a key; there is at most one.
Without(q, rid) ==
    LET at == {i \in DOMAIN q : q[i].rid = rid}
    IN  IF at = {} THEN q ELSE RemoveAt(q, CHOOSE i \in at : TRUE)

\* A revision of the key lands and is sent to every watch.
Write(rid, op) ==
    LET e == [rid |-> rid, op |-> op]
    IN  /\ kv' = Append(Without(kv, rid), e)
        /\ queue' = [g \in Gateways |-> Append(queue[g], e)]

Lost == UNCHANGED <<kv, queue>>

Present(rid) == \E i \in 1..Len(kv) : kv[i] = [rid |-> rid, op |-> "put"]

\* Registrations whose home still refreshes the key.
Refreshed(rid) == \E r \in regs : rid \in Range(RidsOf[r])

\* The TTL of a key that was not refreshed in time.
Expire(rid) ==
    /\ Present(rid)
    /\ Write(rid, "del")
    /\ UNCHANGED <<slots, conns, cpVars>>

\* A watch drops an event that a later one for the same key has overwritten.
Skip(g) ==
    /\ queue[g] # <<>>
    /\ \E i \in 2..Len(queue[g]) : queue[g][i].rid = Head(queue[g]).rid
    /\ queue' = [queue EXCEPT ![g] = Tail(@)]
    /\ UNCHANGED <<kv, slots, conns, cpVars>>

-----------------------------------------------------------------------------
(* The control plane of the home gateway.                                  *)

RegisterStart(r) ==
    /\ r \notin used
    /\ call[HomeOf[r]] = Idle
    /\ used' = used \cup {r}
    /\ call' = [call EXCEPT ![HomeOf[r]] =
                  [reg |-> r, todo |-> RidsOf[r], done |-> <<>>, phase |-> "put"]]
    /\ UNCHANGED <<kv, queue, slots, conns, regs, beats, deletes, sent, crashes>>

Putting(g) == call[g] # Idle /\ call[g].phase = "put" /\ call[g].todo # <<>>

\* The put of the next binding's key is acknowledged.
RegisterPut(g) ==
    /\ Putting(g)
    /\ Write(Head(call[g].todo), "put")
    /\ call' = [call EXCEPT ![g].todo = Tail(@),
                            ![g].done = Append(@, Head(call[g].todo))]
    /\ UNCHANGED <<slots, conns, regs, used, beats, deletes, sent, crashes>>

\* kvPutRetry runs out of time; an attempt may have landed all the same.
RegisterPutFails(g) ==
    /\ Putting(g)
    /\ Lost \/ Write(Head(call[g].todo), "put")
    /\ call' = [call EXCEPT ![g].phase = "undo"]
    /\ UNCHANGED <<slots, conns, regs, used, beats, deletes, sent, crashes>>

\* deleteKVKeys, best effort, over the keys whose put was acknowledged.
RegisterUndo(g) ==
    /\ call[g] # Idle /\ call[g].phase = "undo" /\ call[g].done # <<>>
    /\ Lost \/ Write(Head(call[g].done), "del")
    /\ call' = [call EXCEPT ![g].done = Tail(@)]
    /\ UNCHANGED <<slots, conns, regs, used, beats, deletes, sent, crashes>>

RegisterReturn(g) ==
    /\ call[g] # Idle
    /\ \/ /\ call[g].phase = "put" /\ call[g].todo = <<>>
          /\ regs' = regs \cup {call[g].reg}
       \/ /\ call[g].phase = "undo" /\ call[g].done = <<>>
          /\ UNCHANGED regs
    /\ call' = [call EXCEPT ![g] = Idle]
    /\ UNCHANGED <<kv, queue, slots, conns, used, beats, deletes, sent, crashes>>

\* Heartbeat looks the registration up under cp.mu ...
Heartbeat(r) ==
    /\ call[HomeOf[r]] = Idle
    /\ r \in regs
    /\ beats[r] = <<>>
    /\ sent < MaxBeats
    /\ sent' = sent + 1
    /\ beats' = [beats EXCEPT ![r] = RidsOf[r]]
    /\ UNCHANGED <<kv, queue, slots, conns, regs, used, call, deletes, crashes>>

\* ... and writes its keys again after the unlock, best effort.
HeartbeatPut(r) ==
    /\ beats[r] # <<>>
    /\ Lost \/ Write(Head(beats[r]), "put")
    /\ beats' = [beats EXCEPT ![r] = Tail(@)]
    /\ UNCHANGED <<slots, conns, regs, used, call, deletes, sent, crashes>>

\* Deregister, by the service or the janitor: forget under cp.mu ...
Deregister(r) ==
    /\ call[HomeOf[r]] = Idle
    /\ r \in regs
    /\ regs' = regs \ {r}
    /\ deletes' = [deletes EXCEPT ![r] = RidsOf[r]]
    /\ UNCHANGED <<kv, queue, slots, conns, used, call, beats, sent, crashes>>

\* ... and delete the keys after the unlock, best effort.
DeregisterDelete(r) ==
    /\ deletes[r] # <<>>
    /\ Lost \/ Write(Head(deletes[r]), "del")
    /\ deletes' = [deletes EXCEPT ![r] = Tail(@)]
    /\ UNCHANGED <<slots, conns, regs, used, call, beats, sent, crashes>>

-----------------------------------------------------------------------------
(* The reconciler.                                                         *)

ReplicaOf(rid) == [id |-> rid, addr |-> ValueOf[rid].addr]
NoDeprecation == [k \in Keys |-> NoReason]

\* The replica a key stands for is in the slot of its key.
Has(s, rid) ==
    LET k == ValueOf[rid].key
    IN  s[k] # NoSlot /\ \E r \in s[k].replicas : r.id = rid

AcquireConn(c, a) == [c EXCEPT ![a] = @ + 1]
ReleaseConn(c, a) == [c EXCEPT ![a] = IF @ > 0 THEN @ - 1 ELSE 0]

\* The slot index and the connections after joining the replica of rid.
JoinReplica(s, c, rid) ==
    LET v == ValueOf[rid]
        proto == v.spec.kind = "proto"
        joined == Join(s, NoDeprecation, v.key, v.spec, ReplicaOf(rid))
        dialed == IF proto THEN AcquireConn(c, v.addr) ELSE c
    IN  CASE Rejected(s, v.key, v.spec) -> <<s, c>>
          [] ~Rejected(s, v.key, v.spec) /\ Existed(s, v.key, v.spec) -> <<joined, dialed>>
          [] ~Rejected(s, v.key, v.spec) /\ ~Existed(s, v.key, v.spec) ->
               IF v.spec \in BadSpecs THEN <<[s EXCEPT ![v.key] = NoSlot], c>>
               ELSE IF Buildable(joined) THEN <<joined, dialed>>
               ELSE <<joined, c>>   \* the join failed in assembly: conn released

\* A replica that is already there is kept: the value of a key never changes.
HandlePut(g, rid) ==
    LET after == IF Has(slots[g], rid) THEN <<slots[g], conns[g]>>
                 ELSE JoinReplica(slots[g], conns[g], rid)
    IN  /\ slots' = [slots EXCEPT ![g] = after[1]]
        /\ conns' = [conns EXCEPT ![g] = after[2]]

\* Mutation: the last replica of a slot is kept.
HandleDeleteKeepLast(g, rid) ==
    IF Has(slots[g], rid) /\ slots[g][ValueOf[rid].key].replicas # {ReplicaOf(rid)}
    THEN /\ slots' = [slots EXCEPT ![g] = RemoveReplicas(@, {ReplicaOf(rid)})]
         /\ conns' = [conns EXCEPT ![g] = ReleaseConn(@, ValueOf[rid].addr)]
    ELSE UNCHANGED <<slots, conns>>

HandleDelete(g, rid) ==
    IF Has(slots[g], rid)
    THEN LET v == ValueOf[rid]
             removed == {r \in slots[g][v.key].replicas : r.id = rid}
         IN  /\ slots' = [slots EXCEPT ![g][v.key] = WithoutReplicas(@, removed)]
             /\ conns' = IF slots[g][v.key].spec.kind = "proto"
                         THEN [conns EXCEPT ![g] = ReleaseConn(@, v.addr)]
                         ELSE conns
    ELSE UNCHANGED <<slots, conns>>

\* The watch loop takes the next event.
Watch(g) ==
    /\ queue[g] # <<>>
    /\ LET e == Head(queue[g])
       IN  \/ e.op = "put" /\ HandlePut(g, e.rid)
           \/ e.op = "del" /\ HandleDelete(g, e.rid)
    /\ queue' = [queue EXCEPT ![g] = Tail(@)]
    /\ UNCHANGED <<kv, cpVars>>

\* Mutation: the new watch gets updates only, no replay.
RestartUpdatesOnly(g) ==
    /\ crashes < MaxCrashes
    /\ crashes' = crashes + 1
    /\ queue' = [queue EXCEPT ![g] = <<>>]
    /\ slots' = [slots EXCEPT ![g] = EmptyIndex]
    /\ conns' = [conns EXCEPT ![g] = [a \in Addrs |-> 0]]
    /\ regs' = {r \in regs : HomeOf[r] # g}
    /\ UNCHANGED <<kv, used, call, beats, deletes, sent>>

\* A gateway goes down with all it kept in memory, and comes back: a new watch.
Restart(g) ==
    /\ crashes < MaxCrashes
    /\ crashes' = crashes + 1
    /\ queue' = [queue EXCEPT ![g] = kv]
    /\ slots' = [slots EXCEPT ![g] = EmptyIndex]
    /\ conns' = [conns EXCEPT ![g] = [a \in Addrs |-> 0]]
    /\ regs' = {r \in regs : HomeOf[r] # g}
    /\ call' = [call EXCEPT ![g] = Idle]
    /\ beats' = [r \in Regs |-> IF HomeOf[r] = g THEN <<>> ELSE beats[r]]
    /\ deletes' = [r \in Regs |-> IF HomeOf[r] = g THEN <<>> ELSE deletes[r]]
    /\ UNCHANGED <<kv, used, sent>>

\* The update channel closes and the watch loop opens a new watch.
Rewatch(g) ==
    /\ crashes < MaxCrashes
    /\ crashes' = crashes + 1
    /\ queue' = [queue EXCEPT ![g] = kv]
    /\ UNCHANGED <<kv, slots, conns, regs, used, call, beats, deletes, sent>>

-----------------------------------------------------------------------------
Next ==
    \/ \E r \in Regs : \/ RegisterStart(r)
                       \/ Heartbeat(r) \/ HeartbeatPut(r)
                       \/ Deregister(r) \/ DeregisterDelete(r)
    \/ \E g \in Gateways : \/ RegisterPut(g) \/ RegisterPutFails(g)
                           \/ RegisterUndo(g) \/ RegisterReturn(g)
                           \/ Watch(g) \/ Skip(g) \/ Rewatch(g) \/ Restart(g)
    \/ \E rid \in Rids : Expire(rid)

Spec == Init /\ [][Next]_vars

(***************************************************************************)
(* Watches deliver, the calls under way end, and a key that no home        *)
(* gateway refreshes any more runs into its TTL.                           *)
(***************************************************************************)
Fairness ==
    /\ \A g \in Gateways : /\ WF_vars(Watch(g))
                           /\ WF_vars(RegisterPut(g) \/ RegisterPutFails(g)
                                      \/ RegisterUndo(g) \/ RegisterReturn(g))
    /\ \A r \in Regs : WF_vars(HeartbeatPut(r)) /\ WF_vars(DeregisterDelete(r))
    /\ \A rid \in Rids : WF_vars(~Refreshed(rid) /\ Expire(rid))

FairSpec == Spec /\ Fairness

-----------------------------------------------------------------------------
(* Properties.                                                             *)

ProtoReplicas(g, a) ==
    {r \in Replica : /\ r.addr = a
                     /\ \E k \in LiveKeys(slots[g]) :
                          slots[g][k].spec.kind = "proto" /\ r \in slots[g][k].replicas}

(***************************************************************************)
(* reconciler.conns holds one reference per proto replica of the address:  *)
(* a replayed, skipped or repeated event neither leaks a connection nor    *)
(* closes one that a replica still uses.                                   *)
(***************************************************************************)
ConnRefsExact ==
    \A g \in Gateways, a \in Addrs : conns[g][a] = Cardinality(ProtoReplicas(g, a))

(***************************************************************************)
(* A gateway that has handled its watch serves exactly the replicas whose  *)
(* keys are in the bucket, whatever was overwritten, repeated or expired   *)
(* on the way, and also after it was restarted or its watch broke; and     *)
(* its connection references are exact on the way too.                     *)
(***************************************************************************)
IndexMirrorsBucket ==
    /\ ConnRefsExact
    /\ \A g \in Gateways : queue[g] = <<>> =>
          \A rid \in Rids : Has(slots[g], rid) <=> Present(rid)

Gone(r) ==
    /\ r \in used
    /\ r \notin regs
    /\ call[HomeOf[r]] = Idle \/ call[HomeOf[r]].reg # r

(***************************************************************************)
(* A registration that was deregistered, refused, or lost with its home    *)
(* gateway is in the end served by no gateway any more, although deletes   *)
(* get lost, a put that was reported failed may have landed, and a late    *)
(* heartbeat may write a key again after its delete.                       *)
(***************************************************************************)
GoneIsUnserved ==
    \A r \in Regs :
        <>Gone(r) => <>[](\A g \in Gateways, rid \in Range(RidsOf[r]) : ~Has(slots[g], rid))

(***************************************************************************)
(* docs/lifecycle.md says drift within a cluster is prevented by the hash  *)
(* gate: gateways that have handled their watches have the same schema     *)
(* under the same vN.                                                      *)
(***************************************************************************)
GatewaysAgree ==
    \A g, h \in Gateways : queue[g] = <<>> /\ queue[h] = <<>> =>
        \A k \in LiveKeys(slots[g]) \cap LiveKeys(slots[h]) :
            ~IsUnstable(k) => slots[g][k].spec = slots[h][k].spec

-----------------------------------------------------------------------------
(* A small instance for TLC.                                               *)

p1 == [kind |-> "proto", hash |-> "h1", caps |-> 0]
o1 == [kind |-> "openapi", hash |-> "h3", caps |-> 0]
MCSpecs == {p1, o1}
MCPatterns == {"ch"}
MCPatternsOf == [h \in {"h1", "h3"} |-> {}]

V(n, s, a) == [key |-> <<"a", n>>, spec |-> s, addr |-> a]

\* One registration of two services at one address.
MCRegs == {"A"}
MCRids == {"A1", "A2"}
MCRidsOf == [A |-> <<"A1", "A2">>]
MCHomeOf == [A |-> "g1"]
MCValueOf == [A1 |-> V(1, p1, "x"), A2 |-> V(2, p1, "x")]
=============================================================================
