---------------------------- MODULE ControlPlane ----------------------------
(***************************************************************************)
(* The control plane of a standalone gateway (gw/control.go): services     *)
(* register, heartbeat and deregister; a janitor evicts the ones that went *)
(* silent; operators retract the stable alias and deprecate services.      *)
(*                                                                         *)
(* Register holds cp.mu and g.mu from its first join to its last, and      *)
(* every other operation takes one of the two.  The model keeps Register's *)
(* loop as separate steps, one per binding, with the call that is under    *)
(* way in `call`; the others wait for call = Idle.  Only the clock and the *)
(* readers of `schema` (an atomic pointer) see the steps in between.       *)
(***************************************************************************)
EXTENDS Registry, Sequences, TLC

CONSTANTS
    Ids,        \* bound: registration ids newRegID hands out, each once
    Addrs,      \* addresses that services serve on
    Requests,   \* the binding lists of the Register calls that are made
    BootSpecs,  \* specs the embedding program adds with AddProto
    TTL,        \* heartbeat TTL, in clock ticks
    Boot,       \* the owner "" of replicas added with AddProto
    NoConn,     \* a registration that dialed nothing
    NoReg, Idle, NotBuilt

Binding == [key: Keys, spec: Specs]
Replica == [owner: Ids \cup {Boot}, addr: Addrs \cup {NoConn}]
Registration == [conn: Addrs \cup {NoConn}, age: 0..TTL + 1]
Call == [id: Ids, addr: Addrs, conn: Addrs \cup {NoConn}, todo: Seq(Binding)]

ASSUME ControlPlaneAssumption ==
    /\ TTL \in Nat
    /\ IsFiniteSet(Ids)
    /\ Requests \subseteq Seq(Binding)
    /\ BootSpecs \subseteq {s \in Specs : s.kind = "proto"}
    /\ Boot \notin Ids
    /\ NoConn \notin Addrs
    /\ NoSlot \notin SlotOf(Replica)
    /\ NoReg \notin Registration
    /\ Idle \notin Call

VARIABLES
    slots,          \* g.slots
    stableVN,       \* g.stableVN, 0 when unset
    deprecation,    \* g.deprecation, the reasons kept beside the slots
    rejectedJoins,  \* keys of g.rejectedJoins
    schema,         \* g.schema, the schema that is served
    regs,           \* cp.regs
    conns,          \* cp.conns: reference count per address, 0 when absent
    issued,         \* ids that newRegID has returned
    call,           \* the Register call that holds the mutexes
    stale           \* the janitor's list of registrations to evict

gwVars == <<slots, stableVN, deprecation, rejectedJoins, schema>>
cpVars == <<regs, conns, issued, call>>
vars == <<slots, stableVN, deprecation, rejectedJoins, schema,
          regs, conns, issued, call, stale>>

TypeOK ==
    /\ slots \in [Keys -> SlotOf(Replica) \cup {NoSlot}]
    /\ stableVN \in [Namespaces -> Versions]
    /\ deprecation \in [Keys -> Reasons \cup {NoReason}]
    /\ rejectedJoins \subseteq Keys
    /\ regs \in [Ids -> Registration \cup {NoReg}]
    /\ conns \in [Addrs -> Nat]
    /\ issued \subseteq Ids
    /\ call \in Call \cup {Idle}
    /\ stale \subseteq Ids

Init ==
    /\ slots = EmptyIndex
    /\ stableVN = [ns \in Namespaces |-> 0]
    /\ deprecation = [k \in Keys |-> NoReason]
    /\ rejectedJoins = {}
    /\ schema = NotBuilt
    /\ regs = [i \in Ids |-> NoReg]
    /\ conns = [a \in Addrs |-> 0]
    /\ issued = {}
    /\ call = Idle
    /\ stale = {}

-----------------------------------------------------------------------------
(***************************************************************************)
(* Schema assembly.  Before the first assembly a registration does not     *)
(* trigger one; a failed assembly leaves the schema that is served.        *)
(***************************************************************************)
Assembled(s, stable) == IF Buildable(s) THEN Render(s, stable) ELSE schema

AssembledIfServing(s, stable) ==
    IF schema # NotBuilt THEN Assembled(s, stable) ELSE schema

Handler ==
    /\ call = Idle
    /\ schema = NotBuilt
    /\ schema' = Assembled(slots, stableVN)
    /\ UNCHANGED <<slots, stableVN, deprecation, rejectedJoins, cpVars, stale>>

-----------------------------------------------------------------------------
(* The shared connection pool: cp.conns.                                   *)

Acquired(conn) == [a \in Addrs |-> IF a = conn THEN conns[a] + 1 ELSE conns[a]]

\* Mutation: the first release closes the connection.
ReleasedConnAtOnce(conn) == [a \in Addrs |-> IF a = conn THEN 0 ELSE conns[a]]

ReleasedConn(conn) ==
    [a \in Addrs |-> IF a = conn /\ conns[a] > 0 THEN conns[a] - 1 ELSE conns[a]]

-----------------------------------------------------------------------------
(* Register.                                                               *)

\* The checks Register makes on the whole request before it locks anything.
ValidRequest(bs) ==
    /\ bs # <<>>
    /\ \A i \in 1..Len(bs) : TierAllowed(bs[i].key)
    /\ \A i, j \in 1..Len(bs) : i # j => bs[i].key # bs[j].key

HasProto(bs) == \E i \in 1..Len(bs) : bs[i].spec.kind = "proto"

\* Locks, takes one reference on the address if any binding is proto.
RegisterStart(id, a, bs) ==
    LET conn == IF HasProto(bs) THEN a ELSE NoConn
    IN  /\ call = Idle
        /\ id \notin issued
        /\ ValidRequest(bs)
        /\ issued' = issued \cup {id}
        /\ conns' = Acquired(conn)
        /\ call' = [id |-> id, addr |-> a, conn |-> conn, todo |-> bs]
        /\ UNCHANGED <<gwVars, regs, stale>>

next == Head(call.todo)
CallReplica == [owner |-> call.id, addr |-> call.addr]
Joined == Join(slots, deprecation, next.key, next.spec, CallReplica)

\* Mutation: what is served from the same address goes too.
OwnedByAddr(id) ==
    LET a == IF call # Idle THEN call.addr ELSE regs[id].conn
    IN  {r \in Replica : r.owner = id \/ (r.owner # Boot /\ r.addr = a)}

OwnedBy(id) == {r \in Replica : r.owner = id}

\* Mutation: the schema is not rebuilt when a slot empties.
DropOwnerNoRebuild(id, conn, s, stable) ==
    /\ slots' = RemoveReplicas(s, OwnedBy(id))
    /\ schema' = schema
    /\ conns' = ReleasedConn(conn)

\* Drops what a registration owns, from slot index s, and its connection.
DropOwner(id, conn, s, stable) ==
    /\ slots' = RemoveReplicas(s, OwnedBy(id))
    /\ schema' = IF Released(s, OwnedBy(id)) # {}
                 THEN AssembledIfServing(RemoveReplicas(s, OwnedBy(id)), stable)
                 ELSE schema
    /\ conns' = ReleasedConn(conn)

InLoop == call # Idle /\ call.todo # <<>>

\* The binding meets its slot as registered: one more replica.
JoinExisting ==
    /\ InLoop
    /\ ~Rejected(slots, next.key, next.spec)
    /\ Existed(slots, next.key, next.spec)
    /\ slots' = Joined
    /\ call' = [call EXCEPT !.todo = Tail(@)]
    /\ UNCHANGED <<stableVN, deprecation, rejectedJoins, schema, regs, conns, issued, stale>>

\* The binding creates its slot, or swaps the unstable one.
JoinCreating ==
    /\ InLoop
    /\ ~Rejected(slots, next.key, next.spec)
    /\ ~Existed(slots, next.key, next.spec)
    /\ next.spec \notin BadSpecs
    /\ schema # NotBuilt => Buildable(Joined)
    /\ slots' = Joined
    /\ stableVN' = AdvanceStable(stableVN, next.key)
    /\ schema' = AssembledIfServing(Joined, stableVN')
    /\ call' = [call EXCEPT !.todo = Tail(@)]
    /\ UNCHANGED <<deprecation, rejectedJoins, regs, conns, issued, stale>>

\* Mutation: only the connection is given back.
RollbackConnOnly(s, stable, rejected) ==
    /\ slots' = s
    /\ schema' = schema
    /\ conns' = ReleasedConn(call.conn)
    /\ rejectedJoins' = rejected
    /\ call' = Idle
    /\ UNCHANGED <<deprecation, regs, issued, stale>>

\* rollback(): the bindings joined so far leave, the connection is released.
Rollback(s, stable, rejected) ==
    /\ DropOwner(call.id, call.conn, s, stable)
    /\ rejectedJoins' = rejected \ Released(s, OwnedBy(call.id))
    /\ call' = Idle
    /\ UNCHANGED <<deprecation, regs, issued, stale>>

\* registerSlotLocked refuses the binding.
JoinRejected ==
    /\ InLoop
    /\ Rejected(slots, next.key, next.spec)
    /\ UNCHANGED stableVN
    /\ Rollback(slots, stableVN,
                rejectedJoins \cup IF TierAllowed(next.key) /\ Locked(slots, next.key, next.spec)
                                   THEN {next.key} ELSE {})

\* The slot was taken, then the source did not validate: the slot is deleted.
JoinInvalid ==
    /\ InLoop
    /\ ~Rejected(slots, next.key, next.spec)
    /\ ~Existed(slots, next.key, next.spec)
    /\ next.spec \in BadSpecs
    /\ UNCHANGED stableVN
    /\ Rollback([slots EXCEPT ![next.key] = NoSlot], stableVN, rejectedJoins)

\* The slot was created, then no schema could be assembled with it.
JoinUnbuildable ==
    /\ InLoop
    /\ ~Rejected(slots, next.key, next.spec)
    /\ ~Existed(slots, next.key, next.spec)
    /\ next.spec \notin BadSpecs
    /\ schema # NotBuilt /\ ~Buildable(Joined)
    /\ stableVN' = AdvanceStable(stableVN, next.key)
    /\ Rollback(Joined, stableVN', rejectedJoins)

RegisterCommit ==
    /\ call # Idle
    /\ call.todo = <<>>
    /\ regs' = [regs EXCEPT ![call.id] = [conn |-> call.conn, age |-> 0]]
    /\ call' = Idle
    /\ UNCHANGED <<gwVars, conns, issued, stale>>

Register ==
    \/ \E id \in Ids, a \in Addrs, bs \in Requests : RegisterStart(id, a, bs)
    \/ JoinExisting \/ JoinCreating
    \/ JoinRejected \/ JoinInvalid \/ JoinUnbuildable
    \/ RegisterCommit

\* A boot-time service of the embedding program: no registration owns it, and
\* a failed join or assembly is returned to the caller without a rollback.
AddProto(k, spec) ==
    /\ call = Idle
    /\ ~Rejected(slots, k, spec)
    /\ LET created == ~Existed(slots, k, spec)
           joined == Join(slots, deprecation, k, spec, [owner |-> Boot, addr |-> NoConn])
       IN  /\ slots' = joined
           /\ stableVN' = IF created THEN AdvanceStable(stableVN, k) ELSE stableVN
           /\ schema' = IF created THEN AssembledIfServing(joined, stableVN') ELSE schema
    /\ UNCHANGED <<deprecation, rejectedJoins, cpVars, stale>>

AddProtoLocked(k, spec) ==
    /\ call = Idle
    /\ TierAllowed(k) /\ Locked(slots, k, spec)
    /\ rejectedJoins' = rejectedJoins \cup {k}
    /\ UNCHANGED <<slots, stableVN, deprecation, schema, cpVars, stale>>

-----------------------------------------------------------------------------
(* Heartbeats, deregistration and the janitor.                             *)

Heartbeat(id) ==
    /\ call = Idle
    /\ regs[id] # NoReg
    /\ regs' = [regs EXCEPT ![id].age = 0]
    /\ UNCHANGED <<gwVars, conns, issued, call, stale>>

\* The handler, shared by the Deregister RPC and the janitor.
DeregisterBody(id) ==
    /\ call = Idle
    /\ regs[id] # NoReg
    /\ regs' = [regs EXCEPT ![id] = NoReg]
    /\ DropOwner(id, regs[id].conn, slots, stableVN)
    /\ rejectedJoins' = rejectedJoins \ Released(slots, OwnedBy(id))
    /\ UNCHANGED <<stableVN, deprecation, issued, call>>

Deregister(id) == DeregisterBody(id) /\ UNCHANGED stale

\* A clock tick: every registration's last heartbeat is one tick older.
Tick ==
    /\ \E id \in Ids : regs[id] # NoReg /\ regs[id].age <= TTL
    /\ regs' = [id \in Ids |-> IF regs[id] # NoReg /\ regs[id].age <= TTL
                               THEN [regs[id] EXCEPT !.age = @ + 1] ELSE regs[id]]
    /\ UNCHANGED <<gwVars, conns, issued, call, stale>>

\* Mutation: off by one, so that no age the clock reaches counts as stale.
JanitorScanLate ==
    /\ call = Idle
    /\ stale = {}
    /\ stale' = {id \in Ids : regs[id] # NoReg /\ regs[id].age > TTL + 1}
    /\ UNCHANGED <<gwVars, cpVars>>

\* One pass of the janitor: list what is stale, unlock, then evict one by one.
JanitorScan ==
    /\ call = Idle
    /\ stale = {}
    /\ stale' = {id \in Ids : regs[id] # NoReg /\ regs[id].age > TTL}
    /\ UNCHANGED <<gwVars, cpVars>>

JanitorEvict(id) ==
    /\ id \in stale
    /\ stale' = stale \ {id}
    /\ \/ DeregisterBody(id)
       \/ call = Idle /\ regs[id] = NoReg /\ UNCHANGED <<gwVars, cpVars>>

-----------------------------------------------------------------------------
(* Operator RPCs.                                                          *)

RetractStable(ns, target) ==
    /\ call = Idle
    /\ stableVN[ns] # 0
    /\ target \in 1..stableVN[ns] - 1
    /\ slots[<<ns, target>>] # NoSlot
    /\ stableVN' = [stableVN EXCEPT ![ns] = target]
    /\ schema' = Assembled(slots, stableVN')
    /\ UNCHANGED <<slots, deprecation, rejectedJoins, cpVars, stale>>

\* The reason is recorded whether or not the slot exists.
SetDeprecation(k, reason) ==
    /\ call = Idle
    /\ deprecation' = [deprecation EXCEPT ![k] = reason]
    /\ slots' = IF slots[k] = NoSlot THEN slots ELSE [slots EXCEPT ![k].depr = reason]
    /\ schema' = IF slots[k] = NoSlot THEN schema ELSE Assembled(slots', stableVN)
    /\ UNCHANGED <<stableVN, rejectedJoins, cpVars, stale>>

Deprecate(k, reason) == SetDeprecation(k, reason)
Undeprecate(k) == SetDeprecation(k, NoReason)

-----------------------------------------------------------------------------
Next ==
    \/ Handler
    \/ Register
    \/ \E k \in Keys, spec \in BootSpecs : AddProto(k, spec) \/ AddProtoLocked(k, spec)
    \/ \E id \in Ids : Heartbeat(id) \/ Deregister(id) \/ JanitorEvict(id)
    \/ Tick
    \/ JanitorScan
    \/ \E ns \in Namespaces, target \in 1..MaxVN : RetractStable(ns, target)
    \/ \E k \in Keys : Undeprecate(k) \/ \E reason \in Reasons : Deprecate(k, reason)

Spec == Init /\ [][Next]_vars

(***************************************************************************)
(* The clock runs, a Register call that holds the mutexes runs to its end, *)
(* and the janitor goroutine's ticker keeps firing.                        *)
(***************************************************************************)
Fairness ==
    /\ WF_vars(Tick)
    /\ WF_vars(JoinExisting \/ JoinCreating \/ JoinRejected \/ JoinInvalid
               \/ JoinUnbuildable \/ RegisterCommit)
    /\ WF_vars(JanitorScan)
    /\ \A id \in Ids : WF_vars(JanitorEvict(id))

FairSpec == Spec /\ Fairness

-----------------------------------------------------------------------------
(* Properties.                                                             *)

Owner(id) == regs[id] # NoReg \/ (call # Idle /\ call.id = id)

(***************************************************************************)
(* Every slot is backed by replicas, and every replica by a registration   *)
(* that is alive (or being made), or by the boot-time owner: rollback,     *)
(* Deregister and the janitor leave nothing behind that nobody can remove. *)
(***************************************************************************)
SlotsBacked ==
    \A k \in Keys : slots[k] # NoSlot =>
        /\ slots[k].replicas # {}
        /\ \A r \in slots[k].replicas : r.owner # Boot => Owner(r.owner)

Holders(a) ==
    {id \in Ids : \/ regs[id] # NoReg /\ regs[id].conn = a
                  \/ call # Idle /\ call.id = id /\ call.conn = a}

(***************************************************************************)
(* cp.conns counts exactly the registrations that dialed an address, so    *)
(* releaseConnLocked closes a connection with its last user: no leak after *)
(* a rollback or an eviction, no close while a user is left.               *)
(***************************************************************************)
ConnRefsExact == \A a \in Addrs : conns[a] = Cardinality(Holders(a))

(***************************************************************************)
(* A proto replica that a registration added can be dispatched to: the     *)
(* shared connection it was given has not been closed under it.            *)
(***************************************************************************)
ReplicaConnOpen ==
    \A k \in LiveKeys(slots) : slots[k].spec.kind = "proto" =>
        \A r \in slots[k].replicas : r.owner # Boot => conns[r.addr] > 0

(***************************************************************************)
(* No channel pattern is claimed by two slots                              *)
(* (checkCrossSlotBindingsLocked), whatever was swapped or rolled back.    *)
(***************************************************************************)
ChannelClaimsDisjoint ==
    \A k, o \in LiveKeys(slots) :
        k # o => Channels(slots[k].spec) \cap Channels(slots[o].spec) = {}

(***************************************************************************)
(* The rejected-join summary shown to operators is only kept for a slot    *)
(* that still exists (releaseSlotLocked clears it).                        *)
(***************************************************************************)
RejectionsOfLiveSlots == rejectedJoins \subseteq LiveKeys(slots)

(***************************************************************************)
(* While no Register is under way, the schema that is served is the one    *)
(* the slot index renders to: no operation forgets its rebuild.            *)
(***************************************************************************)
ServedSchemaFresh ==
    call = Idle /\ schema # NotBuilt => schema = Render(slots, stableVN)

(***************************************************************************)
(* A slot carries the deprecation the operator last recorded for its key,  *)
(* also when the slot was released and registered again in between         *)
(* (setDeprecationLocked and the stamp in registerSlotLocked).             *)
(***************************************************************************)
DeprecationStamped ==
    \A k \in LiveKeys(slots) : slots[k].depr = deprecation[k]

(***************************************************************************)
(* vN is locked once registered: while a vN slot lives no step changes its *)
(* kind, hash or caps.                                                     *)
(***************************************************************************)
VersionLocked ==
    [][\A k \in Keys : ~IsUnstable(k) /\ slots[k] # NoSlot /\ slots'[k] # NoSlot
          => slots'[k].spec = slots[k].spec]_vars

(***************************************************************************)
(* A service added at boot under a vN is never evicted, by no rollback,    *)
(* deregistration or janitor pass of the registrations that share its slot *)
(* (owner "" in AddProto).                                                 *)
(***************************************************************************)
BootServiceStays ==
    [][\A k \in Keys : ~IsUnstable(k) /\ slots[k] # NoSlot
          => \A r \in slots[k].replicas : r.owner = Boot
                => slots'[k] # NoSlot /\ r \in slots'[k].replicas]_vars

(***************************************************************************)
(* Only RetractStable lowers a namespace's stable alias, and only to a     *)
(* version that is registered: no release, swap or rollback moves it back. *)
(***************************************************************************)
StableLoweredToLive ==
    [][\A ns \in Namespaces : stableVN'[ns] < stableVN[ns]
          => slots[<<ns, stableVN'[ns]>>] # NoSlot /\ slots' = slots]_vars

ServedKeys(id) == {k \in LiveKeys(slots) : \E r \in slots[k].replicas : r.owner = id}

Registrations == INSTANCE Membership WITH
    Members <- Ids,
    Bundles <- {{bs[i].key : i \in 1..Len(bs)} : bs \in Requests},
    Swappable <- {k \in Keys : IsUnstable(k)},
    live <- [id \in Ids |-> IF regs[id] = NoReg THEN {} ELSE ServedKeys(id)]

(***************************************************************************)
(* Registrations are all or nothing: seen through the registrations cp.regs*)
(* knows, Register joins all its bindings in one step or none, Deregister  *)
(* and the janitor remove all in one step, and nobody else's rollback,     *)
(* release or eviction takes a vN key from a registration.                 *)
(***************************************************************************)
AllOrNothing == Registrations!Spec

(***************************************************************************)
(* A registration that stops sending heartbeats is evicted in the end: one *)
(* that stays for ever is heard from again and again.                      *)
(***************************************************************************)
SilentEvicted ==
    \A id \in Ids :
        <>[](regs[id] # NoReg) => []<>(regs[id] # NoReg /\ regs[id].age = 0)

(***************************************************************************)
(* control.go says the janitor evicts registrations whose last heartbeat   *)
(* is older than the TTL: none that has just sent one.                     *)
(***************************************************************************)
JanitorEvictsOnlyStale ==
    [][\A id \in stale \ stale' : regs[id] # NoReg => regs[id].age > TTL]_vars

(***************************************************************************)
(* slot.go says a rejected unstable swap leaves the prior slot intact: a   *)
(* binding that makes Register fail does not remove the slot that other    *)
(* registrations keep under its key.                                       *)
(***************************************************************************)
RejectedSwapKeepsPrior ==
    [][/\ InLoop
       /\ call' = Idle
       /\ slots[next.key] # NoSlot
       /\ \A r \in slots[next.key].replicas : r.owner # call.id
       => slots'[next.key] = slots[next.key]]_vars

-----------------------------------------------------------------------------
(* A small instance for TLC.                                               *)

p1 == [kind |-> "proto", hash |-> "h1", caps |-> 0]    \* declares no channel
p2 == [kind |-> "proto", hash |-> "h2", caps |-> 0]    \* declares channel "ch"
p2c == [kind |-> "proto", hash |-> "h2", caps |-> 1]   \* the same file, other caps
o1 == [kind |-> "openapi", hash |-> "h3", caps |-> 0]
bad == [kind |-> "openapi", hash |-> "h4", caps |-> 0] \* loads, does not validate
unb == [kind |-> "graphql", hash |-> "h5", caps |-> 0] \* cannot be rendered

MCSpecs == {p1, p2, p2c, o1, bad, unb}
\* Ids and addresses are interchangeable; no property tells two of them apart.
MCSymmetry == Permutations(Ids) \cup Permutations(Addrs)

MCPatterns == {"ch"}
MCPatternsOf == [h \in {"h1", "h2", "h3", "h4", "h5"} |-> IF h = "h2" THEN {"ch"} ELSE {}]

MCUnbuildable == {unb}
MCBootSpecs == {p1}
MCBadSpecs == {bad}

B(n, s) == [key |-> <<"a", n>>, spec |-> s]

\* vN registrations, single and multi-binding, with every way to fail.
RequestsVN == {<<B(1, p1)>>, <<B(1, p2)>>, <<B(1, o1), B(2, p2)>>, <<B(2, p2c)>>,
               <<B(1, o1), B(2, unb)>>, <<B(1, p1), B(2, bad)>>}
=============================================================================
