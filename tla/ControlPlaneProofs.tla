------------------------- MODULE ControlPlaneProofs -------------------------
(***************************************************************************)
(* Proofs about ControlPlane, and about the services of ControlClient that *)
(* call it, for every value of their constants.                            *)
(***************************************************************************)
EXTENDS ControlClient, FiniteSetTheorems, TLAPS

(* Slot index entries, and what the operators of Registry do to them.      *)

Entry == SlotOf(Replica) \cup {NoSlot}

\* A join keeps the slot index well typed.
LEMMA JoinType ==
    ASSUME NEW s \in [Keys -> Entry], NEW d \in [Keys -> Reasons \cup {NoReason}],
           NEW k \in Keys, NEW spec \in Specs, NEW r \in Replica
    PROVE  Join(s, d, k, spec, r) \in [Keys -> Entry]
<1>1. JoinedSlot(s[k], d[k], spec, r) \in Entry
  <2>1. CASE s[k] # NoSlot /\ s[k].spec = spec
    <3>1. s[k] \in SlotOf(Replica)
      BY <2>1 DEF Entry
    <3>2. [s[k] EXCEPT !.replicas = @ \cup {r}] \in SlotOf(Replica)
      BY <3>1 DEF SlotOf
    <3> QED BY <2>1, <3>2 DEF JoinedSlot, Entry
  <2>2. CASE ~(s[k] # NoSlot /\ s[k].spec = spec)
    <3>1. (IF s[k] = NoSlot THEN d[k] ELSE NoReason) \in Reasons \cup {NoReason}
      OBVIOUS
    <3>2. {r} \in SUBSET Replica
      OBVIOUS
    <3> QED BY <2>2, <3>1, <3>2 DEF JoinedSlot, Entry, SlotOf
  <2> QED BY <2>1, <2>2
<1> QED BY <1>1 DEF Join

\* So does a removal of replicas.
LEMMA RemoveType ==
    ASSUME NEW s \in [Keys -> Entry], NEW R
    PROVE  RemoveReplicas(s, R) \in [Keys -> Entry]
<1>1. ASSUME NEW k \in Keys PROVE WithoutReplicas(s[k], R) \in Entry
  <2>1. CASE s[k] = NoSlot
    BY <2>1 DEF WithoutReplicas, Entry
  <2>2. CASE s[k] # NoSlot
    <3>1. s[k] \in SlotOf(Replica)
      BY <2>2 DEF Entry
    <3>2. [s[k] EXCEPT !.replicas = @ \ R] \in SlotOf(Replica)
      BY <3>1 DEF SlotOf
    <3> QED BY <3>1, <3>2 DEF WithoutReplicas, Entry
  <2> QED BY <2>1, <2>2
<1> QED BY <1>1 DEF RemoveReplicas

\* The alias stays within the versions there are.
LEMMA AdvanceType ==
    ASSUME NEW st \in [Namespaces -> Versions], NEW k \in Keys
    PROVE  AdvanceStable(st, k) \in [Namespaces -> Versions]
BY DEF AdvanceStable, Keys

\* Reference counts stay natural numbers.
LEMMA ConnsType ==
    ASSUME conns \in [Addrs -> Nat], NEW c
    PROVE  Acquired(c) \in [Addrs -> Nat] /\ ReleasedConn(c) \in [Addrs -> Nat]
BY DEF Acquired, ReleasedConn

\* The binding a Register call is about to join.
LEMMA CallFacts ==
    ASSUME TypeOK, InLoop
    PROVE  /\ call \in Call
           /\ call.id \in Ids
           /\ next \in Binding
           /\ next.key \in Keys /\ next.spec \in Specs
           /\ CallReplica \in Replica
           /\ [call EXCEPT !.todo = Tail(@)] \in Call
<1>1. call \in Call
  BY DEF TypeOK, InLoop
<1>2. call.todo \in Seq(Binding) /\ call.todo # <<>>
  BY <1>1 DEF Call, InLoop
<1>3. next \in Binding /\ Tail(call.todo) \in Seq(Binding)
  BY <1>2 DEF next
<1>4. next.key \in Keys /\ next.spec \in Specs
  BY <1>3 DEF Binding
<1>5. CallReplica \in Replica
  BY <1>1 DEF CallReplica, Replica, Call
<1>6. [call EXCEPT !.todo = Tail(@)] \in Call
  BY <1>1, <1>3 DEF Call
<1> QED BY <1>1, <1>3, <1>4, <1>5, <1>6 DEF Call

\* So the slot index after the join of the next binding is well typed.
LEMMA JoinedType ==
    ASSUME TypeOK, InLoop
    PROVE  Joined \in [Keys -> Entry]
BY CallFacts, JoinType DEF Joined, TypeOK, Entry

\* Removing an owner's replicas and connection keeps the types.
LEMMA RollbackType ==
    ASSUME TypeOK, InLoop, NEW s \in [Keys -> Entry], NEW st,
           NEW rj \in SUBSET Keys, Rollback(s, st, rj),
           stableVN' \in [Namespaces -> Versions]
    PROVE  TypeOK'
<1>1. slots' \in [Keys -> Entry]
  BY RemoveType DEF Rollback, DropOwner
<1>2. conns' \in [Addrs -> Nat]
  BY ConnsType DEF Rollback, DropOwner, TypeOK
<1>3. rejectedJoins' \subseteq Keys
  BY DEF Rollback
<1>4. /\ call' = Idle
      /\ UNCHANGED <<deprecation, regs, issued, stale>>
  BY DEF Rollback
<1> QED BY <1>1, <1>2, <1>3, <1>4 DEF TypeOK, Entry

-----------------------------------------------------------------------------
\* Every operation keeps the types.
LEMMA TypeStep ==
    ASSUME TypeOK, [Next]_vars
    PROVE  TypeOK'
<1>1. CASE Handler
  BY <1>1 DEF Handler, TypeOK, cpVars
<1>2. ASSUME NEW id \in Ids, NEW a \in Addrs, NEW bs \in Requests,
             RegisterStart(id, a, bs)
      PROVE  TypeOK'
  <2>1. call' \in Call
    BY <1>2, ControlPlaneAssumption DEF RegisterStart, Call
  <2>2. conns' \in [Addrs -> Nat]
    BY <1>2, ConnsType DEF RegisterStart, TypeOK
  <2> QED BY <1>2, <2>1, <2>2 DEF RegisterStart, TypeOK, gwVars
<1>3. CASE JoinExisting
  BY <1>3, CallFacts, JoinedType DEF JoinExisting, TypeOK, Entry
<1>4. CASE JoinCreating
  <2>1. InLoop
    BY <1>4 DEF JoinCreating
  <2>2. stableVN' \in [Namespaces -> Versions]
    BY <1>4, <2>1, CallFacts, AdvanceType DEF JoinCreating, TypeOK
  <2> QED BY <1>4, <2>1, <2>2, CallFacts, JoinedType DEF JoinCreating, TypeOK, Entry
<1>5. CASE JoinRejected
  <2>1. InLoop /\ UNCHANGED stableVN
    BY <1>5 DEF JoinRejected
  <2>2. PICK rj \in SUBSET Keys : Rollback(slots, stableVN, rj)
    BY <1>5, <2>1, CallFacts DEF JoinRejected, TypeOK
  <2> QED BY <2>1, <2>2, RollbackType DEF TypeOK, Entry
<1>6. CASE JoinInvalid
  <2>1. InLoop /\ UNCHANGED stableVN
    BY <1>6 DEF JoinInvalid
  <2>2. [slots EXCEPT ![next.key] = NoSlot] \in [Keys -> Entry]
    BY <2>1, CallFacts DEF TypeOK, Entry
  <2>3. Rollback([slots EXCEPT ![next.key] = NoSlot], stableVN, rejectedJoins)
    BY <1>6 DEF JoinInvalid
  <2> QED BY <2>1, <2>2, <2>3, RollbackType DEF TypeOK
<1>7. CASE JoinUnbuildable
  <2>1. InLoop
    BY <1>7 DEF JoinUnbuildable
  <2>2. stableVN' \in [Namespaces -> Versions]
    BY <1>7, <2>1, CallFacts, AdvanceType DEF JoinUnbuildable, TypeOK
  <2>3. Rollback(Joined, stableVN', rejectedJoins)
    BY <1>7 DEF JoinUnbuildable
  <2> QED BY <2>1, <2>2, <2>3, JoinedType, RollbackType DEF TypeOK
<1>8. CASE RegisterCommit
  <2>1. call.id \in Ids /\ call.conn \in Addrs \cup {NoConn}
    BY <1>8 DEF RegisterCommit, TypeOK, Call
  <2>2. [conn |-> call.conn, age |-> 0] \in Registration
    BY <2>1, ControlPlaneAssumption DEF Registration
  <2> QED BY <1>8, <2>1, <2>2 DEF RegisterCommit, TypeOK, gwVars
<1>9. ASSUME NEW k \in Keys, NEW spec \in BootSpecs, AddProto(k, spec)
      PROVE  TypeOK'
  <2> DEFINE r == [owner |-> Boot, addr |-> NoConn]
  <2>1. r \in Replica /\ spec \in Specs
    BY ControlPlaneAssumption DEF Replica
  <2>2. Join(slots, deprecation, k, spec, r) \in [Keys -> Entry]
    BY <2>1, JoinType DEF TypeOK, Entry
  <2>3. AdvanceStable(stableVN, k) \in [Namespaces -> Versions]
    BY AdvanceType DEF TypeOK
  <2> QED BY <1>9, <2>2, <2>3 DEF AddProto, TypeOK, cpVars, Entry
<1>10. ASSUME NEW k \in Keys, NEW spec \in BootSpecs, AddProtoLocked(k, spec)
       PROVE  TypeOK'
  BY <1>10 DEF AddProtoLocked, TypeOK, cpVars
<1>11. ASSUME NEW id \in Ids, Heartbeat(id) PROVE TypeOK'
  <2>1. [regs[id] EXCEPT !.age = 0] \in Registration
    BY <1>11, ControlPlaneAssumption DEF Heartbeat, TypeOK, Registration
  <2> QED BY <1>11, <2>1 DEF Heartbeat, TypeOK, gwVars
<1>12. ASSUME NEW id \in Ids, DeregisterBody(id), stale' \subseteq Ids
       PROVE  TypeOK'
  <2>1. slots' \in [Keys -> Entry]
    BY <1>12, RemoveType DEF DeregisterBody, DropOwner, TypeOK, Entry
  <2>2. conns' \in [Addrs -> Nat]
    BY <1>12, ConnsType DEF DeregisterBody, DropOwner, TypeOK
  <2> QED BY <1>12, <2>1, <2>2 DEF DeregisterBody, TypeOK, Entry
<1>13. ASSUME NEW id \in Ids, Deregister(id) PROVE TypeOK'
  BY <1>12, <1>13 DEF Deregister, TypeOK
<1>14. ASSUME NEW id \in Ids, JanitorEvict(id) PROVE TypeOK'
  <2>1. stale' \subseteq Ids
    BY <1>14 DEF JanitorEvict, TypeOK
  <2>2. CASE DeregisterBody(id)
    BY <1>12, <2>1, <2>2
  <2>3. CASE UNCHANGED <<gwVars, cpVars>>
    BY <2>1, <2>3 DEF TypeOK, gwVars, cpVars
  <2> QED BY <1>14, <2>2, <2>3 DEF JanitorEvict
<1>15. CASE Tick
  <2>1. ASSUME NEW id \in Ids, regs[id] # NoReg, regs[id].age <= TTL
        PROVE  [regs[id] EXCEPT !.age = @ + 1] \in Registration
    BY <2>1, ControlPlaneAssumption DEF TypeOK, Registration
  <2> QED BY <1>15, <2>1 DEF Tick, TypeOK, gwVars
<1>16. CASE JanitorScan
  BY <1>16 DEF JanitorScan, TypeOK, gwVars, cpVars
<1>17. ASSUME NEW ns \in Namespaces, NEW target \in 1..MaxVN, RetractStable(ns, target)
       PROVE  TypeOK'
  <2>1. target \in Versions
    BY RegistryAssumption DEF Versions
  <2> QED BY <1>17, <2>1 DEF RetractStable, TypeOK, cpVars
<1>18. ASSUME NEW k \in Keys, NEW reason \in Reasons \cup {NoReason},
              SetDeprecation(k, reason)
       PROVE  TypeOK'
  <2>1. slots[k] # NoSlot => [slots[k] EXCEPT !.depr = reason] \in SlotOf(Replica)
    BY DEF TypeOK, SlotOf
  <2>2. slots' \in [Keys -> SlotOf(Replica) \cup {NoSlot}]
    BY <1>18, <2>1 DEF SetDeprecation, TypeOK
  <2> QED BY <1>18, <2>2 DEF SetDeprecation, TypeOK, cpVars
<1>19. CASE UNCHANGED vars
  BY <1>19 DEF vars, TypeOK
<1> QED
  BY <1>1, <1>2, <1>3, <1>4, <1>5, <1>6, <1>7, <1>8, <1>9, <1>10, <1>11, <1>13,
     <1>14, <1>15, <1>16, <1>17, <1>18, <1>19
     DEF Next, Register, Deprecate, Undeprecate

(***************************************************************************)
(* Every variable of the control plane keeps its type, whatever operations *)
(* of control.go run in whatever order: the state the proofs below reason  *)
(* about.                                                                  *)
(***************************************************************************)
THEOREM TypeCorrect == Spec => []TypeOK
<1>1. Init => TypeOK
  <2> SUFFICES ASSUME Init PROVE TypeOK
    OBVIOUS
  <2>1. slots \in [Keys -> SlotOf(Replica) \cup {NoSlot}]
    BY DEF Init, EmptyIndex
  <2>2. stableVN \in [Namespaces -> Versions]
    BY RegistryAssumption DEF Init, Versions
  <2> QED BY <2>1, <2>2 DEF Init, TypeOK
<1>2. TypeOK /\ [Next]_vars => TypeOK' BY TypeStep
<1> QED BY <1>1, <1>2, PTL DEF Spec

-----------------------------------------------------------------------------
(* Slots are backed by registrations that are alive.                       *)

Owners == {id \in Ids : Owner(id)}

\* SlotsBacked, of slot index s and owners O.
Backed(s, O) ==
    \A k \in Keys : s[k] # NoSlot =>
        s[k].replicas # {} /\ \A r \in s[k].replicas : r.owner # Boot => r.owner \in O

\* SlotsBacked says Backed of the current state.
LEMMA BackedIff ==
    ASSUME TypeOK
    PROVE  SlotsBacked <=> Backed(slots, Owners)
<1>1. ASSUME NEW k \in Keys, slots[k] # NoSlot, NEW r \in slots[k].replicas, r.owner # Boot
      PROVE  r.owner \in Ids
  <2>1. slots[k].replicas \subseteq Replica BY <1>1 DEF TypeOK, SlotOf
  <2> QED BY <1>1, <2>1 DEF Replica
<1> QED BY <1>1 DEF SlotsBacked, Backed, Owners

\* A join by a live owner, or by the boot owner.
LEMMA JoinBacked ==
    ASSUME NEW s \in [Keys -> Entry], NEW d, NEW k \in Keys, NEW spec, NEW r, NEW O,
           Backed(s, O), r.owner # Boot => r.owner \in O
    PROVE  Backed(Join(s, d, k, spec, r), O)
<1> DEFINE t == Join(s, d, k, spec, r)
<1>1. \A o \in Keys : o # k => t[o] = s[o] BY DEF Join
<1>2. t[k] = JoinedSlot(s[k], d[k], spec, r) BY DEF Join
<1>3. JoinedSlot(s[k], d[k], spec, r).replicas = {r}
      \/ (s[k] # NoSlot /\ JoinedSlot(s[k], d[k], spec, r).replicas = s[k].replicas \cup {r})
  <2>1. CASE s[k] # NoSlot /\ s[k].spec = spec
    <3>1. s[k] \in SlotOf(Replica) BY <2>1 DEF Entry
    <3>2. [s[k] EXCEPT !.replicas = @ \cup {r}].replicas = s[k].replicas \cup {r}
      BY <3>1 DEF SlotOf
    <3> QED BY <2>1, <3>2 DEF JoinedSlot
  <2>2. CASE ~(s[k] # NoSlot /\ s[k].spec = spec)
    BY <2>2 DEF JoinedSlot
  <2> QED BY <2>1, <2>2
<1>4. t[k].replicas # {} /\ \A q \in t[k].replicas : q.owner # Boot => q.owner \in O
  BY <1>2, <1>3 DEF Backed
<1> QED BY <1>1, <1>4 DEF Backed

\* A registration that leaves takes all its replicas with it.
LEMMA RemoveBacked ==
    ASSUME NEW s \in [Keys -> Entry], NEW id \in Ids, NEW O, Backed(s, O)
    PROVE  Backed(RemoveReplicas(s, OwnedBy(id)), O \ {id})
<1> SUFFICES ASSUME NEW k \in Keys, WithoutReplicas(s[k], OwnedBy(id)) # NoSlot
             PROVE  /\ WithoutReplicas(s[k], OwnedBy(id)).replicas # {}
                    /\ \A r \in WithoutReplicas(s[k], OwnedBy(id)).replicas :
                          r.owner # Boot => r.owner \in O \ {id}
  BY DEF Backed, RemoveReplicas
<1>1. s[k] # NoSlot /\ s[k] \in SlotOf(Replica)
  BY DEF WithoutReplicas, Entry
<1>2. s[k].replicas # {} /\ s[k].replicas \subseteq Replica
  BY <1>1 DEF Backed, SlotOf
<1>3. \A r \in s[k].replicas : r.owner = id <=> r \in OwnedBy(id)
  BY <1>2 DEF OwnedBy
<1>4. WithoutReplicas(s[k], OwnedBy(id)).replicas = s[k].replicas \ OwnedBy(id)
  <2>1. [s[k] EXCEPT !.replicas = @ \ OwnedBy(id)].replicas = s[k].replicas \ OwnedBy(id)
    BY <1>1 DEF SlotOf
  <2> QED BY <1>1, <2>1 DEF WithoutReplicas
<1>5. s[k].replicas \ OwnedBy(id) # {}
  BY <1>1, <1>2 DEF WithoutReplicas
<1> QED BY <1>1, <1>3, <1>4, <1>5 DEF Backed

\* More owners back what fewer do.
LEMMA BackedMore ==
    ASSUME NEW s, NEW O, NEW P, O \subseteq P, Backed(s, O)
    PROVE  Backed(s, P)
BY DEF Backed

\* While Register runs its call owns replicas too; once it is over only regs do.
LEMMA OwnersOf ==
    Owners = {id \in Ids : regs[id] # NoReg} \cup {id \in Ids : call # Idle /\ call.id = id}
BY DEF Owners, Owner

\* rollback() leaves nothing of the call behind.
LEMMA RollbackBacked ==
    ASSUME TypeOK, TypeOK', InLoop, NEW s \in [Keys -> Entry], NEW st, NEW rj,
           Rollback(s, st, rj), Backed(s, Owners)
    PROVE  SlotsBacked'
<1>1. call.id \in Ids BY CallFacts
<1>2. slots' = RemoveReplicas(s, OwnedBy(call.id)) /\ call' = Idle /\ regs' = regs
  BY DEF Rollback, DropOwner
<1>3. Backed(slots', Owners \ {call.id}) BY <1>1, <1>2, RemoveBacked
<1>4. Owners \ {call.id} \subseteq Owners'
  BY <1>2 DEF Owners, Owner
<1>5. Backed(slots', Owners') BY <1>3, <1>4, BackedMore
<1>6. (SlotsBacked <=> Backed(slots, Owners))'
  BY BackedIff, PTL
<1> QED BY <1>5, <1>6

\* The slots stay as they are, and no owner is lost.
LEMMA SameSlotsBacked ==
    ASSUME TypeOK, TypeOK', SlotsBacked, slots' = slots, Owners \subseteq Owners'
    PROVE  SlotsBacked'
<1>1. Backed(slots', Owners') BY BackedIff, BackedMore
<1>2. (SlotsBacked <=> Backed(slots, Owners))' BY BackedIff, PTL
<1> QED BY <1>1, <1>2

\* One step keeps the slots backed.
LEMMA BackedStep == TypeOK /\ TypeOK' /\ SlotsBacked /\ [Next]_vars => SlotsBacked'
<1> SUFFICES ASSUME TypeOK, TypeOK', SlotsBacked, [Next]_vars PROVE SlotsBacked'
  OBVIOUS
<1> USE DEF gwVars, cpVars
<1>a. Backed(slots, Owners) /\ slots \in [Keys -> Entry]
  BY BackedIff DEF TypeOK, Entry
<1>b. (SlotsBacked <=> Backed(slots, Owners))'
  BY BackedIff, PTL
<1>1. CASE slots' = slots /\ regs' = regs /\ call' = call
  BY <1>1, SameSlotsBacked DEF Owners, Owner
<1>2. ASSUME NEW id \in Ids, NEW a \in Addrs, NEW bs \in Requests,
             RegisterStart(id, a, bs)
      PROVE  SlotsBacked'
  BY <1>2, SameSlotsBacked DEF RegisterStart, Owners, Owner
<1>3. CASE JoinExisting \/ JoinCreating
  <2>1. InLoop /\ slots' = Joined /\ call' = [call EXCEPT !.todo = Tail(@)] /\ regs' = regs
    BY <1>3 DEF JoinExisting, JoinCreating
  <2>2. call' # Idle /\ call'.id = call.id
    BY <2>1, CallFacts, ControlPlaneAssumption DEF Call
  <2>3. Owners' = Owners BY <2>1, <2>2 DEF Owners, Owner, InLoop
  <2>4. CallReplica.owner \in Owners
    BY <2>1, CallFacts DEF CallReplica, Owners, Owner, InLoop
  <2>5. Backed(Joined, Owners)
    BY <1>a, <2>1, <2>4, CallFacts, JoinBacked DEF Joined
  <2> QED BY <1>b, <2>1, <2>3, <2>5
<1>4. CASE JoinRejected
  <2>1. PICK rj : InLoop /\ Rollback(slots, stableVN, rj)
    BY <1>4 DEF JoinRejected
  <2> QED BY <1>a, <2>1, RollbackBacked
<1>5. CASE JoinInvalid
  <2> DEFINE s == [slots EXCEPT ![next.key] = NoSlot]
  <2>1. InLoop /\ Rollback(s, stableVN, rejectedJoins)
    BY <1>5 DEF JoinInvalid
  <2>2. s \in [Keys -> Entry] /\ Backed(s, Owners)
    BY <1>a, <2>1, CallFacts DEF Backed, Entry
  <2> QED BY <2>1, <2>2, RollbackBacked
<1>6. CASE JoinUnbuildable
  <2>1. InLoop /\ Rollback(Joined, stableVN', rejectedJoins)
    BY <1>6 DEF JoinUnbuildable
  <2>2. CallReplica.owner \in Owners
    BY <2>1, CallFacts DEF CallReplica, Owners, Owner, InLoop
  <2>3. Backed(Joined, Owners)
    BY <1>a, <2>1, <2>2, CallFacts, JoinBacked DEF Joined
  <2> QED BY <2>1, <2>3, JoinedType, RollbackBacked
<1>7. CASE RegisterCommit
  <2>1. call \in Call /\ call.id \in Ids
    BY <1>7 DEF RegisterCommit, TypeOK, Call
  <2>2. regs'[call.id] # NoReg
    <3>1. regs'[call.id] = [conn |-> call.conn, age |-> 0]
      BY <1>7, <2>1 DEF RegisterCommit, TypeOK
    <3>2. [conn |-> call.conn, age |-> 0] \in Registration
      BY <2>1, ControlPlaneAssumption DEF Call, Registration
    <3> QED BY <3>1, <3>2, ControlPlaneAssumption
  <2>3. \A id \in Ids : id # call.id => regs'[id] = regs[id]
    BY <1>7, <2>1 DEF RegisterCommit, TypeOK
  <2>4. Owners \subseteq Owners'
    BY <1>7, <2>2, <2>3 DEF RegisterCommit, Owners, Owner
  <2> QED BY <1>7, <2>4, SameSlotsBacked DEF RegisterCommit
<1>8. ASSUME NEW k \in Keys, NEW spec \in BootSpecs, AddProto(k, spec)
      PROVE  SlotsBacked'
  <2> DEFINE r == [owner |-> Boot, addr |-> NoConn]
  <2>1. slots' = Join(slots, deprecation, k, spec, r) /\ regs' = regs /\ call' = call
    BY <1>8 DEF AddProto
  <2>2. Backed(slots', Owners) BY <1>a, <2>1, JoinBacked
  <2>3. Owners' = Owners BY <2>1 DEF Owners, Owner
  <2> QED BY <1>b, <2>2, <2>3
<1>9. ASSUME NEW id \in Ids, Heartbeat(id) PROVE SlotsBacked'
  <2>1. \A i \in Ids : regs[i] # NoReg => regs'[i] # NoReg
    <3>1. regs'[id] # NoReg
      BY <1>9, ControlPlaneAssumption DEF Heartbeat, TypeOK, Registration
    <3> QED BY <1>9, <3>1 DEF Heartbeat, TypeOK
  <2>2. Owners \subseteq Owners' BY <1>9, <2>1 DEF Heartbeat, Owners, Owner
  <2> QED BY <1>9, <2>2, SameSlotsBacked DEF Heartbeat
<1>10. CASE Tick
  <2>1. \A i \in Ids : regs[i] # NoReg => regs'[i] # NoReg
    <3> SUFFICES ASSUME NEW i \in Ids, regs[i] # NoReg PROVE regs'[i] # NoReg
      OBVIOUS
    <3>1. regs[i].age <= TTL => [regs[i] EXCEPT !.age = @ + 1] \in Registration
      BY ControlPlaneAssumption DEF TypeOK, Registration
    <3> QED BY <1>10, <3>1, ControlPlaneAssumption DEF Tick
  <2>2. Owners \subseteq Owners' BY <1>10, <2>1 DEF Tick, Owners, Owner
  <2> QED BY <1>10, <2>2, SameSlotsBacked DEF Tick
<1>11. ASSUME NEW id \in Ids, DeregisterBody(id) PROVE SlotsBacked'
  <2>1. /\ slots' = RemoveReplicas(slots, OwnedBy(id))
        /\ regs' = [regs EXCEPT ![id] = NoReg]
        /\ call' = call
    BY <1>11 DEF DeregisterBody, DropOwner
  <2>2. Backed(slots', Owners \ {id}) BY <1>a, <2>1, RemoveBacked
  <2>3. Owners \ {id} \subseteq Owners'
    BY <2>1 DEF Owners, Owner, TypeOK
  <2> QED BY <1>b, <2>2, <2>3, BackedMore
<1>12. ASSUME NEW k \in Keys, NEW reason \in Reasons \cup {NoReason},
              SetDeprecation(k, reason)
       PROVE  SlotsBacked'
  <2>1. slots[k] # NoSlot => slots[k] \in SlotOf(Replica)
    BY DEF TypeOK
  <2>2. slots[k] # NoSlot => [slots[k] EXCEPT !.depr = reason].replicas = slots[k].replicas
    BY <2>1 DEF SlotOf
  <2>3. \A o \in Keys : slots'[o] # NoSlot =>
           slots[o] # NoSlot /\ slots'[o].replicas = slots[o].replicas
    BY <1>12, <2>2 DEF SetDeprecation, TypeOK
  <2>4. Backed(slots', Owners) BY <1>a, <2>3 DEF Backed
  <2>5. Owners' = Owners BY <1>12 DEF SetDeprecation, Owners, Owner
  <2> QED BY <1>b, <2>4, <2>5
<1>13. CASE Handler \/ JanitorScan \/ UNCHANGED vars
  BY <1>1, <1>13 DEF Handler, JanitorScan, vars
<1>14. ASSUME NEW k \in Keys, NEW spec \in BootSpecs, AddProtoLocked(k, spec)
       PROVE  SlotsBacked'
  BY <1>1, <1>14 DEF AddProtoLocked
<1>15. ASSUME NEW ns \in Namespaces, NEW target \in 1..MaxVN, RetractStable(ns, target)
       PROVE  SlotsBacked'
  BY <1>1, <1>15 DEF RetractStable
<1>16. ASSUME NEW id \in Ids, Deregister(id) \/ JanitorEvict(id) PROVE SlotsBacked'
  BY <1>1, <1>11, <1>16 DEF Deregister, JanitorEvict
<1> QED
  BY <1>2, <1>3, <1>4, <1>5, <1>6, <1>7, <1>8, <1>9, <1>10, <1>12, <1>13, <1>14,
     <1>15, <1>16
     DEF Next, Register, Deprecate, Undeprecate

(***************************************************************************)
(* No rollback, deregistration or janitor pass leaves a slot without       *)
(* replicas, or a replica of a registration that is gone (control.go       *)
(* Register, Deregister, janitor; releaseSlotLocked).                      *)
(***************************************************************************)
THEOREM SlotsBackedHolds == Spec => []SlotsBacked
<1>1. Init => SlotsBacked
  BY DEF Init, SlotsBacked, EmptyIndex
<1> QED BY <1>1, BackedStep, TypeCorrect, PTL DEF Spec

-----------------------------------------------------------------------------
(* A vN slot keeps the schema it was first registered with.                *)

KeepsSpecs(s, t) ==
    \A k \in Keys : ~IsUnstable(k) /\ s[k] # NoSlot /\ t[k] # NoSlot => t[k].spec = s[k].spec

\* What a removal leaves has the spec it had.
LEMMA RemoveSpec ==
    ASSUME NEW s \in [Keys -> Entry], NEW R, NEW k \in Keys,
           RemoveReplicas(s, R)[k] # NoSlot
    PROVE  s[k] # NoSlot /\ RemoveReplicas(s, R)[k].spec = s[k].spec
<1>1. RemoveReplicas(s, R)[k] = WithoutReplicas(s[k], R) BY DEF RemoveReplicas
<1>2. s[k] # NoSlot BY <1>1 DEF WithoutReplicas
<1>3. s[k] \in SlotOf(Replica) BY <1>2 DEF Entry
<1>4. [s[k] EXCEPT !.replicas = @ \ R].spec = s[k].spec BY <1>3 DEF SlotOf
<1> QED BY <1>1, <1>2, <1>4 DEF WithoutReplicas

\* A join that is not refused.
LEMMA JoinSpec ==
    ASSUME NEW s \in [Keys -> Entry], NEW d, NEW k \in Keys, NEW spec, NEW r,
           ~Rejected(s, k, spec)
    PROVE  KeepsSpecs(s, Join(s, d, k, spec, r))
<1> DEFINE t == Join(s, d, k, spec, r)
<1>1. \A o \in Keys : o # k => t[o] = s[o] BY DEF Join
<1>2. t[k] = JoinedSlot(s[k], d[k], spec, r) BY DEF Join
<1>3. ASSUME ~IsUnstable(k), s[k] # NoSlot PROVE t[k].spec = s[k].spec
  <2>1. s[k].spec = spec BY <1>3 DEF Rejected, Existed, Locked
  <2>2. s[k] \in SlotOf(Replica) BY <1>3 DEF Entry
  <2>3. [s[k] EXCEPT !.replicas = @ \cup {r}].spec = s[k].spec BY <2>2 DEF SlotOf
  <2> QED BY <1>2, <1>3, <2>1, <2>3 DEF JoinedSlot
<1> QED BY <1>1, <1>3 DEF KeepsSpecs

\* Removing replicas after a change that kept the specs.
LEMMA ThenRemoveSpec ==
    ASSUME NEW s, NEW t \in [Keys -> Entry], NEW R, KeepsSpecs(s, t)
    PROVE  KeepsSpecs(s, RemoveReplicas(t, R))
BY RemoveSpec DEF KeepsSpecs

\* One step keeps the specs of the vN slots.
LEMMA SpecsStep == TypeOK /\ [Next]_vars => KeepsSpecs(slots, slots')
<1> SUFFICES ASSUME TypeOK, [Next]_vars PROVE KeepsSpecs(slots, slots')
  OBVIOUS
<1> USE DEF gwVars, cpVars
<1>a. slots \in [Keys -> Entry] BY DEF TypeOK, Entry
<1>1. CASE slots' = slots BY <1>1 DEF KeepsSpecs
<1>2. CASE JoinExisting \/ JoinCreating
  <2>1. InLoop /\ slots' = Joined /\ ~Rejected(slots, next.key, next.spec)
    BY <1>2 DEF JoinExisting, JoinCreating
  <2> QED BY <1>a, <2>1, CallFacts, JoinSpec DEF Joined
<1>3. CASE JoinRejected
  <2>1. slots' = RemoveReplicas(slots, OwnedBy(call.id))
    BY <1>3 DEF JoinRejected, Rollback, DropOwner
  <2>2. KeepsSpecs(slots, slots) BY DEF KeepsSpecs
  <2> QED BY <1>a, <2>1, <2>2, ThenRemoveSpec
<1>4. CASE JoinInvalid
  <2> DEFINE s == [slots EXCEPT ![next.key] = NoSlot]
  <2>1. InLoop /\ slots' = RemoveReplicas(s, OwnedBy(call.id))
    BY <1>4 DEF JoinInvalid, Rollback, DropOwner
  <2>2. s \in [Keys -> Entry] /\ KeepsSpecs(slots, s)
    BY <1>a, <2>1, CallFacts DEF KeepsSpecs, Entry
  <2> QED BY <2>1, <2>2, ThenRemoveSpec
<1>5. CASE JoinUnbuildable
  <2>1. /\ InLoop /\ slots' = RemoveReplicas(Joined, OwnedBy(call.id))
        /\ ~Rejected(slots, next.key, next.spec)
    BY <1>5 DEF JoinUnbuildable, Rollback, DropOwner
  <2>2. KeepsSpecs(slots, Joined)
    BY <1>a, <2>1, CallFacts, JoinSpec DEF Joined
  <2> QED BY <2>1, <2>2, JoinedType, ThenRemoveSpec
<1>6. ASSUME NEW k \in Keys, NEW spec \in BootSpecs, AddProto(k, spec)
      PROVE  KeepsSpecs(slots, slots')
  BY <1>6, <1>a, JoinSpec DEF AddProto
<1>7. ASSUME NEW id \in Ids, DeregisterBody(id)
      PROVE  KeepsSpecs(slots, slots')
  <2>1. slots' = RemoveReplicas(slots, OwnedBy(id))
    BY <1>7 DEF DeregisterBody, DropOwner
  <2>2. KeepsSpecs(slots, slots) BY DEF KeepsSpecs
  <2> QED BY <1>a, <2>1, <2>2, ThenRemoveSpec
<1>8. ASSUME NEW k \in Keys, NEW reason, SetDeprecation(k, reason)
      PROVE  KeepsSpecs(slots, slots')
  <2>1. slots[k] # NoSlot => [slots[k] EXCEPT !.depr = reason].spec = slots[k].spec
    BY DEF TypeOK, SlotOf
  <2> QED BY <1>8, <2>1 DEF SetDeprecation, TypeOK, KeepsSpecs
<1>9. ASSUME NEW id \in Ids,
             Heartbeat(id) \/ Deregister(id) \/ JanitorEvict(id)
      PROVE  KeepsSpecs(slots, slots')
  BY <1>1, <1>7, <1>9 DEF Heartbeat, Deregister, JanitorEvict
<1>10. CASE \/ Handler \/ RegisterCommit \/ Tick \/ JanitorScan \/ UNCHANGED vars
            \/ \E id \in Ids, a \in Addrs, bs \in Requests : RegisterStart(id, a, bs)
            \/ \E k \in Keys, spec \in BootSpecs : AddProtoLocked(k, spec)
            \/ \E ns \in Namespaces, target \in 1..MaxVN : RetractStable(ns, target)
  BY <1>1, <1>10 DEF Handler, RegisterCommit, Tick, JanitorScan, vars, RegisterStart,
                     AddProtoLocked, RetractStable
<1> QED
  BY <1>2, <1>3, <1>4, <1>5, <1>6, <1>8, <1>9, <1>10
     DEF Next, Register, Deprecate, Undeprecate

(***************************************************************************)
(* vN is locked once registered: no join, swap, rollback or eviction of    *)
(* another registration changes the kind, hash or caps of a vN slot while  *)
(* it lives (registerSlotLocked).                                          *)
(***************************************************************************)
THEOREM VersionLockedHolds == Spec => VersionLocked
<1>2. KeepsSpecs(slots, slots') =>
        \A k \in Keys : ~IsUnstable(k) /\ slots[k] # NoSlot /\ slots'[k] # NoSlot
           => slots'[k].spec = slots[k].spec
  BY DEF KeepsSpecs
<1> QED BY <1>2, SpecsStep, TypeCorrect, PTL DEF Spec, VersionLocked

-----------------------------------------------------------------------------
(* A vN slot keeps its boot service.                                       *)

KeepsBoot(s, t) ==
    \A k \in Keys : ~IsUnstable(k) /\ s[k] # NoSlot =>
        \A r \in s[k].replicas : r.owner = Boot => t[k] # NoSlot /\ r \in t[k].replicas

\* A join that is not refused only adds to a vN slot.
LEMMA JoinBoot ==
    ASSUME NEW s \in [Keys -> Entry], NEW d \in [Keys -> Reasons \cup {NoReason}], NEW k \in Keys,
           NEW spec \in Specs, NEW r \in Replica, ~Rejected(s, k, spec)
    PROVE  KeepsBoot(s, Join(s, d, k, spec, r))
<1> DEFINE t == Join(s, d, k, spec, r)
<1>1. \A o \in Keys : o # k => t[o] = s[o] BY DEF Join
<1>2. t[k] = JoinedSlot(s[k], d[k], spec, r) BY DEF Join
<1>3. ASSUME ~IsUnstable(k), s[k] # NoSlot PROVE t[k] # NoSlot /\ s[k].replicas \subseteq t[k].replicas
  <2>1. s[k].spec = spec BY <1>3 DEF Rejected, Existed, Locked
  <2>2. s[k] \in SlotOf(Replica) BY <1>3 DEF Entry
  <2>3. t[k] = [s[k] EXCEPT !.replicas = @ \cup {r}] BY <1>2, <1>3, <2>1 DEF JoinedSlot
  <2>4. t[k] \in SlotOf(Replica) /\ t[k].replicas = s[k].replicas \cup {r} BY <2>2, <2>3 DEF SlotOf
  <2> QED BY <2>4, ControlPlaneAssumption
<1> HIDE DEF t
<1>4. KeepsBoot(s, t) BY <1>1, <1>3 DEF KeepsBoot
<1> QED BY <1>4 DEF t

\* What a registration owns does not include a boot service.
LEMMA RemoveBoot ==
    ASSUME NEW s \in [Keys -> Entry], NEW t \in [Keys -> Entry], NEW id \in Ids, KeepsBoot(s, t)
    PROVE  KeepsBoot(s, RemoveReplicas(t, OwnedBy(id)))
<1> DEFINE R == OwnedBy(id)
           u == RemoveReplicas(t, R)
<1>0. id # Boot BY ControlPlaneAssumption
<1>1. \A r \in R : r.owner = id BY DEF OwnedBy
<1>2. ASSUME NEW k \in Keys, t[k] # NoSlot, NEW r \in t[k].replicas, r.owner = Boot
      PROVE  u[k] # NoSlot /\ r \in u[k].replicas
  <2>1. r \notin R BY <1>0, <1>1, <1>2
  <2>2. u[k] = WithoutReplicas(t[k], R) BY DEF RemoveReplicas
  <2>3. t[k] \in SlotOf(Replica) BY <1>2 DEF Entry
  <2> HIDE DEF R, u
  <2>4. CASE t[k].replicas \cap R = {} BY <1>2, <2>2, <2>4 DEF WithoutReplicas
  <2>5. CASE t[k].replicas \cap R # {}
    <3>1. u[k] = [t[k] EXCEPT !.replicas = @ \ R] BY <1>2, <2>1, <2>2, <2>5 DEF WithoutReplicas
    <3>2. u[k] \in SlotOf(Replica) /\ u[k].replicas = t[k].replicas \ R BY <2>3, <3>1 DEF SlotOf
    <3> QED BY <1>2, <2>1, <3>2, ControlPlaneAssumption
  <2> QED BY <2>4, <2>5
<1> HIDE DEF u
<1>3. KeepsBoot(s, u) BY <1>2 DEF KeepsBoot
<1> QED BY <1>3 DEF u

(***************************************************************************)
(* A service the program added at boot under a vN stays, whatever the      *)
(* registrations that share its slot do (AddProto; rollback, Deregister    *)
(* and janitor remove by owner).                                           *)
(***************************************************************************)
THEOREM BootServiceStaysHolds == Spec => BootServiceStays
<1>1. TypeOK /\ [Next]_vars => KeepsBoot(slots, slots')
  <2> SUFFICES ASSUME TypeOK, [Next]_vars PROVE KeepsBoot(slots, slots')
    OBVIOUS
  <2> USE DEF gwVars, cpVars
  <2>a. slots \in [Keys -> Entry] /\ deprecation \in [Keys -> Reasons \cup {NoReason}] BY DEF TypeOK, Entry
  <2>b. KeepsBoot(slots, slots) BY DEF KeepsBoot
  <2>1. CASE slots' = slots BY <2>1, <2>b
  <2>2. ASSUME InLoop, ~Rejected(slots, next.key, next.spec) PROVE KeepsBoot(slots, Joined)
    BY <2>a, <2>2, CallFacts, JoinBoot DEF Joined
  <2>3. CASE JoinExisting \/ JoinCreating BY <2>2, <2>3 DEF JoinExisting, JoinCreating
  <2>4. CASE JoinRejected
    <3>1. InLoop /\ slots' = RemoveReplicas(slots, OwnedBy(call.id))
      BY <2>4 DEF JoinRejected, Rollback, DropOwner
    <3> QED BY <2>a, <2>b, <3>1, CallFacts, RemoveBoot
  <2>5. CASE JoinInvalid
    <3> DEFINE s == [slots EXCEPT ![next.key] = NoSlot]
    <3>1. InLoop /\ slots' = RemoveReplicas(s, OwnedBy(call.id))
      BY <2>5 DEF JoinInvalid, Rollback, DropOwner
    <3>2. IsUnstable(next.key) \/ slots[next.key] = NoSlot
      BY <2>5 DEF JoinInvalid, Rejected, Existed, Locked
    <3>3. s \in [Keys -> Entry] BY <2>a, <3>1, CallFacts DEF Entry
    <3>4. KeepsBoot(slots, s) BY <2>a, <3>1, <3>2, CallFacts DEF KeepsBoot
    <3> QED BY <2>a, <3>1, <3>3, <3>4, CallFacts, RemoveBoot
  <2>6. CASE JoinUnbuildable
    <3>1. /\ InLoop /\ slots' = RemoveReplicas(Joined, OwnedBy(call.id))
          /\ ~Rejected(slots, next.key, next.spec)
      BY <2>6 DEF JoinUnbuildable, Rollback, DropOwner
    <3> QED BY <2>a, <2>2, <3>1, CallFacts, JoinedType, RemoveBoot
  <2>7. ASSUME NEW k \in Keys, NEW spec \in BootSpecs, AddProto(k, spec)
        PROVE  KeepsBoot(slots, slots')
    <3>1. spec \in Specs /\ [owner |-> Boot, addr |-> NoConn] \in Replica
      BY ControlPlaneAssumption DEF Replica
    <3> QED BY <2>7, <2>a, <3>1, JoinBoot DEF AddProto
  <2>8. ASSUME NEW id \in Ids, DeregisterBody(id)
        PROVE  KeepsBoot(slots, slots')
    <3>1. slots' = RemoveReplicas(slots, OwnedBy(id))
      BY <2>8 DEF DeregisterBody, DropOwner
    <3> QED BY <2>a, <2>b, <3>1, RemoveBoot
  <2>9. ASSUME NEW k \in Keys, NEW reason \in Reasons \cup {NoReason}, SetDeprecation(k, reason)
        PROVE  KeepsBoot(slots, slots')
    <3>1. slots[k] # NoSlot => /\ [slots[k] EXCEPT !.depr = reason] \in SlotOf(Replica)
                               /\ [slots[k] EXCEPT !.depr = reason].replicas = slots[k].replicas
      BY DEF TypeOK, SlotOf
    <3>2. slots[k] # NoSlot => slots' = [slots EXCEPT ![k] = [slots[k] EXCEPT !.depr = reason]]
      BY <2>9 DEF SetDeprecation
    <3>3. \A o \in Keys : slots[o] # NoSlot => slots'[o] # NoSlot /\ slots'[o].replicas = slots[o].replicas
      BY <2>9, <2>a, <3>1, <3>2, ControlPlaneAssumption DEF SetDeprecation
    <3> QED BY <3>3 DEF KeepsBoot
  <2>10. ASSUME NEW id \in Ids,
               Heartbeat(id) \/ Deregister(id) \/ JanitorEvict(id)
        PROVE  KeepsBoot(slots, slots')
    BY <2>1, <2>8, <2>10 DEF Heartbeat, Deregister, JanitorEvict
  <2>11. CASE \/ Handler \/ RegisterCommit \/ Tick \/ JanitorScan \/ UNCHANGED vars
              \/ \E id \in Ids, a \in Addrs, bs \in Requests : RegisterStart(id, a, bs)
              \/ \E k \in Keys, spec \in BootSpecs : AddProtoLocked(k, spec)
              \/ \E ns \in Namespaces, target \in 1..MaxVN : RetractStable(ns, target)
    BY <2>1, <2>11 DEF Handler, RegisterCommit, Tick, JanitorScan, vars, RegisterStart,
                       AddProtoLocked, RetractStable
  <2> QED
    BY <2>3, <2>4, <2>5, <2>6, <2>7, <2>9, <2>10, <2>11
       DEF Next, Register, Deprecate, Undeprecate
<1>2. KeepsBoot(slots, slots') =>
        \A k \in Keys : ~IsUnstable(k) /\ slots[k] # NoSlot
          => \A r \in slots[k].replicas : r.owner = Boot
                => slots'[k] # NoSlot /\ r \in slots'[k].replicas
  BY DEF KeepsBoot
<1> QED BY <1>1, <1>2, TypeCorrect, PTL DEF Spec, BootServiceStays

-----------------------------------------------------------------------------
(* The stable alias is lowered by RetractStable alone.                     *)

(***************************************************************************)
(* No registration, rollback, release or eviction lowers a namespace's     *)
(* stable alias: RetractStable does, and only to a version that is         *)
(* registered (advanceStableLocked, RetractStable).                        *)
(***************************************************************************)
THEOREM StableLoweredToLiveHolds == Spec => StableLoweredToLive
<1> DEFINE Lowered == \A ns \in Namespaces : stableVN'[ns] < stableVN[ns]
                        => slots[<<ns, stableVN'[ns]>>] # NoSlot /\ slots' = slots
<1>1. TypeOK /\ [Next]_vars => Lowered
  <2> SUFFICES ASSUME TypeOK, [Next]_vars PROVE Lowered
    OBVIOUS
  <2> USE DEF gwVars, cpVars
  <2>a. \A ns \in Namespaces : stableVN[ns] \in Int
    BY RegistryAssumption DEF TypeOK, Versions
  <2>1. CASE stableVN' = stableVN BY <2>1, <2>a
  <2>2. ASSUME NEW k \in Keys, stableVN' = AdvanceStable(stableVN, k) PROVE Lowered
    <3>1. k[1] \in Namespaces /\ k[2] \in Int BY RegistryAssumption DEF Keys, Versions
    <3>2. \A ns \in Namespaces : stableVN'[ns] >= stableVN[ns] /\ stableVN'[ns] \in Int
      <4> SUFFICES ASSUME NEW ns \in Namespaces
                   PROVE  stableVN'[ns] >= stableVN[ns] /\ stableVN'[ns] \in Int
        OBVIOUS
      <4>1. stableVN'[ns] = IF ns = k[1] THEN (IF k[2] > stableVN[ns] THEN k[2] ELSE stableVN[ns])
                            ELSE stableVN[ns]
        BY <2>2, <3>1 DEF AdvanceStable, TypeOK
      <4>2. stableVN[ns] \in Int BY <2>a
      <4> QED BY <3>1, <4>1, <4>2
    <3>3. \A ns \in Namespaces : ~(stableVN'[ns] < stableVN[ns]) BY <2>a, <3>2
    <3> QED BY <3>3
  <2>3. CASE JoinCreating \/ JoinUnbuildable
    <3>1. InLoop /\ stableVN' = AdvanceStable(stableVN, next.key) BY <2>3 DEF JoinCreating, JoinUnbuildable
    <3> QED BY <2>2, <3>1, CallFacts
  <2>4. ASSUME NEW k \in Keys, NEW spec \in BootSpecs, AddProto(k, spec) PROVE Lowered
    BY <2>1, <2>2, <2>4 DEF AddProto
  <2>5. ASSUME NEW n \in Namespaces, NEW target \in 1..MaxVN, RetractStable(n, target) PROVE Lowered
    <3>1. slots' = slots /\ slots[<<n, target>>] # NoSlot /\ stableVN' = [stableVN EXCEPT ![n] = target]
      BY <2>5 DEF RetractStable
    <3>2. stableVN'[n] = target /\ \A ns \in Namespaces : ns # n => stableVN'[ns] = stableVN[ns]
      BY <3>1 DEF TypeOK
    <3> QED BY <2>a, <3>1, <3>2
  <2>6. ASSUME NEW id \in Ids, Heartbeat(id) \/ Deregister(id) \/ JanitorEvict(id) PROVE Lowered
    BY <2>1, <2>6 DEF Heartbeat, Deregister, JanitorEvict, DeregisterBody
  <2>7. CASE \/ Handler \/ RegisterCommit \/ Tick \/ JanitorScan \/ UNCHANGED vars
             \/ JoinExisting \/ JoinRejected \/ JoinInvalid
             \/ \E id \in Ids, a \in Addrs, bs \in Requests : RegisterStart(id, a, bs)
             \/ \E k \in Keys, spec \in BootSpecs : AddProtoLocked(k, spec)
             \/ \E k \in Keys, reason \in Reasons \cup {NoReason} : SetDeprecation(k, reason)
    BY <2>1, <2>7 DEF Handler, RegisterCommit, Tick, JanitorScan, vars, RegisterStart, JoinExisting,
                      JoinRejected, JoinInvalid, AddProtoLocked, SetDeprecation
  <2> QED
    BY <2>3, <2>4, <2>5, <2>6, <2>7 DEF Next, Register, Deprecate, Undeprecate
<1> QED BY <1>1, TypeCorrect, PTL DEF Spec, StableLoweredToLive

-----------------------------------------------------------------------------
(* No channel pattern is claimed twice.                                    *)

Disjoint(s) ==
    \A k, o \in LiveKeys(s) : k # o => Channels(s[k].spec) \cap Channels(s[o].spec) = {}

\* A join that is not refused brings no pattern that another slot claims.
LEMMA JoinDisjoint ==
    ASSUME NEW s \in [Keys -> Entry], NEW d, NEW k \in Keys, NEW spec, NEW r,
           ~Rejected(s, k, spec), Disjoint(s)
    PROVE  Disjoint(Join(s, d, k, spec, r))
<1> DEFINE t == Join(s, d, k, spec, r)
<1>1. \A o \in Keys : o # k => t[o] = s[o] BY DEF Join
<1>2. t[k] = JoinedSlot(s[k], d[k], spec, r) BY DEF Join
<1>3. CASE Existed(s, k, spec)
  <2>1. s[k] # NoSlot /\ s[k].spec = spec /\ s[k] \in SlotOf(Replica)
    BY <1>3 DEF Existed, Entry
  <2>2. [s[k] EXCEPT !.replicas = @ \cup {r}].spec = s[k].spec BY <2>1 DEF SlotOf
  <2>3. t[k].spec = s[k].spec BY <1>2, <2>1, <2>2 DEF JoinedSlot
  <2> QED BY <1>1, <2>1, <2>3 DEF Disjoint, LiveKeys
<1>4. CASE ~Existed(s, k, spec)
  <2>1. t[k].spec = spec BY <1>2, <1>4 DEF JoinedSlot, Existed
  <2>2. \A o \in LiveKeys(s) \ {k} : Channels(s[o].spec) \cap Channels(spec) = {}
    BY <1>4 DEF Rejected, PatternConflict
  <2> QED BY <1>1, <2>1, <2>2 DEF Disjoint, LiveKeys
<1> QED BY <1>3, <1>4

\* What is removed claims nothing any more.
LEMMA RemoveDisjoint ==
    ASSUME NEW s \in [Keys -> Entry], NEW R, Disjoint(s)
    PROVE  Disjoint(RemoveReplicas(s, R))
BY RemoveSpec DEF Disjoint, LiveKeys

\* One step keeps the claims disjoint.
LEMMA ClaimsStep == TypeOK /\ ChannelClaimsDisjoint /\ [Next]_vars => ChannelClaimsDisjoint'
<1> SUFFICES ASSUME TypeOK, Disjoint(slots), [Next]_vars PROVE Disjoint(slots')
  BY DEF Disjoint, ChannelClaimsDisjoint
<1> USE DEF gwVars, cpVars
<1>a. slots \in [Keys -> Entry] BY DEF TypeOK, Entry
<1>1. CASE slots' = slots BY <1>1
<1>2. CASE JoinExisting \/ JoinCreating
  <2>1. InLoop /\ slots' = Joined /\ ~Rejected(slots, next.key, next.spec)
    BY <1>2 DEF JoinExisting, JoinCreating
  <2> QED BY <1>a, <2>1, CallFacts, JoinDisjoint DEF Joined
<1>3. CASE JoinRejected
  <2>1. slots' = RemoveReplicas(slots, OwnedBy(call.id))
    BY <1>3 DEF JoinRejected, Rollback, DropOwner
  <2> QED BY <1>a, <2>1, RemoveDisjoint
<1>4. CASE JoinInvalid
  <2> DEFINE s == [slots EXCEPT ![next.key] = NoSlot]
  <2>1. InLoop /\ slots' = RemoveReplicas(s, OwnedBy(call.id))
    BY <1>4 DEF JoinInvalid, Rollback, DropOwner
  <2>2. s \in [Keys -> Entry] BY <1>a, <2>1, CallFacts DEF Entry
  <2>3. Disjoint(s) BY <1>a, <2>1, CallFacts DEF Disjoint, LiveKeys
  <2> QED BY <2>1, <2>2, <2>3, RemoveDisjoint
<1>5. CASE JoinUnbuildable
  <2>1. /\ InLoop /\ slots' = RemoveReplicas(Joined, OwnedBy(call.id))
        /\ ~Rejected(slots, next.key, next.spec)
    BY <1>5 DEF JoinUnbuildable, Rollback, DropOwner
  <2>2. Disjoint(Joined)
    BY <1>a, <2>1, CallFacts, JoinDisjoint DEF Joined
  <2> QED BY <2>1, <2>2, JoinedType, RemoveDisjoint
<1>6. ASSUME NEW k \in Keys, NEW spec \in BootSpecs, AddProto(k, spec)
      PROVE  Disjoint(slots')
  BY <1>6, <1>a, JoinDisjoint DEF AddProto
<1>7. ASSUME NEW id \in Ids, DeregisterBody(id) PROVE Disjoint(slots')
  <2>1. slots' = RemoveReplicas(slots, OwnedBy(id))
    BY <1>7 DEF DeregisterBody, DropOwner
  <2> QED BY <1>a, <2>1, RemoveDisjoint
<1>8. ASSUME NEW k \in Keys, NEW reason, SetDeprecation(k, reason) PROVE Disjoint(slots')
  <2>1. slots[k] # NoSlot => [slots[k] EXCEPT !.depr = reason].spec = slots[k].spec
    BY DEF TypeOK, SlotOf
  <2>2. \A o \in Keys : slots'[o] # NoSlot =>
           slots[o] # NoSlot /\ slots'[o].spec = slots[o].spec
    BY <1>8, <2>1 DEF SetDeprecation, TypeOK
  <2> QED BY <2>2 DEF Disjoint, LiveKeys
<1>9. ASSUME NEW id \in Ids, Heartbeat(id) \/ Deregister(id) \/ JanitorEvict(id)
      PROVE  Disjoint(slots')
  BY <1>1, <1>7, <1>9 DEF Heartbeat, Deregister, JanitorEvict
<1>10. CASE \/ Handler \/ RegisterCommit \/ Tick \/ JanitorScan \/ UNCHANGED vars
            \/ \E id \in Ids, a \in Addrs, bs \in Requests : RegisterStart(id, a, bs)
            \/ \E k \in Keys, spec \in BootSpecs : AddProtoLocked(k, spec)
            \/ \E ns \in Namespaces, target \in 1..MaxVN : RetractStable(ns, target)
  BY <1>1, <1>10 DEF Handler, RegisterCommit, Tick, JanitorScan, vars, RegisterStart,
                     AddProtoLocked, RetractStable
<1> QED
  BY <1>2, <1>3, <1>4, <1>5, <1>6, <1>8, <1>9, <1>10
     DEF Next, Register, Deprecate, Undeprecate

(***************************************************************************)
(* Two services never claim one channel pattern, whatever is registered,   *)
(* swapped, rolled back or evicted (checkCrossSlotBindingsLocked).         *)
(***************************************************************************)
THEOREM ChannelClaimsDisjointHolds == Spec => []ChannelClaimsDisjoint
<1>1. Init => ChannelClaimsDisjoint
  BY DEF Init, ChannelClaimsDisjoint, LiveKeys, EmptyIndex
<1> QED BY <1>1, ClaimsStep, TypeCorrect, PTL DEF Spec

-----------------------------------------------------------------------------
(* Connections are counted exactly.                                        *)

(***************************************************************************)
(* An id is issued once, so the call under way has no registration yet:    *)
(* nobody counts twice.                                                    *)
(***************************************************************************)
IdsFresh ==
    /\ \A id \in Ids : regs[id] # NoReg => id \in issued
    /\ call # Idle => call.id \in issued /\ regs[call.id] = NoReg

\* The holders of an address are finitely many ids.
LEMMA HoldersFinite ==
    ASSUME NEW a
    PROVE  IsFiniteSet(Holders(a)) /\ IsFiniteSet(Holders(a)')
<1>1. Holders(a) \subseteq Ids /\ Holders(a)' \subseteq Ids BY DEF Holders
<1> QED BY <1>1, FS_Subset, ControlPlaneAssumption

\* The same holders and the same counts.
LEMMA SameConns ==
    ASSUME ConnRefsExact, conns' = conns, \A a \in Addrs : Holders(a)' = Holders(a)
    PROVE  ConnRefsExact'
BY DEF ConnRefsExact

\* A holder more, and one more reference.
LEMMA AcquiredExact ==
    ASSUME TypeOK, ConnRefsExact, NEW id \in Ids, NEW c, conns' = Acquired(c),
           \A a \in Addrs : id \notin Holders(a),
           \A a \in Addrs : Holders(a)' = IF a = c THEN Holders(a) \cup {id} ELSE Holders(a)
    PROVE  ConnRefsExact'
<1> SUFFICES ASSUME NEW a \in Addrs PROVE conns'[a] = Cardinality(Holders(a)')
  BY DEF ConnRefsExact
<1>1. conns[a] = Cardinality(Holders(a)) BY DEF ConnRefsExact
<1>2. Cardinality(Holders(a) \cup {id}) = Cardinality(Holders(a)) + 1
  BY HoldersFinite, FS_AddElement
<1> QED BY <1>1, <1>2 DEF Acquired

\* A holder less, and one reference less.
LEMMA ReleasedExact ==
    ASSUME TypeOK, ConnRefsExact, NEW id \in Ids, NEW c, conns' = ReleasedConn(c),
           \A a \in Addrs : a = c <=> id \in Holders(a),
           \A a \in Addrs : Holders(a)' = Holders(a) \ {id}
    PROVE  ConnRefsExact'
<1> SUFFICES ASSUME NEW a \in Addrs PROVE conns'[a] = Cardinality(Holders(a)')
  BY DEF ConnRefsExact
<1>1. conns[a] = Cardinality(Holders(a)) /\ conns[a] \in Nat BY DEF ConnRefsExact, TypeOK
<1>2. CASE a = c
  <2>1. Cardinality(Holders(a) \ {id}) = Cardinality(Holders(a)) - 1
    BY <1>2, HoldersFinite, FS_RemoveElement
  <2>2. Cardinality(Holders(a) \ {id}) \in Nat
    BY HoldersFinite, FS_CardinalityType
  <2> QED BY <1>1, <1>2, <2>1, <2>2 DEF ReleasedConn
<1>3. CASE a # c
  <2>1. Holders(a) \ {id} = Holders(a) BY <1>3
  <2> QED BY <1>1, <1>3, <2>1 DEF ReleasedConn
<1> QED BY <1>2, <1>3

\* The call that is rolled back held its address, and nobody's registration did.
LEMMA RollbackExact ==
    ASSUME TypeOK, ConnRefsExact, IdsFresh, InLoop, NEW s, NEW st, NEW rj, Rollback(s, st, rj)
    PROVE  ConnRefsExact'
<1>1. call.id \in Ids /\ call # Idle BY CallFacts DEF InLoop
<1>2. conns' = ReleasedConn(call.conn) /\ call' = Idle /\ regs' = regs
  BY DEF Rollback, DropOwner
<1>3. \A a \in Addrs : a = call.conn <=> call.id \in Holders(a)
  BY <1>1 DEF Holders, IdsFresh
<1>4. \A a \in Addrs : Holders(a)' = Holders(a) \ {call.id}
  BY <1>1, <1>2 DEF Holders, IdsFresh
<1> QED BY <1>1, <1>2, <1>3, <1>4, ReleasedExact

\* One step keeps the counts exact and the ids fresh.
LEMMA ConnStep == TypeOK /\ TypeOK' /\ IdsFresh /\ ConnRefsExact /\ [Next]_vars => IdsFresh' /\ ConnRefsExact'
<1> DEFINE I == IdsFresh /\ ConnRefsExact
<1> SUFFICES ASSUME TypeOK, TypeOK', IdsFresh, ConnRefsExact, [Next]_vars PROVE I'
  OBVIOUS
<1> USE DEF gwVars, cpVars
<1>1. CASE UNCHANGED <<regs, conns, issued, call>>
  BY <1>1, SameConns DEF IdsFresh, Holders
<1>2. ASSUME NEW id \in Ids, NEW a \in Addrs, NEW bs \in Requests,
             RegisterStart(id, a, bs)
      PROVE  I'
  <2> DEFINE c == IF HasProto(bs) THEN a ELSE NoConn
  <2>1. /\ call = Idle /\ id \notin issued /\ regs' = regs
        /\ issued' = issued \cup {id} /\ conns' = Acquired(c)
        /\ call' = [id |-> id, addr |-> a, conn |-> c, todo |-> bs]
    BY <1>2 DEF RegisterStart
  <2>2. call' # Idle /\ call'.id = id /\ call'.conn = c
    <3>1. call' \in Call BY <2>1, ControlPlaneAssumption DEF Call
    <3> QED BY <2>1, <3>1, ControlPlaneAssumption
  <2>3. regs[id] = NoReg BY <2>1 DEF IdsFresh
  <2>4. IdsFresh' BY <2>1, <2>2, <2>3 DEF IdsFresh
  <2>5. \A b \in Addrs : id \notin Holders(b) BY <2>1, <2>3 DEF Holders
  <2>6. \A b \in Addrs : Holders(b)' = IF b = c THEN Holders(b) \cup {id} ELSE Holders(b)
    BY <2>1, <2>2 DEF Holders
  <2> QED BY <2>1, <2>4, <2>5, <2>6, AcquiredExact
<1>3. CASE JoinExisting \/ JoinCreating
  <2>1. InLoop /\ call' = [call EXCEPT !.todo = Tail(@)] /\ UNCHANGED <<regs, conns, issued>>
    BY <1>3 DEF JoinExisting, JoinCreating
  <2>2. call' # Idle /\ call'.id = call.id /\ call'.conn = call.conn
    BY <2>1, CallFacts, ControlPlaneAssumption DEF Call
  <2> QED BY <2>1, <2>2, SameConns DEF IdsFresh, Holders, InLoop
<1>4. ASSUME NEW s, NEW st, NEW rj, InLoop, Rollback(s, st, rj) PROVE I'
  <2>1. IdsFresh' BY <1>4 DEF Rollback, IdsFresh
  <2> QED BY <1>4, <2>1, RollbackExact
<1>5. CASE JoinRejected \/ JoinInvalid \/ JoinUnbuildable
  <2>1. PICK s, st, rj : InLoop /\ Rollback(s, st, rj)
    BY <1>5 DEF JoinRejected, JoinInvalid, JoinUnbuildable
  <2> QED BY <1>4, <2>1
<1>6. CASE RegisterCommit
  <2>1. /\ call # Idle /\ call' = Idle /\ UNCHANGED <<conns, issued>>
        /\ regs' = [regs EXCEPT ![call.id] = [conn |-> call.conn, age |-> 0]]
    BY <1>6 DEF RegisterCommit
  <2>2. call.id \in Ids /\ [conn |-> call.conn, age |-> 0] \in Registration
    BY <2>1, ControlPlaneAssumption DEF TypeOK, Call, Registration
  <2>3. regs'[call.id] # NoReg /\ regs'[call.id].conn = call.conn
    BY <2>1, <2>2, ControlPlaneAssumption DEF TypeOK
  <2>4. \A i \in Ids : i # call.id => regs'[i] = regs[i] BY <2>1, <2>2 DEF TypeOK
  <2>5. IdsFresh' BY <2>1, <2>4 DEF IdsFresh
  <2>6. \A b \in Addrs : Holders(b)' = Holders(b)
    BY <2>1, <2>2, <2>3, <2>4 DEF Holders, IdsFresh
  <2> QED BY <2>1, <2>5, <2>6, SameConns
<1>7. ASSUME NEW id \in Ids, Heartbeat(id) PROVE I'
  <2>1. regs[id] # NoReg /\ regs' = [regs EXCEPT ![id].age = 0] /\ UNCHANGED <<conns, issued, call>>
    BY <1>7 DEF Heartbeat
  <2>2. \A i \in Ids : /\ regs'[i] = NoReg <=> regs[i] = NoReg
                       /\ regs[i] # NoReg => regs'[i].conn = regs[i].conn
    <3>1. regs[id] \in Registration BY <2>1 DEF TypeOK
    <3>2. regs'[id] # NoReg /\ regs'[id].conn = regs[id].conn
      BY <2>1, <3>1, ControlPlaneAssumption DEF TypeOK, Registration
    <3> QED BY <2>1, <3>2 DEF TypeOK
  <2>3. IdsFresh' BY <2>1, <2>2 DEF IdsFresh, TypeOK, Call
  <2>4. \A b \in Addrs : Holders(b)' = Holders(b) BY <2>1, <2>2 DEF Holders
  <2> QED BY <2>1, <2>3, <2>4, SameConns
<1>8. CASE Tick
  <2>1. UNCHANGED <<conns, issued, call>> BY <1>8 DEF Tick
  <2>2. \A i \in Ids : /\ regs'[i] = NoReg <=> regs[i] = NoReg
                       /\ regs[i] # NoReg => regs'[i].conn = regs[i].conn
    <3> SUFFICES ASSUME NEW i \in Ids, regs[i] # NoReg
                 PROVE  regs'[i] # NoReg /\ regs'[i].conn = regs[i].conn
      BY <1>8 DEF Tick
    <3>1. regs[i] \in Registration BY DEF TypeOK
    <3>2. regs[i].age <= TTL =>
             /\ [regs[i] EXCEPT !.age = @ + 1] \in Registration
             /\ [regs[i] EXCEPT !.age = @ + 1].conn = regs[i].conn
      BY <3>1, ControlPlaneAssumption DEF Registration
    <3> QED BY <1>8, <3>1, <3>2, ControlPlaneAssumption DEF Tick
  <2>3. IdsFresh' BY <2>1, <2>2 DEF IdsFresh, TypeOK, Call
  <2>4. \A b \in Addrs : Holders(b)' = Holders(b) BY <2>1, <2>2 DEF Holders
  <2> QED BY <2>1, <2>3, <2>4, SameConns
<1>9. ASSUME NEW id \in Ids, DeregisterBody(id) PROVE I'
  <2>1. /\ call = Idle /\ regs[id] # NoReg /\ UNCHANGED <<issued, call>>
        /\ regs' = [regs EXCEPT ![id] = NoReg] /\ conns' = ReleasedConn(regs[id].conn)
    BY <1>9 DEF DeregisterBody, DropOwner
  <2>2. IdsFresh' BY <2>1 DEF IdsFresh, TypeOK
  <2>3. \A a \in Addrs : a = regs[id].conn <=> id \in Holders(a) BY <2>1 DEF Holders
  <2>4. \A a \in Addrs : Holders(a)' = Holders(a) \ {id} BY <2>1 DEF Holders, TypeOK
  <2> QED BY <2>1, <2>2, <2>3, <2>4, ReleasedExact
<1>10. ASSUME NEW id \in Ids, Deregister(id) \/ JanitorEvict(id) PROVE I'
  BY <1>1, <1>9, <1>10 DEF Deregister, JanitorEvict
<1>11. CASE \/ Handler \/ JanitorScan \/ UNCHANGED vars
            \/ \E k \in Keys, spec \in BootSpecs : AddProto(k, spec) \/ AddProtoLocked(k, spec)
            \/ \E ns \in Namespaces, target \in 1..MaxVN : RetractStable(ns, target)
            \/ \E k \in Keys, reason \in Reasons \cup {NoReason} : SetDeprecation(k, reason)
  BY <1>1, <1>11 DEF Handler, JanitorScan, vars, AddProto, AddProtoLocked, RetractStable,
                     SetDeprecation
<1> QED
  BY <1>2, <1>3, <1>5, <1>6, <1>7, <1>8, <1>10, <1>11
     DEF Next, Register, Deprecate, Undeprecate

\* The counts are exact, and no id is handed out twice.
LEMMA ConnInv == Spec => [](IdsFresh /\ ConnRefsExact)
<1> DEFINE I == IdsFresh /\ ConnRefsExact
<1>1. Init => I
  <2> SUFFICES ASSUME Init PROVE I OBVIOUS
  <2>1. IdsFresh BY DEF Init, IdsFresh
  <2>2. \A a \in Addrs : Holders(a) = {} BY DEF Init, Holders
  <2> QED BY <2>1, <2>2, FS_EmptySet DEF Init, ConnRefsExact
<1> QED BY <1>1, ConnStep, TypeCorrect, PTL DEF Spec

(***************************************************************************)
(* cp.conns counts exactly the registrations and the call that use an      *)
(* address, for any number of them: no rollback, deregistration or         *)
(* eviction leaks a connection, and none closes one in use                 *)
(* (acquireConnLocked, releaseConnLocked).                                 *)
(***************************************************************************)
THEOREM ConnRefsExactHolds == Spec => []ConnRefsExact
BY ConnInv, PTL

-----------------------------------------------------------------------------
(* The connection of a proto replica is open.                              *)

(***************************************************************************)
(* Who holds a reference on which address; the proto replicas in s belong  *)
(* to one; and a Register that has a proto binding left holds its own      *)
(* address.                                                                *)
(***************************************************************************)
HeldPairs == {p \in Ids \X Addrs : p[1] \in Holders(p[2])}
ProtoIn(s, H) ==
    \A k \in Keys : s[k] # NoSlot /\ s[k].spec.kind = "proto" =>
        \A r \in s[k].replicas : r.owner # Boot => <<r.owner, r.addr>> \in H
CallConn ==
    call # Idle => \A i \in 1..Len(call.todo) : call.todo[i].spec.kind = "proto" => call.conn = call.addr

LEMMA JoinProto ==
    ASSUME NEW s \in [Keys -> Entry], NEW d \in [Keys -> Reasons \cup {NoReason}], NEW k \in Keys,
           NEW spec \in Specs, NEW r \in Replica, NEW H, ProtoIn(s, H),
           spec.kind = "proto" /\ r.owner # Boot => <<r.owner, r.addr>> \in H
    PROVE  ProtoIn(Join(s, d, k, spec, r), H)
<1> DEFINE t == Join(s, d, k, spec, r)
<1>1. \A o \in Keys : o # k => t[o] = s[o] BY DEF Join
<1>2. t[k] = JoinedSlot(s[k], d[k], spec, r) BY DEF Join
<1>3. t[k].spec = spec /\ \/ t[k].replicas = {r}
                          \/ s[k] # NoSlot /\ s[k].spec = spec /\ t[k].replicas = s[k].replicas \cup {r}
  <2>1. CASE s[k] # NoSlot /\ s[k].spec = spec
    <3>1. s[k] \in SlotOf(Replica) BY <2>1 DEF Entry
    <3>2. t[k] = [s[k] EXCEPT !.replicas = @ \cup {r}] BY <1>2, <2>1 DEF JoinedSlot
    <3>3. t[k].spec = s[k].spec /\ t[k].replicas = s[k].replicas \cup {r} BY <3>1, <3>2 DEF SlotOf
    <3> QED BY <2>1, <3>3
  <2>2. CASE ~(s[k] # NoSlot /\ s[k].spec = spec) BY <1>2, <2>2 DEF JoinedSlot
  <2> QED BY <2>1, <2>2
<1> HIDE DEF t
<1>4. ProtoIn(t, H) BY <1>1, <1>3 DEF ProtoIn
<1> QED BY <1>4 DEF t

\* Without the replicas of id the references of id are not needed.
LEMMA RemoveProto ==
    ASSUME NEW s \in [Keys -> Entry], NEW id \in Ids, NEW H, ProtoIn(s, H),
           NEW G, \A p \in H : p[1] # id => p \in G
    PROVE  ProtoIn(RemoveReplicas(s, OwnedBy(id)), G)
<1> DEFINE R == OwnedBy(id)
           u == RemoveReplicas(s, R)
<1>1. ASSUME NEW k \in Keys, u[k] # NoSlot
      PROVE  /\ s[k] # NoSlot /\ u[k].spec = s[k].spec /\ s[k] \in SlotOf(Replica)
             /\ u[k].replicas \subseteq s[k].replicas \ R
  <2>1. s[k] # NoSlot /\ u[k].spec = s[k].spec BY <1>1, RemoveSpec
  <2>2. s[k] \in SlotOf(Replica) BY <2>1 DEF Entry
  <2>3. u[k] = WithoutReplicas(s[k], R) BY DEF RemoveReplicas
  <2> HIDE DEF R, u
  <2>4. CASE s[k].replicas \cap R = {} BY <2>1, <2>2, <2>3, <2>4 DEF WithoutReplicas
  <2>5. CASE s[k].replicas \cap R # {}
    <3>1. u[k] = [s[k] EXCEPT !.replicas = @ \ R] BY <1>1, <2>1, <2>3, <2>5 DEF WithoutReplicas
    <3>2. u[k].replicas = s[k].replicas \ R BY <2>2, <3>1 DEF SlotOf
    <3> QED BY <2>1, <2>2, <3>2
  <2> QED BY <2>4, <2>5
<1>2. ASSUME NEW k \in Keys, u[k] # NoSlot, NEW r \in u[k].replicas PROVE r \in s[k].replicas /\ r.owner # id
  <2>1. r \in s[k].replicas /\ r \notin R BY <1>1, <1>2
  <2>2. r \in Replica BY <1>1, <1>2, <2>1 DEF SlotOf
  <2> QED BY <2>1, <2>2 DEF OwnedBy
<1> HIDE DEF u
<1>3. ProtoIn(u, G)
  <2> SUFFICES ASSUME NEW k \in Keys, u[k] # NoSlot, u[k].spec.kind = "proto",
                      NEW r \in u[k].replicas, r.owner # Boot
               PROVE  <<r.owner, r.addr>> \in G
    BY DEF ProtoIn
  <2>1. <<r.owner, r.addr>> \in H BY <1>1, <1>2 DEF ProtoIn
  <2> QED BY <1>2, <2>1
<1> QED BY <1>3 DEF u

LEMMA ProtoMore == ASSUME NEW s, NEW H, NEW G, H \subseteq G, ProtoIn(s, H) PROVE ProtoIn(s, G)
BY DEF ProtoIn

\* A rollback gives back the reference of the call, and nobody else's.
LEMMA RollbackProto ==
    ASSUME TypeOK, IdsFresh, InLoop, NEW s \in [Keys -> Entry], NEW st, NEW rj, Rollback(s, st, rj),
           ProtoIn(s, HeldPairs)
    PROVE  ProtoIn(slots', HeldPairs') /\ CallConn'
<1>1. call.id \in Ids BY CallFacts
<1>2. slots' = RemoveReplicas(s, OwnedBy(call.id)) /\ call' = Idle /\ regs' = regs BY DEF Rollback, DropOwner
<1>3. \A p \in HeldPairs : p[1] # call.id => p \in HeldPairs' BY <1>2 DEF HeldPairs, Holders
<1> QED BY <1>1, <1>2, <1>3, RemoveProto DEF CallConn

LEMMA ProtoStep ==
    ASSUME TypeOK, IdsFresh, ProtoIn(slots, HeldPairs), CallConn, [Next]_vars
    PROVE  ProtoIn(slots', HeldPairs') /\ CallConn'
<1> DEFINE I == ProtoIn(slots, HeldPairs) /\ CallConn
<1> USE DEF gwVars, cpVars
<1>a. slots \in [Keys -> Entry] /\ deprecation \in [Keys -> Reasons \cup {NoReason}] BY DEF TypeOK, Entry
<1>1. CASE UNCHANGED <<slots, regs, call>> BY <1>1 DEF HeldPairs, Holders, CallConn
<1>2. ASSUME NEW id \in Ids, NEW a \in Addrs, NEW bs \in Requests, RegisterStart(id, a, bs) PROVE I'
  <2> DEFINE c == IF HasProto(bs) THEN a ELSE NoConn
  <2>1. /\ call = Idle /\ regs' = regs /\ slots' = slots
        /\ call' = [id |-> id, addr |-> a, conn |-> c, todo |-> bs]
    BY <1>2 DEF RegisterStart
  <2>2. call'.addr = a /\ call'.conn = c /\ call'.todo = bs BY <2>1
  <2>3. HeldPairs \subseteq HeldPairs' BY <2>1 DEF HeldPairs, Holders
  <2>4. CallConn' BY <2>2 DEF CallConn, HasProto
  <2> QED BY <2>1, <2>3, <2>4, ProtoMore
<1>3. ASSUME InLoop PROVE ProtoIn(Joined, HeldPairs)
  <2>1. call \in Call /\ call.id \in Ids /\ next.key \in Keys /\ next.spec \in Specs /\ CallReplica \in Replica
    BY <1>3, CallFacts
  <2>2. CallReplica.owner = call.id /\ CallReplica.addr = call.addr BY DEF CallReplica
  <2>3. call.todo \in Seq(Binding) /\ call.todo # <<>> /\ call.addr \in Addrs BY <1>3, <2>1 DEF Call, InLoop
  <2>4. next = call.todo[1] /\ 1 \in 1..Len(call.todo) BY <2>3 DEF next
  <2>5. next.spec.kind = "proto" => call.conn = call.addr BY <1>3, <2>4 DEF CallConn, InLoop
  <2>6. next.spec.kind = "proto" => <<call.id, call.addr>> \in HeldPairs
    BY <1>3, <2>1, <2>3, <2>5 DEF HeldPairs, Holders, InLoop
  <2> QED BY <1>a, <2>1, <2>2, <2>6, JoinProto DEF Joined
<1>4. CASE JoinExisting \/ JoinCreating
  <2>1. InLoop /\ slots' = Joined /\ call' = [call EXCEPT !.todo = Tail(@)] /\ regs' = regs
    BY <1>4 DEF JoinExisting, JoinCreating
  <2>2. call \in Call /\ call' \in Call BY <2>1, CallFacts
  <2>3. /\ call' # Idle /\ call'.id = call.id /\ call'.conn = call.conn /\ call'.addr = call.addr
        /\ call'.todo = Tail(call.todo)
    BY <2>1, <2>2, ControlPlaneAssumption DEF Call
  <2>4. HeldPairs' = HeldPairs BY <2>1, <2>3 DEF HeldPairs, Holders, InLoop
  <2>5. CallConn'
    <3>1. call.todo \in Seq(Binding) /\ call.todo # <<>> BY <2>1, <2>2 DEF Call, InLoop
    <3>2. \A i \in 1..Len(Tail(call.todo)) : i + 1 \in 1..Len(call.todo) /\ Tail(call.todo)[i] = call.todo[i + 1]
      BY <3>1
    <3> QED BY <2>1, <2>3, <3>2 DEF CallConn, InLoop
  <2> QED BY <1>3, <2>1, <2>4, <2>5
<1>5. CASE JoinRejected BY <1>5, <1>a, RollbackProto DEF JoinRejected
<1>6. CASE JoinInvalid
  <2> DEFINE s == [slots EXCEPT ![next.key] = NoSlot]
  <2>1. InLoop /\ Rollback(s, stableVN, rejectedJoins) BY <1>6 DEF JoinInvalid
  <2>2. s \in [Keys -> Entry] BY <1>a DEF Entry
  <2>3. ProtoIn(s, HeldPairs)
    <3>1. \A k \in Keys : s[k] = slots[k] \/ s[k] = NoSlot BY <1>a
    <3> HIDE DEF s
    <3> QED BY <3>1 DEF ProtoIn
  <2> HIDE DEF s
  <2> QED BY <2>1, <2>2, <2>3, RollbackProto
<1>7. CASE JoinUnbuildable
  <2>1. InLoop /\ Rollback(Joined, stableVN', rejectedJoins) BY <1>7 DEF JoinUnbuildable
  <2>2. Joined \in [Keys -> Entry] BY <2>1, JoinedType
  <2> QED BY <1>3, <2>1, <2>2, RollbackProto
<1>8. CASE RegisterCommit
  <2>1. /\ call # Idle /\ call' = Idle /\ slots' = slots
        /\ regs' = [regs EXCEPT ![call.id] = [conn |-> call.conn, age |-> 0]]
    BY <1>8 DEF RegisterCommit
  <2>2. call.id \in Ids /\ [conn |-> call.conn, age |-> 0] \in Registration
    BY <2>1, ControlPlaneAssumption DEF TypeOK, Call, Registration
  <2>3. regs'[call.id] # NoReg /\ regs'[call.id].conn = call.conn
    BY <2>1, <2>2, ControlPlaneAssumption DEF TypeOK
  <2>4. \A i \in Ids : i # call.id => regs'[i] = regs[i] BY <2>1, <2>2 DEF TypeOK
  <2>5. \A b \in Addrs : Holders(b)' = Holders(b) BY <2>1, <2>2, <2>3, <2>4 DEF Holders, IdsFresh
  <2>6. HeldPairs' = HeldPairs BY <2>5 DEF HeldPairs
  <2> QED BY <2>1, <2>6 DEF CallConn
<1>9. ASSUME UNCHANGED <<slots, call>>,
             \A i \in Ids : regs[i] # NoReg => regs'[i] # NoReg /\ regs'[i].conn = regs[i].conn
      PROVE  I'
  <2>1. HeldPairs \subseteq HeldPairs' BY <1>9 DEF HeldPairs, Holders
  <2> QED BY <1>9, <2>1, ProtoMore DEF CallConn
<1>10. ASSUME NEW id \in Ids, Heartbeat(id) PROVE I'
  <2>1. regs[id] # NoReg /\ regs' = [regs EXCEPT ![id].age = 0] /\ UNCHANGED <<slots, call>>
    BY <1>10 DEF Heartbeat
  <2>2. regs[id] \in Registration BY <2>1 DEF TypeOK
  <2>3. regs'[id] # NoReg /\ regs'[id].conn = regs[id].conn
    BY <2>1, <2>2, ControlPlaneAssumption DEF TypeOK, Registration
  <2>4. \A i \in Ids : i # id => regs'[i] = regs[i] BY <2>1 DEF TypeOK
  <2> QED BY <1>9, <2>1, <2>3, <2>4
<1>11. CASE Tick
  <2>1. UNCHANGED <<slots, call>> BY <1>11 DEF Tick
  <2>2. ASSUME NEW i \in Ids, regs[i] # NoReg PROVE regs'[i] # NoReg /\ regs'[i].conn = regs[i].conn
    <3>1. regs[i] \in Registration BY <2>2 DEF TypeOK
    <3>2. regs[i].age <= TTL =>
             /\ [regs[i] EXCEPT !.age = @ + 1] \in Registration
             /\ [regs[i] EXCEPT !.age = @ + 1].conn = regs[i].conn
      BY <3>1, ControlPlaneAssumption DEF Registration
    <3> QED BY <1>11, <2>2, <3>1, <3>2, ControlPlaneAssumption DEF Tick
  <2> QED BY <1>9, <2>1, <2>2
<1>12. ASSUME NEW id \in Ids, DeregisterBody(id) PROVE I'
  <2>1. /\ slots' = RemoveReplicas(slots, OwnedBy(id)) /\ call' = call /\ call = Idle
        /\ regs' = [regs EXCEPT ![id] = NoReg]
    BY <1>12 DEF DeregisterBody, DropOwner
  <2>2. \A i \in Ids : i # id => regs'[i] = regs[i] BY <2>1 DEF TypeOK
  <2>3. \A p \in HeldPairs : p[1] # id => p \in HeldPairs' BY <2>1, <2>2 DEF HeldPairs, Holders
  <2> QED BY <1>a, <2>1, <2>3, RemoveProto DEF CallConn
<1>13. ASSUME NEW id \in Ids, Deregister(id) \/ JanitorEvict(id) PROVE I'
  BY <1>1, <1>12, <1>13 DEF Deregister, JanitorEvict
<1>14. ASSUME NEW k \in Keys, NEW spec \in BootSpecs, AddProto(k, spec) PROVE I'
  <2> DEFINE r == [owner |-> Boot, addr |-> NoConn]
  <2>1. slots' = Join(slots, deprecation, k, spec, r) /\ UNCHANGED <<regs, call>> BY <1>14 DEF AddProto
  <2>2. spec \in Specs /\ r \in Replica /\ r.owner = Boot BY ControlPlaneAssumption DEF Replica
  <2> HIDE DEF r
  <2>3. ProtoIn(slots', HeldPairs) BY <1>a, <2>1, <2>2, JoinProto
  <2>4. HeldPairs' = HeldPairs BY <2>1 DEF HeldPairs, Holders
  <2> QED BY <2>1, <2>3, <2>4 DEF CallConn
<1>15. ASSUME NEW k \in Keys, NEW reason \in Reasons \cup {NoReason}, SetDeprecation(k, reason) PROVE I'
  <2>1. UNCHANGED <<regs, call>> BY <1>15 DEF SetDeprecation
  <2>2. slots[k] # NoSlot => /\ [slots[k] EXCEPT !.depr = reason].replicas = slots[k].replicas
                             /\ [slots[k] EXCEPT !.depr = reason].spec = slots[k].spec
    BY DEF TypeOK, SlotOf
  <2>3. \A o \in Keys : slots'[o] # NoSlot =>
           slots[o] # NoSlot /\ slots'[o].replicas = slots[o].replicas /\ slots'[o].spec = slots[o].spec
    BY <1>15, <2>2 DEF SetDeprecation, TypeOK
  <2>4. ProtoIn(slots', HeldPairs) BY <2>3 DEF ProtoIn
  <2>5. HeldPairs' = HeldPairs BY <2>1 DEF HeldPairs, Holders
  <2> QED BY <2>1, <2>4, <2>5 DEF CallConn
<1>16. CASE \/ Handler \/ JanitorScan \/ UNCHANGED vars
            \/ \E k \in Keys, spec \in BootSpecs : AddProtoLocked(k, spec)
            \/ \E ns \in Namespaces, target \in 1..MaxVN : RetractStable(ns, target)
  BY <1>1, <1>16 DEF Handler, JanitorScan, vars, AddProtoLocked, RetractStable
<1> QED
  BY <1>2, <1>4, <1>5, <1>6, <1>7, <1>8, <1>10, <1>11, <1>13, <1>14, <1>15, <1>16
     DEF Next, Register, Deprecate, Undeprecate

\* A counted reference is one on an open connection.
LEMMA HeldIsOpen ==
    ASSUME TypeOK, ConnRefsExact, ProtoIn(slots, HeldPairs) PROVE ReplicaConnOpen
<1> SUFFICES ASSUME NEW k \in LiveKeys(slots), slots[k].spec.kind = "proto",
                    NEW r \in slots[k].replicas, r.owner # Boot
             PROVE  conns[r.addr] > 0
  BY DEF ReplicaConnOpen
<1>1. <<r.owner, r.addr>> \in HeldPairs BY DEF ProtoIn, LiveKeys
<1>2. r.addr \in Addrs /\ r.owner \in Holders(r.addr) BY <1>1 DEF HeldPairs
<1>3. IsFiniteSet(Holders(r.addr)) BY HoldersFinite
<1>4. Cardinality(Holders(r.addr)) # 0 /\ Cardinality(Holders(r.addr)) \in Nat
  BY <1>2, <1>3, FS_EmptySet, FS_CardinalityType
<1> QED BY <1>2, <1>4 DEF ConnRefsExact

(***************************************************************************)
(* A proto replica that a registration added can be dispatched to at all   *)
(* times: the connection it shares with others is not closed under it by   *)
(* a rollback, a deregistration or an eviction of theirs                   *)
(* (acquireConnLocked, releaseConnLocked).                                 *)
(***************************************************************************)
THEOREM ReplicaConnOpenHolds == Spec => []ReplicaConnOpen
<1> DEFINE Backing == ProtoIn(slots, HeldPairs) /\ CallConn
<1>1. Init => Backing BY DEF Init, EmptyIndex, ProtoIn, CallConn
<1>2. TypeOK /\ IdsFresh /\ Backing /\ [Next]_vars => Backing' BY ProtoStep
<1>3. TypeOK /\ ConnRefsExact /\ Backing => ReplicaConnOpen BY HeldIsOpen
<1> QED BY <1>1, <1>2, <1>3, TypeCorrect, ConnInv, PTL DEF Spec

-----------------------------------------------------------------------------
(* The schema that is served is the one of the slot index.                 *)

(***************************************************************************)
(* ServedSchemaFresh speaks of the moments between two calls.  It is       *)
(* inductive only as a statement about every moment, together with the     *)
(* fact that the index can be rendered once it has been: otherwise the     *)
(* rebuild of a rollback would fail and leave the old schema.              *)
(***************************************************************************)
FreshInv == schema # NotBuilt => Buildable(slots) /\ schema = Render(slots, stableVN)

\* Two indexes that the renderer cannot tell apart: they differ in replicas.
SameView(s, t) ==
    \A k \in Keys : /\ s[k] = NoSlot <=> t[k] = NoSlot
                    /\ s[k] # NoSlot => t[k].spec = s[k].spec /\ t[k].depr = s[k].depr

\* The renderer reads services and deprecations, not replicas.
LEMMA SameRender ==
    ASSUME NEW s, NEW t, NEW st, SameView(s, t)
    PROVE  Render(t, st) = Render(s, st) /\ (Buildable(s) <=> Buildable(t))
<1>1. LiveKeys(t) = LiveKeys(s) BY DEF SameView, LiveKeys
<1>2. \A k \in Keys : (IF t[k] = NoSlot THEN NoSlot ELSE [spec |-> t[k].spec, depr |-> t[k].depr])
                    = (IF s[k] = NoSlot THEN NoSlot ELSE [spec |-> s[k].spec, depr |-> s[k].depr])
  BY DEF SameView
<1>3. Render(t, st) = Render(s, st) BY <1>1, <1>2, Zenon DEF Render
<1>4. Buildable(s) <=> Buildable(t) BY <1>1 DEF SameView, Buildable, LiveKeys
<1> QED BY <1>3, <1>4

\* A replica that joins a slot as it is registered.
LEMMA JoinExistingView ==
    ASSUME NEW s \in [Keys -> Entry], NEW d, NEW k \in Keys, NEW spec,
           NEW r \in Replica, Existed(s, k, spec)
    PROVE  SameView(s, Join(s, d, k, spec, r))
<1> DEFINE t == Join(s, d, k, spec, r)
<1>1. \A o \in Keys : o # k => t[o] = s[o] BY DEF Join
<1>2. s[k] # NoSlot /\ s[k].spec = spec /\ s[k] \in SlotOf(Replica)
  BY DEF Existed, Entry
<1>3. t[k] = [s[k] EXCEPT !.replicas = @ \cup {r}] BY <1>2 DEF Join, JoinedSlot
<1>4. t[k].spec = s[k].spec /\ t[k].depr = s[k].depr /\ t[k].replicas = s[k].replicas \cup {r}
  BY <1>2, <1>3 DEF SlotOf
<1>5. t[k] # NoSlot
  <2>1. t[k] \in SlotOf(Replica) BY <1>2, <1>3 DEF SlotOf
  <2> QED BY <2>1, ControlPlaneAssumption
<1> QED BY <1>1, <1>2, <1>4, <1>5 DEF SameView

\* A removal that empties no slot.
LEMMA RemoveView ==
    ASSUME NEW s \in [Keys -> Entry], NEW R, Released(s, R) = {}
    PROVE  SameView(s, RemoveReplicas(s, R))
<1> SUFFICES ASSUME NEW k \in Keys, s[k] # NoSlot
             PROVE  /\ WithoutReplicas(s[k], R) # NoSlot
                    /\ WithoutReplicas(s[k], R).spec = s[k].spec
                    /\ WithoutReplicas(s[k], R).depr = s[k].depr
  BY DEF SameView, RemoveReplicas, WithoutReplicas
<1>1. WithoutReplicas(s[k], R) # NoSlot BY DEF Released, LiveKeys
<1>2. s[k] \in SlotOf(Replica) BY DEF Entry
<1>3. /\ [s[k] EXCEPT !.replicas = @ \ R].spec = s[k].spec
      /\ [s[k] EXCEPT !.replicas = @ \ R].depr = s[k].depr
  BY <1>2 DEF SlotOf
<1> QED BY <1>1, <1>3 DEF WithoutReplicas

\* What is left of a renderable index can be rendered.
LEMMA RemoveBuildable ==
    ASSUME NEW s \in [Keys -> Entry], NEW R, Buildable(s)
    PROVE  Buildable(RemoveReplicas(s, R))
BY RemoveSpec DEF Buildable, LiveKeys

\* rollback() and Deregister rebuild whenever a slot went away.
LEMMA DropFresh ==
    ASSUME NEW s \in [Keys -> Entry], NEW id, NEW c, NEW st, DropOwner(id, c, s, st),
           stableVN' = st,
           schema # NotBuilt => Buildable(RemoveReplicas(s, OwnedBy(id))),
           schema # NotBuilt /\ Released(s, OwnedBy(id)) = {} => schema = Render(s, st)
    PROVE  FreshInv'
<1>1. slots' = RemoveReplicas(s, OwnedBy(id)) BY DEF DropOwner
<1>2. CASE schema = NotBuilt
  <2>1. schema' = NotBuilt BY <1>2 DEF DropOwner, AssembledIfServing
  <2> QED BY <2>1 DEF FreshInv
<1>3. CASE schema # NotBuilt /\ Released(s, OwnedBy(id)) = {}
  <2>1. schema' = Render(s, st) BY <1>3 DEF DropOwner
  <2>2. Render(slots', st) = Render(s, st) BY <1>1, <1>3, RemoveView, SameRender
  <2> QED BY <1>1, <1>3, <2>1, <2>2 DEF FreshInv
<1>4. CASE schema # NotBuilt /\ Released(s, OwnedBy(id)) # {}
  <2>1. schema' = Render(slots', st)
    BY <1>1, <1>4 DEF DropOwner, AssembledIfServing, Assembled
  <2> QED BY <1>1, <1>4, <2>1 DEF FreshInv
<1> QED BY <1>2, <1>3, <1>4

\* The index after an assembly that succeeds whenever something is served.
LEMMA AssembledFresh ==
    ASSUME schema # NotBuilt => Buildable(slots'),
           \/ schema' = AssembledIfServing(slots', stableVN')
           \/ schema' = Assembled(slots', stableVN')
    PROVE  FreshInv'
BY DEF AssembledIfServing, Assembled, FreshInv

\* Under the two hypotheses of ServedSchemaFreshHolds.
LEMMA FreshStep ==
    ASSUME BootSpecs \cap Unbuildable = {},
           "unstable" \notin AllowedTiers \/ BadSpecs = {},
           TypeOK, FreshInv, [Next]_vars
    PROVE  FreshInv'
<1> USE DEF gwVars, cpVars
<1>a. slots \in [Keys -> Entry] BY DEF TypeOK, Entry
<1>1. CASE UNCHANGED <<slots, stableVN, schema>> BY <1>1 DEF FreshInv
<1>2. CASE Handler
  BY <1>2, AssembledFresh DEF Handler
<1>3. CASE JoinExisting
  <2>1. /\ InLoop /\ Existed(slots, next.key, next.spec) /\ slots' = Joined
        /\ UNCHANGED <<stableVN, schema>>
    BY <1>3 DEF JoinExisting
  <2>2. SameView(slots, slots')
    BY <1>a, <2>1, CallFacts, JoinExistingView DEF Joined
  <2> QED BY <2>1, <2>2, SameRender DEF FreshInv
<1>4. CASE JoinCreating
  BY <1>4, AssembledFresh DEF JoinCreating
<1>5. CASE JoinRejected
  <2>1. DropOwner(call.id, call.conn, slots, stableVN) /\ stableVN' = stableVN
    BY <1>5 DEF JoinRejected, Rollback
  <2> QED BY <1>a, <2>1, RemoveBuildable, DropFresh DEF FreshInv
<1>6. CASE JoinInvalid
  <2> DEFINE s == [slots EXCEPT ![next.key] = NoSlot]
  <2>1. /\ InLoop /\ DropOwner(call.id, call.conn, s, stableVN) /\ stableVN' = stableVN
        /\ next.spec \in BadSpecs
        /\ ~Rejected(slots, next.key, next.spec) /\ ~Existed(slots, next.key, next.spec)
    BY <1>6 DEF JoinInvalid, Rollback
  <2>2. ~IsUnstable(next.key) BY <2>1 DEF Rejected, TierAllowed
  <2>3. slots[next.key] = NoSlot BY <2>1, <2>2 DEF Rejected, Existed, Locked
  <2>4. s = slots BY <1>a, <2>3
  <2> QED BY <1>a, <2>1, <2>4, RemoveBuildable, DropFresh DEF FreshInv
<1>7. CASE JoinUnbuildable
  <2>1. /\ InLoop /\ DropOwner(call.id, call.conn, Joined, stableVN')
        /\ schema # NotBuilt /\ ~Existed(slots, next.key, next.spec)
    BY <1>7 DEF JoinUnbuildable, Rollback
  <2>2. next.key \in Keys /\ CallReplica \in Replica /\ CallReplica \in OwnedBy(call.id)
    BY <2>1, CallFacts DEF CallReplica, OwnedBy
  <2>3. \A o \in Keys : o # next.key => Joined[o] = slots[o]
    BY <1>a, <2>2 DEF Joined, Join
  <2>4. Joined[next.key] = [spec |-> next.spec,
                            depr |-> IF slots[next.key] = NoSlot
                                     THEN deprecation[next.key] ELSE NoReason,
                            replicas |-> {CallReplica}]
    BY <1>a, <2>1, <2>2 DEF Joined, Join, JoinedSlot, Existed
  <2>5. Joined[next.key].replicas = {CallReplica} /\ Joined[next.key] # NoSlot
    <3>1. Joined[next.key] \in Entry /\ Joined[next.key].replicas = {CallReplica}
      BY <2>1, <2>2, <2>4, JoinedType
    <3>2. Joined[next.key] \in SlotOf(Replica)
      BY <2>2, <2>4, CallFacts, <2>1 DEF SlotOf, TypeOK
    <3> QED BY <3>1, <3>2, ControlPlaneAssumption
  <2>6. WithoutReplicas(Joined[next.key], OwnedBy(call.id)) = NoSlot
    BY <2>2, <2>5 DEF WithoutReplicas
  <2>7. next.key \in Released(Joined, OwnedBy(call.id))
    BY <2>2, <2>5, <2>6 DEF Released, LiveKeys
  <2>8. Buildable(RemoveReplicas(Joined, OwnedBy(call.id)))
    <3>1. RemoveReplicas(Joined, OwnedBy(call.id))[next.key] = NoSlot
      BY <2>2, <2>6 DEF RemoveReplicas
    <3>2. \A o \in LiveKeys(RemoveReplicas(Joined, OwnedBy(call.id))) :
             /\ o # next.key /\ Joined[o] # NoSlot
             /\ RemoveReplicas(Joined, OwnedBy(call.id))[o].spec = Joined[o].spec
      BY <2>1, <3>1, JoinedType, RemoveSpec DEF LiveKeys
    <3> QED BY <2>1, <2>3, <3>2 DEF Buildable, LiveKeys, FreshInv
  <2> QED BY <2>1, <2>7, <2>8, JoinedType, DropFresh
<1>8. ASSUME NEW k \in Keys, NEW spec \in BootSpecs, AddProto(k, spec)
      PROVE  FreshInv'
  <2> DEFINE r == [owner |-> Boot, addr |-> NoConn]
  <2>1. slots' = Join(slots, deprecation, k, spec, r) /\ r \in Replica
    BY <1>8 DEF AddProto, Replica
  <2>2. CASE Existed(slots, k, spec)
    <3>1. UNCHANGED <<stableVN, schema>> BY <1>8, <2>2 DEF AddProto
    <3>2. SameView(slots, slots') BY <1>a, <2>1, <2>2, JoinExistingView
    <3> QED BY <3>1, <3>2, SameRender DEF FreshInv
  <2>3. CASE ~Existed(slots, k, spec)
    <3>1. schema' = AssembledIfServing(slots', stableVN') BY <1>8, <2>3 DEF AddProto
    <3>2. \A o \in Keys : o # k => slots'[o] = slots[o] BY <1>a, <2>1 DEF Join
    <3>3. slots'[k].spec = spec BY <1>a, <2>1, <2>3 DEF Join, JoinedSlot, Existed
    <3>4. schema # NotBuilt => Buildable(slots')
      BY <3>2, <3>3 DEF Buildable, LiveKeys, FreshInv
    <3> QED BY <3>1, <3>4, AssembledFresh
  <2> QED BY <2>2, <2>3
<1>9. ASSUME NEW id \in Ids, DeregisterBody(id) PROVE FreshInv'
  <2>1. DropOwner(id, regs[id].conn, slots, stableVN) /\ stableVN' = stableVN
    BY <1>9 DEF DeregisterBody
  <2> QED BY <1>a, <2>1, RemoveBuildable, DropFresh DEF FreshInv
<1>10. ASSUME NEW ns \in Namespaces, NEW target \in 1..MaxVN, RetractStable(ns, target)
       PROVE  FreshInv'
  <2>1. slots' = slots /\ schema' = Assembled(slots', stableVN')
    BY <1>10 DEF RetractStable
  <2> QED BY <2>1, AssembledFresh DEF FreshInv
<1>11. ASSUME NEW k \in Keys, NEW reason, SetDeprecation(k, reason) PROVE FreshInv'
  <2>1. CASE slots[k] = NoSlot
    BY <1>1, <1>11, <2>1 DEF SetDeprecation
  <2>2. CASE slots[k] # NoSlot
    <3>1. /\ slots' = [slots EXCEPT ![k].depr = reason]
          /\ schema' = Assembled(slots', stableVN') /\ stableVN' = stableVN
      BY <1>11, <2>2 DEF SetDeprecation
    <3>2. [slots[k] EXCEPT !.depr = reason].spec = slots[k].spec
      BY <2>2 DEF TypeOK, SlotOf
    <3>3. \A o \in Keys : slots'[o] # NoSlot =>
             slots[o] # NoSlot /\ slots'[o].spec = slots[o].spec
      BY <1>a, <2>2, <3>1, <3>2
    <3>4. schema # NotBuilt => Buildable(slots')
      BY <3>3 DEF Buildable, LiveKeys, FreshInv
    <3> QED BY <3>1, <3>4, AssembledFresh
  <2> QED BY <2>1, <2>2
<1>12. ASSUME NEW id \in Ids, Heartbeat(id) \/ Deregister(id) \/ JanitorEvict(id)
       PROVE  FreshInv'
  BY <1>1, <1>9, <1>12 DEF Heartbeat, Deregister, JanitorEvict
<1>13. CASE \/ RegisterCommit \/ Tick \/ JanitorScan \/ UNCHANGED vars
            \/ \E id \in Ids, a \in Addrs, bs \in Requests : RegisterStart(id, a, bs)
            \/ \E k \in Keys, spec \in BootSpecs : AddProtoLocked(k, spec)
  BY <1>1, <1>13 DEF RegisterCommit, Tick, JanitorScan, vars, RegisterStart, AddProtoLocked
<1> QED
  BY <1>2, <1>3, <1>4, <1>5, <1>6, <1>7, <1>8, <1>10, <1>11, <1>12, <1>13
     DEF Next, Register, Deprecate, Undeprecate

(***************************************************************************)
(* No registration, rollback, eviction, retract or deprecation forgets the *)
(* rebuild: between two Register calls readers of the schema see the slot  *)
(* index as it is.  Two hypotheses, both of which the code leaves to the   *)
(* caller: AddProto is not given a file that no schema can be built with   *)
(* (it does not roll back), and no unstable slot is swapped for a source   *)
(* that fails validation (the swap is not undone, and no rebuild follows). *)
(***************************************************************************)
THEOREM ServedSchemaFreshHolds ==
    ASSUME BootSpecs \cap Unbuildable = {},
           "unstable" \notin AllowedTiers \/ BadSpecs = {}
    PROVE  Spec => []ServedSchemaFresh
<1>1. Init => FreshInv BY DEF Init, FreshInv
<1>2. TypeOK /\ FreshInv /\ [Next]_vars => FreshInv' BY FreshStep
<1>3. FreshInv => ServedSchemaFresh BY DEF FreshInv, ServedSchemaFresh
<1> QED BY <1>1, <1>2, <1>3, TypeCorrect, PTL DEF Spec

-----------------------------------------------------------------------------
(* Registrations are all or nothing: ControlPlane implements Membership.   *)

\* ServedKeys in slot index s, and the keys of a list of bindings.
KeysServed(s, id) == {k \in LiveKeys(s) : \E r \in s[k].replicas : r.owner = id}
KeysIn(bs) == {bs[i].key : i \in 1..Len(bs)}
Distinct(bs) == \A i, j \in 1..Len(bs) : i # j => bs[i].key # bs[j].key

\* The refinement mapping.
Served == [id \in Ids |-> IF regs[id] = NoReg THEN {} ELSE KeysServed(slots, id)]

(***************************************************************************)
(* What Register's loop keeps: the keys joined so far and the keys that    *)
(* are still to be joined make up the request, and no key is in both.      *)
(***************************************************************************)
LoopInv ==
    call # Idle =>
        /\ \E bs \in Requests : KeysIn(bs) = KeysServed(slots, call.id) \cup KeysIn(call.todo)
        /\ KeysServed(slots, call.id) \cap KeysIn(call.todo) = {}
        /\ Distinct(call.todo)

\* Taking the next binding off the list.
LEMMA TodoTail ==
    ASSUME NEW bs \in Seq(Binding), bs # <<>>, Distinct(bs)
    PROVE  /\ KeysIn(bs) = {Head(bs).key} \cup KeysIn(Tail(bs))
           /\ Head(bs).key \notin KeysIn(Tail(bs))
           /\ Distinct(Tail(bs))
<1>1. /\ Len(bs) \in Nat /\ Len(bs) > 0 /\ Head(bs) = bs[1]
      /\ Len(Tail(bs)) = Len(bs) - 1
      /\ \A i \in 1..Len(Tail(bs)) : Tail(bs)[i] = bs[i + 1]
  OBVIOUS
<1>2. Distinct(Tail(bs)) BY <1>1 DEF Distinct
<1>3. Head(bs).key \notin KeysIn(Tail(bs)) BY <1>1 DEF Distinct, KeysIn
<1>4. KeysIn(bs) \subseteq {Head(bs).key} \cup KeysIn(Tail(bs))
  <2> SUFFICES ASSUME NEW i \in 1..Len(bs), i # 1 PROVE bs[i].key \in KeysIn(Tail(bs))
    BY <1>1 DEF KeysIn
  <2>1. i - 1 \in 1..Len(Tail(bs)) /\ Tail(bs)[i - 1] = bs[i] BY <1>1
  <2> QED BY <2>1 DEF KeysIn
<1>5. {Head(bs).key} \cup KeysIn(Tail(bs)) \subseteq KeysIn(bs)
  <2>1. Head(bs).key \in KeysIn(bs) BY <1>1 DEF KeysIn
  <2>2. ASSUME NEW i \in 1..Len(Tail(bs)) PROVE Tail(bs)[i].key \in KeysIn(bs)
    <3>1. i + 1 \in 1..Len(bs) BY <1>1
    <3> QED BY <1>1, <3>1 DEF KeysIn
  <2> QED BY <2>1, <2>2 DEF KeysIn
<1> QED BY <1>2, <1>3, <1>4, <1>5

\* A join gives its owner the key, and takes it from the others if it swaps.
LEMMA JoinServed ==
    ASSUME NEW s \in [Keys -> Entry], NEW d \in [Keys -> Reasons \cup {NoReason}],
           NEW k \in Keys, NEW spec \in Specs, NEW r \in Replica, NEW m
    PROVE  KeysServed(Join(s, d, k, spec, r), m)
             = IF m = r.owner THEN KeysServed(s, m) \cup {k}
               ELSE IF Existed(s, k, spec) THEN KeysServed(s, m)
               ELSE KeysServed(s, m) \ {k}
<1> DEFINE t == Join(s, d, k, spec, r)
<1>1. \A o \in Keys : o # k => t[o] = s[o] BY DEF Join
<1>2. t[k] = JoinedSlot(s[k], d[k], spec, r) BY DEF Join
<1>3. t[k] # NoSlot
  <2>1. CASE Existed(s, k, spec)
    <3>1. s[k] \in SlotOf(Replica) BY <2>1 DEF Existed, Entry
    <3>2. [s[k] EXCEPT !.replicas = @ \cup {r}] \in SlotOf(Replica) BY <3>1 DEF SlotOf
    <3> QED BY <1>2, <2>1, <3>2, ControlPlaneAssumption DEF JoinedSlot, Existed
  <2>2. CASE ~Existed(s, k, spec)
    <3>1. t[k] = [spec |-> spec, depr |-> IF s[k] = NoSlot THEN d[k] ELSE NoReason,
                  replicas |-> {r}]
      BY <1>2, <2>2 DEF JoinedSlot, Existed
    <3>2. t[k] \in SlotOf(Replica) BY <3>1 DEF SlotOf
    <3> QED BY <3>2, ControlPlaneAssumption
  <2> QED BY <2>1, <2>2
<1>4. CASE Existed(s, k, spec)
  <2>1. s[k] # NoSlot /\ s[k] \in SlotOf(Replica) BY <1>4 DEF Existed, Entry
  <2>2. t[k].replicas = s[k].replicas \cup {r}
    BY <1>2, <1>4, <2>1 DEF JoinedSlot, Existed, SlotOf
  <2> QED BY <1>1, <1>3, <1>4, <2>1, <2>2 DEF KeysServed, LiveKeys
<1>5. CASE ~Existed(s, k, spec)
  <2>1. t[k].replicas = {r} BY <1>2, <1>5 DEF JoinedSlot, Existed
  <2> QED BY <1>1, <1>3, <1>5, <2>1 DEF KeysServed, LiveKeys
<1> QED BY <1>4, <1>5

\* A registration that leaves loses all its keys, and nobody else one.
LEMMA RemoveServed ==
    ASSUME NEW s \in [Keys -> Entry], NEW id, NEW m
    PROVE  KeysServed(RemoveReplicas(s, OwnedBy(id)), m) = IF m = id THEN {} ELSE KeysServed(s, m)
<1> DEFINE t == RemoveReplicas(s, OwnedBy(id))
<1>1. ASSUME NEW k \in Keys
      PROVE  (t[k] # NoSlot /\ \E r \in t[k].replicas : r.owner = m)
               <=> (m # id /\ s[k] # NoSlot /\ \E r \in s[k].replicas : r.owner = m)
  <2>1. t[k] = WithoutReplicas(s[k], OwnedBy(id)) BY DEF RemoveReplicas
  <2>2. CASE s[k] = NoSlot BY <2>1, <2>2 DEF WithoutReplicas
  <2>3. CASE s[k] # NoSlot
    <3>1. s[k] \in SlotOf(Replica) /\ s[k].replicas \subseteq Replica
      BY <2>3 DEF Entry, SlotOf
    <3>2. \A r \in s[k].replicas : r.owner = id <=> r \in OwnedBy(id)
      BY <3>1 DEF OwnedBy
    <3>3. [s[k] EXCEPT !.replicas = @ \ OwnedBy(id)].replicas = s[k].replicas \ OwnedBy(id)
      BY <3>1 DEF SlotOf
    <3>4. CASE s[k].replicas \subseteq OwnedBy(id)
      BY <2>1, <2>3, <3>2, <3>4 DEF WithoutReplicas
    <3>5. CASE ~(s[k].replicas \subseteq OwnedBy(id))
      <4>1. t[k] # NoSlot /\ t[k].replicas = s[k].replicas \ OwnedBy(id)
        <5>1. CASE s[k].replicas \cap OwnedBy(id) = {}
          BY <2>1, <2>3, <5>1 DEF WithoutReplicas
        <5>2. CASE s[k].replicas \cap OwnedBy(id) # {}
          <6>1. t[k] = [s[k] EXCEPT !.replicas = @ \ OwnedBy(id)]
            BY <2>1, <2>3, <3>5, <5>2 DEF WithoutReplicas
          <6>2. t[k] \in SlotOf(Replica) BY <3>1, <6>1 DEF SlotOf
          <6> QED BY <3>3, <6>1, <6>2, ControlPlaneAssumption
        <5> QED BY <5>1, <5>2
      <4> QED BY <2>3, <3>2, <4>1
    <3> QED BY <3>4, <3>5
  <2> QED BY <2>2, <2>3
<1> QED BY <1>1 DEF KeysServed, LiveKeys

\* Deleting a slot takes its key from everybody.
LEMMA DeleteServed ==
    ASSUME NEW s \in [Keys -> Entry], NEW k \in Keys, NEW m
    PROVE  KeysServed([s EXCEPT ![k] = NoSlot], m) = KeysServed(s, m) \ {k}
BY DEF KeysServed, LiveKeys

\* The actions of Membership, seen through the mapping.
LEMMA AbstractSteps ==
    /\ \A k \in Keys : IsUnstable(k) /\ Served' = [m \in Ids |-> Served[m] \ {k}]
                        => Registrations!Next
    /\ \A m \in Ids : Served' = [Served EXCEPT ![m] = {}] => Registrations!Next
    /\ \A m \in Ids, bs \in Requests :
           Served[m] = {} /\ Served' = [Served EXCEPT ![m] = KeysIn(bs)] => Registrations!Next
<1>1. /\ Served = [id \in Ids |-> IF regs[id] = NoReg THEN {} ELSE ServedKeys(id)]
      /\ Served' = [id \in Ids |-> IF regs'[id] = NoReg THEN {} ELSE ServedKeys(id)']
  BY DEF Served, KeysServed, ServedKeys
<1>2. ASSUME NEW k \in Keys, IsUnstable(k), Served' = [m \in Ids |-> Served[m] \ {k}]
      PROVE  Registrations!Next
  <2>1. Registrations!Swap(k) BY <1>1, <1>2 DEF Registrations!Swap
  <2> QED BY <1>2, <2>1 DEF Registrations!Next
<1>3. ASSUME NEW m \in Ids, Served' = [Served EXCEPT ![m] = {}]
      PROVE  Registrations!Next
  <2>1. Registrations!Leave(m) BY <1>1, <1>3 DEF Registrations!Leave
  <2> QED BY <2>1 DEF Registrations!Next
<1>4. ASSUME NEW m \in Ids, NEW bs \in Requests,
             Served[m] = {}, Served' = [Served EXCEPT ![m] = KeysIn(bs)]
      PROVE  Registrations!Next
  <2>1. Registrations!Join(m, KeysIn(bs)) BY <1>1, <1>4 DEF Registrations!Join
  <2> QED BY <2>1 DEF Registrations!Next, KeysIn
<1> QED BY <1>2, <1>3, <1>4

\* A step that takes one key of an unstable slot, or of no slot, from everybody.
LEMMA SwapStep ==
    ASSUME TypeOK, regs' = regs, NEW k \in Keys, IsUnstable(k) \/ slots[k] = NoSlot,
           \A m \in Ids : regs[m] # NoReg => KeysServed(slots', m) = KeysServed(slots, m) \ {k}
    PROVE  [Registrations!Next]_Served
<1>1. CASE IsUnstable(k)
  <2>1. Served' = [m \in Ids |-> Served[m] \ {k}] BY DEF Served
  <2> QED BY <1>1, <2>1, AbstractSteps
<1>2. CASE slots[k] = NoSlot
  <2>1. \A m \in Ids : k \notin KeysServed(slots, m) BY <1>2 DEF KeysServed, LiveKeys
  <2>2. Served' = Served BY <2>1 DEF Served
  <2> QED BY <2>2
<1> QED BY <1>1, <1>2

\* A step after which every registration is served what it was served before.
LEMMA SameServed ==
    ASSUME \A m \in Ids : regs'[m] = NoReg <=> regs[m] = NoReg,
           \A m \in Ids : regs[m] # NoReg => KeysServed(slots', m) = KeysServed(slots, m)
    PROVE  [Registrations!Next]_Served
<1>1. Served' = Served BY DEF Served
<1> QED BY <1>1

\* A slot that is joined without being refused: it was free, unstable or the same.
LEMMA NotRejected ==
    ASSUME NEW s, NEW k, NEW spec, ~Rejected(s, k, spec), ~Existed(s, k, spec)
    PROVE  IsUnstable(k) \/ s[k] = NoSlot
BY DEF Rejected, Existed, Locked

\* An id that is neither registered nor registering is served nowhere.
LEMMA FreshServed ==
    ASSUME SlotsBacked, NEW id \in Ids, ~Owner(id)
    PROVE  KeysServed(slots, id) = {}
BY ControlPlaneAssumption DEF SlotsBacked, KeysServed, LiveKeys

\* The loop's own key after a join, and everybody else's.
LEMMA JoinStep ==
    ASSUME TypeOK, TypeOK', IdsFresh, LoopInv, JoinExisting \/ JoinCreating
    PROVE  LoopInv' /\ [Registrations!Next]_Served
<1>1. /\ InLoop /\ slots' = Joined /\ regs' = regs
      /\ call' = [call EXCEPT !.todo = Tail(@)]
      /\ ~Rejected(slots, next.key, next.spec)
  BY DEF JoinExisting, JoinCreating
<1>2. /\ call' # Idle /\ call'.id = call.id /\ call'.todo = Tail(call.todo)
      /\ call.todo \in Seq(Binding) /\ call.todo # <<>> /\ call # Idle
  BY <1>1, CallFacts, ControlPlaneAssumption DEF Call, InLoop
<1>3. /\ next.key \in Keys /\ next.spec \in Specs /\ call.id \in Ids
      /\ CallReplica \in Replica /\ CallReplica.owner = call.id
  BY <1>1, CallFacts DEF CallReplica
<1>4. slots \in [Keys -> Entry] /\ deprecation \in [Keys -> Reasons \cup {NoReason}]
  BY DEF TypeOK, Entry
<1>5. /\ KeysServed(slots', call.id) = KeysServed(slots, call.id) \cup {next.key}
      /\ \A m \in Ids : m # call.id =>
           KeysServed(slots', m) = IF Existed(slots, next.key, next.spec)
                                   THEN KeysServed(slots, m)
                                   ELSE KeysServed(slots, m) \ {next.key}
  <2> SUFFICES ASSUME NEW m \in Ids
               PROVE  KeysServed(Joined, m)
                        = IF m = call.id THEN KeysServed(slots, m) \cup {next.key}
                          ELSE IF Existed(slots, next.key, next.spec) THEN KeysServed(slots, m)
                          ELSE KeysServed(slots, m) \ {next.key}
    BY <1>1, <1>3
  <2> DEFINE k == next.key
             spec == next.spec
             r == CallReplica
  <2>1. k \in Keys /\ spec \in Specs /\ r \in Replica /\ r.owner = call.id BY <1>3
  <2> HIDE DEF k, spec, r
  <2>2. KeysServed(Join(slots, deprecation, k, spec, r), m)
          = IF m = r.owner THEN KeysServed(slots, m) \cup {k}
            ELSE IF Existed(slots, k, spec) THEN KeysServed(slots, m)
            ELSE KeysServed(slots, m) \ {k}
    BY <1>4, <2>1, JoinServed
  <2> QED BY <2>1, <2>2 DEF Joined, k, spec, r
<1>6. LoopInv'
  <2>1. /\ KeysIn(call.todo) = {next.key} \cup KeysIn(call'.todo)
        /\ next.key \notin KeysIn(call'.todo)
        /\ Distinct(call'.todo)
    BY <1>2, TodoTail DEF LoopInv, next
  <2>2. PICK bs \in Requests : KeysIn(bs) = KeysServed(slots, call.id) \cup KeysIn(call.todo)
    BY <1>2 DEF LoopInv
  <2>3. KeysServed(slots, call.id) \cap KeysIn(call.todo) = {} BY <1>2 DEF LoopInv
  <2>4. KeysIn(bs) = KeysServed(slots', call'.id) \cup KeysIn(call'.todo)
    BY <1>2, <1>5, <2>1, <2>2
  <2>5. KeysServed(slots', call'.id) \cap KeysIn(call'.todo) = {}
    BY <1>2, <1>5, <2>1, <2>3
  <2> QED BY <2>1, <2>4, <2>5 DEF LoopInv
<1>7. \A m \in Ids : regs[m] # NoReg => m # call.id BY <1>2 DEF IdsFresh
<1>8. CASE Existed(slots, next.key, next.spec)
  BY <1>1, <1>5, <1>6, <1>7, <1>8, SameServed
<1>9. CASE ~Existed(slots, next.key, next.spec)
  <2>1. IsUnstable(next.key) \/ slots[next.key] = NoSlot BY <1>1, <1>9, NotRejected
  <2> QED BY <1>1, <1>3, <1>5, <1>6, <1>7, <1>9, <2>1, SwapStep
<1> QED BY <1>8, <1>9

\* rollback() takes from the others at most the unstable slot it evicted.
LEMMA RollbackStep ==
    ASSUME TypeOK, IdsFresh, JoinRejected \/ JoinInvalid \/ JoinUnbuildable
    PROVE  LoopInv' /\ [Registrations!Next]_Served
<1>1. PICK s, st, rj : InLoop /\ Rollback(s, st, rj)
  BY DEF JoinRejected, JoinInvalid, JoinUnbuildable
<1>2. call' = Idle /\ regs' = regs BY <1>1 DEF Rollback
<1>3. LoopInv' BY <1>2 DEF LoopInv
<1>4. \A m \in Ids : regs[m] # NoReg => m # call.id BY <1>1 DEF IdsFresh, InLoop
<1>5. slots \in [Keys -> Entry] /\ deprecation \in [Keys -> Reasons \cup {NoReason}]
  BY DEF TypeOK, Entry
<1>6. CASE JoinRejected
  <2>1. slots' = RemoveReplicas(slots, OwnedBy(call.id))
    BY <1>6 DEF JoinRejected, Rollback, DropOwner
  <2>2. \A m \in Ids : regs[m] # NoReg => KeysServed(slots', m) = KeysServed(slots, m)
    BY <1>4, <1>5, <2>1, RemoveServed
  <2> QED BY <1>2, <1>3, <2>2, SameServed
<1>7. CASE JoinInvalid
  <2> DEFINE t == [slots EXCEPT ![next.key] = NoSlot]
  <2>1. /\ slots' = RemoveReplicas(t, OwnedBy(call.id))
        /\ ~Rejected(slots, next.key, next.spec) /\ ~Existed(slots, next.key, next.spec)
    BY <1>7 DEF JoinInvalid, Rollback, DropOwner
  <2>2. next.key \in Keys /\ t \in [Keys -> Entry] BY <1>1, <1>5, CallFacts DEF Entry
  <2>3. \A m \in Ids : regs[m] # NoReg => KeysServed(slots', m) = KeysServed(slots, m) \ {next.key}
    <3> SUFFICES ASSUME NEW m \in Ids, regs[m] # NoReg
                 PROVE  KeysServed(slots', m) = KeysServed(slots, m) \ {next.key}
      OBVIOUS
    <3>1. KeysServed(t, m) = KeysServed(slots, m) \ {next.key}
      BY <1>5, <2>2, DeleteServed
    <3> HIDE DEF t
    <3>2. KeysServed(slots', m) = KeysServed(t, m) BY <1>4, <2>1, <2>2, RemoveServed
    <3> QED BY <3>1, <3>2
  <2>4. IsUnstable(next.key) \/ slots[next.key] = NoSlot BY <2>1, NotRejected
  <2> QED BY <1>2, <1>3, <2>2, <2>3, <2>4, SwapStep
<1>8. CASE JoinUnbuildable
  <2>1. /\ slots' = RemoveReplicas(Joined, OwnedBy(call.id))
        /\ ~Rejected(slots, next.key, next.spec) /\ ~Existed(slots, next.key, next.spec)
    BY <1>8 DEF JoinUnbuildable, Rollback, DropOwner
  <2>2. /\ next.key \in Keys /\ next.spec \in Specs /\ CallReplica \in Replica
        /\ CallReplica.owner = call.id /\ Joined \in [Keys -> Entry]
    BY <1>1, CallFacts, JoinedType DEF CallReplica
  <2>3. \A m \in Ids : regs[m] # NoReg => KeysServed(slots', m) = KeysServed(slots, m) \ {next.key}
    <3> SUFFICES ASSUME NEW m \in Ids, regs[m] # NoReg
                 PROVE  KeysServed(slots', m) = KeysServed(slots, m) \ {next.key}
      OBVIOUS
    <3>1. KeysServed(slots', m) = KeysServed(Joined, m) BY <1>4, <2>1, <2>2, RemoveServed
    <3>2. KeysServed(Joined, m) = KeysServed(slots, m) \ {next.key}
      BY <1>4, <1>5, <2>1, <2>2, JoinServed DEF Joined
    <3> QED BY <3>1, <3>2
  <2>4. IsUnstable(next.key) \/ slots[next.key] = NoSlot BY <2>1, NotRejected
  <2> QED BY <1>2, <1>3, <2>2, <2>3, <2>4, SwapStep
<1> QED BY <1>6, <1>7, <1>8

\* A step of the control plane is one of Membership, or leaves its state alone.
LEMMA MembershipStep ==
    ASSUME TypeOK, TypeOK', SlotsBacked, SlotsBacked', IdsFresh, LoopInv, [Next]_vars
    PROVE  LoopInv' /\ [Registrations!Next]_Served
<1> USE DEF gwVars, cpVars
<1>a. slots \in [Keys -> Entry] BY DEF TypeOK, Entry
<1>1. ASSUME UNCHANGED <<slots, call>>, \A m \in Ids : regs'[m] = NoReg <=> regs[m] = NoReg
      PROVE  LoopInv' /\ [Registrations!Next]_Served
  BY <1>1, SameServed DEF LoopInv
<1>2. ASSUME NEW id \in Ids, NEW a \in Addrs, NEW bs \in Requests, RegisterStart(id, a, bs)
      PROVE  LoopInv' /\ [Registrations!Next]_Served
  <2>1. /\ call = Idle /\ id \notin issued /\ ValidRequest(bs) /\ UNCHANGED <<slots, regs>>
        /\ call'.id = id /\ call'.todo = bs
    BY <1>2 DEF RegisterStart
  <2>2. KeysServed(slots', call'.id) = {} BY <2>1, FreshServed DEF Owner, IdsFresh
  <2>3. Distinct(call'.todo) BY <2>1 DEF ValidRequest, Distinct
  <2>4. LoopInv' BY <2>1, <2>2, <2>3 DEF LoopInv
  <2> QED BY <2>1, <2>4, SameServed
<1>3. CASE JoinExisting \/ JoinCreating BY <1>3, JoinStep
<1>4. CASE JoinRejected \/ JoinInvalid \/ JoinUnbuildable BY <1>4, RollbackStep
<1>5. CASE RegisterCommit
  <2>1. /\ call # Idle /\ call.todo = <<>> /\ call' = Idle /\ slots' = slots
        /\ regs' = [regs EXCEPT ![call.id] = [conn |-> call.conn, age |-> 0]]
    BY <1>5 DEF RegisterCommit
  <2>2. call.id \in Ids /\ [conn |-> call.conn, age |-> 0] \in Registration
    BY <2>1, ControlPlaneAssumption DEF TypeOK, Call, Registration
  <2>3. regs'[call.id] # NoReg /\ \A m \in Ids : m # call.id => regs'[m] = regs[m]
    BY <2>1, <2>2, ControlPlaneAssumption DEF TypeOK
  <2>4. KeysIn(call.todo) = {} BY <2>1 DEF KeysIn
  <2>5. PICK bs \in Requests : KeysIn(bs) = KeysServed(slots, call.id)
    BY <2>1, <2>4 DEF LoopInv
  <2>6. regs[call.id] = NoReg BY <2>1 DEF IdsFresh
  <2>7. Served' = [Served EXCEPT ![call.id] = KeysServed(slots, call.id)] /\ Served[call.id] = {}
    BY <2>1, <2>2, <2>3, <2>6 DEF Served
  <2>8. Registrations!Next BY <2>2, <2>5, <2>7, AbstractSteps
  <2> QED BY <2>1, <2>8 DEF LoopInv
<1>6. ASSUME NEW k \in Keys, NEW spec \in BootSpecs, AddProto(k, spec)
      PROVE  LoopInv' /\ [Registrations!Next]_Served
  <2> DEFINE r == [owner |-> Boot, addr |-> NoConn]
  <2>1. /\ slots' = Join(slots, deprecation, k, spec, r) /\ r \in Replica /\ r.owner = Boot
        /\ call = Idle /\ UNCHANGED <<regs, call>> /\ ~Rejected(slots, k, spec) /\ spec \in Specs
    BY <1>6, ControlPlaneAssumption DEF AddProto, Replica
  <2>2. \A m \in Ids : KeysServed(slots', m) = IF Existed(slots, k, spec)
                                                 THEN KeysServed(slots, m)
                                                 ELSE KeysServed(slots, m) \ {k}
    <3>1. deprecation \in [Keys -> Reasons \cup {NoReason}] BY DEF TypeOK
    <3>2. \A m \in Ids : m # r.owner BY <2>1, ControlPlaneAssumption
    <3> HIDE DEF r
    <3> QED BY <1>a, <2>1, <3>1, <3>2, JoinServed
  <2>3. LoopInv' BY <2>1 DEF LoopInv
  <2>4. CASE Existed(slots, k, spec) BY <2>1, <2>2, <2>3, <2>4, SameServed
  <2>5. CASE ~Existed(slots, k, spec) BY <2>1, <2>2, <2>3, <2>5, NotRejected, SwapStep
  <2> QED BY <2>4, <2>5
<1>7. ASSUME NEW id \in Ids, DeregisterBody(id)
      PROVE  LoopInv' /\ [Registrations!Next]_Served
  <2>1. /\ slots' = RemoveReplicas(slots, OwnedBy(id)) /\ call = Idle /\ call' = call
        /\ regs' = [regs EXCEPT ![id] = NoReg]
    BY <1>7 DEF DeregisterBody, DropOwner
  <2>2. \A m \in Ids : m # id => regs'[m] = regs[m] /\ KeysServed(slots', m) = KeysServed(slots, m)
    BY <1>a, <2>1, RemoveServed DEF TypeOK
  <2>3. regs'[id] = NoReg BY <2>1 DEF TypeOK
  <2>4. Served' = [Served EXCEPT ![id] = {}] BY <2>2, <2>3 DEF Served
  <2>5. Registrations!Next BY <2>4, AbstractSteps
  <2> QED BY <2>1, <2>5 DEF LoopInv
<1>8. ASSUME NEW k \in Keys, NEW reason \in Reasons \cup {NoReason},
             SetDeprecation(k, reason)
      PROVE  LoopInv' /\ [Registrations!Next]_Served
  <2>1. call = Idle /\ UNCHANGED <<regs, call>> BY <1>8 DEF SetDeprecation
  <2>2. slots[k] # NoSlot =>
           /\ [slots[k] EXCEPT !.depr = reason].replicas = slots[k].replicas
           /\ [slots[k] EXCEPT !.depr = reason] # NoSlot
    <3> SUFFICES ASSUME slots[k] # NoSlot
                 PROVE  /\ [slots[k] EXCEPT !.depr = reason].replicas = slots[k].replicas
                        /\ [slots[k] EXCEPT !.depr = reason] # NoSlot
      OBVIOUS
    <3>1. slots[k] \in SlotOf(Replica) BY DEF TypeOK
    <3>2. [slots[k] EXCEPT !.depr = reason] \in SlotOf(Replica) BY <3>1 DEF SlotOf
    <3> QED BY <3>1, <3>2, ControlPlaneAssumption DEF SlotOf
  <2>3. \A m \in Ids : KeysServed(slots', m) = KeysServed(slots, m)
    BY <1>8, <1>a, <2>2 DEF SetDeprecation, KeysServed, LiveKeys
  <2> QED BY <2>1, <2>3, SameServed DEF LoopInv
<1>9. ASSUME NEW id \in Ids, Heartbeat(id)
      PROVE  LoopInv' /\ [Registrations!Next]_Served
  <2>1. \A m \in Ids : regs'[m] = NoReg <=> regs[m] = NoReg
    <3>1. regs[id] \in Registration /\ regs' = [regs EXCEPT ![id].age = 0]
      BY <1>9 DEF Heartbeat, TypeOK
    <3>2. [regs[id] EXCEPT !.age = 0] \in Registration
      BY <3>1, ControlPlaneAssumption DEF Registration
    <3> QED BY <1>9, <3>1, <3>2, ControlPlaneAssumption DEF Heartbeat, TypeOK
  <2> QED BY <1>1, <1>9, <2>1 DEF Heartbeat
<1>10. CASE Tick
  <2>1. \A m \in Ids : regs'[m] = NoReg <=> regs[m] = NoReg
    <3> SUFFICES ASSUME NEW m \in Ids, regs[m] # NoReg PROVE regs'[m] # NoReg
      BY <1>10 DEF Tick
    <3>1. regs[m] \in Registration BY DEF TypeOK
    <3>2. regs[m].age <= TTL => [regs[m] EXCEPT !.age = @ + 1] \in Registration
      BY <3>1, ControlPlaneAssumption DEF Registration
    <3> QED BY <1>10, <3>2, ControlPlaneAssumption DEF Tick
  <2> QED BY <1>1, <1>10, <2>1 DEF Tick
<1>11. ASSUME NEW id \in Ids, Deregister(id) \/ JanitorEvict(id)
       PROVE  LoopInv' /\ [Registrations!Next]_Served
  BY <1>1, <1>7, <1>11 DEF Deregister, JanitorEvict
<1>12. CASE \/ Handler \/ JanitorScan \/ UNCHANGED vars
            \/ \E k \in Keys, spec \in BootSpecs : AddProtoLocked(k, spec)
            \/ \E ns \in Namespaces, target \in 1..MaxVN : RetractStable(ns, target)
  BY <1>1, <1>12 DEF Handler, JanitorScan, vars, AddProtoLocked, RetractStable
<1> QED
  BY <1>2, <1>3, <1>4, <1>5, <1>6, <1>8, <1>9, <1>10, <1>11, <1>12
     DEF Next, Register, Deprecate, Undeprecate

(***************************************************************************)
(* The control plane implements Membership: Register, which joins one      *)
(* binding after the other and may fail at any of them, is seen as one     *)
(* step that joins all of them or none; Deregister and the janitor remove  *)
(* all in one step; and nobody's rollback, release or eviction takes a vN  *)
(* key from another registration.                                          *)
(***************************************************************************)
THEOREM AllOrNothingHolds == Spec => AllOrNothing
<1>1. Init => Registrations!Init /\ LoopInv
  BY DEF Init, Registrations!Init, LoopInv
<1>2. /\ TypeOK /\ TypeOK' /\ SlotsBacked /\ SlotsBacked' /\ IdsFresh
      /\ LoopInv /\ [Next]_vars
      => LoopInv' /\ [Registrations!Next]_Served
  BY MembershipStep
<1> QED
  BY <1>1, <1>2, TypeCorrect, SlotsBackedHolds, ConnInv, PTL
     DEF Spec, AllOrNothing, Registrations!Spec, Served, KeysServed, ServedKeys

-----------------------------------------------------------------------------
(***************************************************************************)
(* The services of ControlClient: any number of them, whatever they        *)
(* register, and any number of lost answers and gateway restarts.          *)
(***************************************************************************)

(***************************************************************************)
(* The inductive invariant.  A client that waits for an answer is the one  *)
(* whose call is under way, and each of its vN keys is served for the call *)
(* or still to be joined; the id of the call is nobody's yet; and an id    *)
(* the gateway knows is served under every vN key of the client that holds *)
(* it, also of one that is re-registering or being closed.                 *)
(***************************************************************************)
ClientData ==
    /\ TypeOK
    /\ cst \in [Clients -> {"down", "first", "up", "evicted", "again", "stopped", "closed"}]
    /\ rid \in [Clients -> Ids \cup {NoId}]
Waiting(c) == cst[c] \in {"first", "again"}
OneCaller ==
    \A c \in Clients : Waiting(c) =>
        /\ call # Idle /\ call.addr = AddrOf[c]
        /\ \A d \in Clients : Waiting(d) => d = c
        /\ \A k \in KeysOf(c) : ~IsUnstable(k) => k \in KeysIn(call.todo) \cup KeysServed(slots, call.id)
RidsIssued == \A c \in Clients : rid[c] # NoId => rid[c] \in issued
CallIdNew == call # Idle => call.id \in issued /\ \A c \in Clients : rid[c] # call.id
KnownServed ==
    \A c \in Clients : Known(c) => \A k \in KeysOf(c) : ~IsUnstable(k) => k \in KeysServed(slots, rid[c])
CInv == ClientData /\ OneCaller /\ RidsIssued /\ CallIdNew /\ KnownServed

-----------------------------------------------------------------------------
(* What the control plane's steps leave alone.                             *)

\* No vN key is taken from m.
Keeps(m) ==
    \A k \in KeysServed(slots, m) : ~IsUnstable(k) => k \in KeysServed(slots', m)

LEMMA SlotsTyped == ASSUME TypeOK PROVE slots \in [Keys -> Entry] BY DEF TypeOK, Entry

LEMMA TodoRest ==
    ASSUME NEW bs \in Seq(Binding), bs # <<>>
    PROVE  KeysIn(bs) \subseteq {Head(bs).key} \cup KeysIn(Tail(bs))
<1>1. /\ Len(bs) \in Nat /\ Len(bs) > 0 /\ Head(bs) = bs[1]
      /\ Len(Tail(bs)) = Len(bs) - 1
      /\ \A i \in 1..Len(Tail(bs)) : Tail(bs)[i] = bs[i + 1]
  OBVIOUS
<1> SUFFICES ASSUME NEW i \in 1..Len(bs), i # 1 PROVE bs[i].key \in KeysIn(Tail(bs))
  BY <1>1 DEF KeysIn
<1>2. i - 1 \in 1..Len(Tail(bs)) /\ Tail(bs)[i - 1] = bs[i] BY <1>1
<1> QED BY <1>2 DEF KeysIn

\* A join adds its key, and takes keys from others in an unstable slot only.
LEMMA JoinKeeps ==
    ASSUME TypeOK, InLoop, ~Rejected(slots, next.key, next.spec), NEW m
    PROVE  /\ \A k \in KeysServed(slots, m) : ~IsUnstable(k) => k \in KeysServed(Joined, m)
           /\ next.key \in KeysServed(Joined, call.id)
<1>1. next.key \in Keys /\ next.spec \in Specs /\ CallReplica \in Replica /\ CallReplica.owner = call.id
  BY CallFacts DEF CallReplica
<1>2. slots \in [Keys -> Entry] /\ deprecation \in [Keys -> Reasons \cup {NoReason}]
  BY SlotsTyped DEF TypeOK
<1>3. \A n : KeysServed(Joined, n)
               = IF n = call.id THEN KeysServed(slots, n) \cup {next.key}
                 ELSE IF Existed(slots, next.key, next.spec) THEN KeysServed(slots, n)
                 ELSE KeysServed(slots, n) \ {next.key}
  <2> TAKE n
  <2> DEFINE k == next.key
             spec == next.spec
             r == CallReplica
  <2>1. k \in Keys /\ spec \in Specs /\ r \in Replica /\ r.owner = call.id BY <1>1
  <2> HIDE DEF k, spec, r
  <2>2. KeysServed(Join(slots, deprecation, k, spec, r), n)
          = IF n = r.owner THEN KeysServed(slots, n) \cup {k}
            ELSE IF Existed(slots, k, spec) THEN KeysServed(slots, n)
            ELSE KeysServed(slots, n) \ {k}
    BY <1>2, <2>1, JoinServed
  <2> QED BY <2>1, <2>2 DEF Joined, k, spec, r
<1>4. ~Existed(slots, next.key, next.spec) => IsUnstable(next.key) \/ slots[next.key] = NoSlot
  BY NotRejected
<1>5. slots[next.key] = NoSlot => next.key \notin KeysServed(slots, m) BY DEF KeysServed, LiveKeys
<1> QED BY <1>3, <1>4, <1>5

\* A rollback takes nothing from others, but what an unstable swap took.
LEMMA RefusalKeeps ==
    ASSUME TypeOK, JoinRejected \/ JoinInvalid \/ JoinUnbuildable
    PROVE  /\ call' = Idle /\ UNCHANGED <<regs, issued, stale>>
           /\ \A m : m # call.id => Keeps(m)
<1> SUFFICES ASSUME NEW m, m # call.id
             PROVE  /\ call' = Idle /\ UNCHANGED <<regs, issued, stale>>
                    /\ Keeps(m)
  BY DEF JoinRejected, JoinInvalid, JoinUnbuildable, Rollback
<1>0. slots \in [Keys -> Entry] BY SlotsTyped
<1>1. ASSUME NEW s \in [Keys -> Entry], NEW st, NEW rj, Rollback(s, st, rj),
             \A k \in KeysServed(slots, m) : ~IsUnstable(k) => k \in KeysServed(s, m)
      PROVE  /\ call' = Idle /\ UNCHANGED <<regs, issued, stale>>
             /\ Keeps(m)
  <2>1. call' = Idle /\ UNCHANGED <<regs, issued, stale>> /\ slots' = RemoveReplicas(s, OwnedBy(call.id))
    BY <1>1 DEF Rollback, DropOwner
  <2>2. KeysServed(slots', m) = KeysServed(s, m) BY <2>1, RemoveServed
  <2> QED BY <1>1, <2>1, <2>2 DEF Keeps
<1>2. CASE JoinRejected
  <2>1. PICK rj : Rollback(slots, stableVN, rj) BY <1>2 DEF JoinRejected
  <2> QED BY <1>0, <1>1, <2>1
<1>3. CASE JoinInvalid
  <2> DEFINE s == [slots EXCEPT ![next.key] = NoSlot]
  <2>1. InLoop /\ Rollback(s, stableVN, rejectedJoins) BY <1>3 DEF JoinInvalid
  <2>2. next.key \in Keys BY <2>1, CallFacts
  <2>3. s \in [Keys -> Entry] BY <1>0 DEF Entry
  <2>4. IsUnstable(next.key) \/ slots[next.key] = NoSlot BY <1>3, NotRejected DEF JoinInvalid
  <2>5. slots[next.key] = NoSlot => next.key \notin KeysServed(slots, m) BY DEF KeysServed, LiveKeys
  <2>6. KeysServed(s, m) = KeysServed(slots, m) \ {next.key} BY <1>0, <2>2, DeleteServed
  <2> HIDE DEF s
  <2> QED BY <1>1, <2>1, <2>3, <2>4, <2>5, <2>6
<1>4. CASE JoinUnbuildable
  <2>1. InLoop /\ ~Rejected(slots, next.key, next.spec) /\ Rollback(Joined, stableVN', rejectedJoins)
    BY <1>4 DEF JoinUnbuildable
  <2>2. Joined \in [Keys -> Entry] BY <2>1, JoinedType
  <2>3. \A k \in KeysServed(slots, m) : ~IsUnstable(k) => k \in KeysServed(Joined, m) BY <2>1, JoinKeeps
  <2> QED BY <1>1, <2>1, <2>2, <2>3
<1> QED BY <1>2, <1>3, <1>4

LEMMA DeregisterKeeps ==
    ASSUME TypeOK, NEW id \in Ids, DeregisterBody(id), NEW m, m # id
    PROVE  Keeps(m)
<1>1. slots \in [Keys -> Entry] /\ slots' = RemoveReplicas(slots, OwnedBy(id))
  BY SlotsTyped DEF DeregisterBody, DropOwner
<1> QED BY <1>1, RemoveServed DEF Keeps

-----------------------------------------------------------------------------
(* Steps of the composition.                                               *)

\* The control plane takes a step of its own, restarts or draws an id again.
LEMMA ControlSteps == ASSUME ClientData, CNext PROVE [Next]_vars \/ GatewayRestart \/ Recycle
<1> USE DEF Next
<1>1. ASSUME NEW c \in Clients PROVE AddrOf[c] \in Addrs /\ RequestOf[c] \in Requests BY ClientAssumption
<1>2. ASSUME NEW c \in Clients, SendRegister(c) PROVE Next BY <1>1, <1>2 DEF SendRegister, Register
<1>3. ASSUME NEW c \in Clients, RegisterAnswered(c) \/ RegisterRefused(c) PROVE Next
  BY <1>3 DEF RegisterAnswered, RegisterRefused, Register
<1>4. ASSUME NEW c \in Clients, Known(c) PROVE rid[c] \in Ids BY <1>4 DEF ClientData, Known
<1>5. ASSUME NEW c \in Clients, Beat(c) \/ Stop(c) \/ CloseDeregister(c) \/ Die(c) PROVE [Next]_vars
  BY <1>4, <1>5 DEF Beat, Stop, CloseDeregister, Die
<1>6. CASE Joining \/ Clock \/ Janitor \/ Serve BY <1>6 DEF Joining, Clock, Janitor, Serve, Register
<1> QED BY <1>2, <1>3, <1>5, <1>6 DEF CNext

LEMMA DataStep == ASSUME ClientData, [CNext]_cvars PROVE ClientData'
<1>1. TypeOK'
  <2>1. CASE GatewayRestart
    <3>1. EmptyIndex \in [Keys -> SlotOf(Replica) \cup {NoSlot}] BY DEF EmptyIndex
    <3>2. 0 \in Versions BY RegistryAssumption DEF Versions
    <3> QED BY <2>1, <3>1, <3>2 DEF GatewayRestart, TypeOK, ClientData
  <2>2. CASE Recycle BY <2>2 DEF Recycle, TypeOK, ClientData, gwVars
  <2>3. CASE UNCHANGED cvars BY <2>3, TypeStep DEF cvars, ClientData
  <2> QED BY <2>1, <2>2, <2>3, ControlSteps, TypeStep DEF ClientData
<1>2. cst' \in [Clients -> {"down", "first", "up", "evicted", "again", "stopped", "closed"}]
  BY DEF ClientData, CNext, cvars, clientVars, SendRegister, RegisterAnswered, RegisterRefused, Failed, To,
         Beat, Stop, CloseDeregister, Die, Joining, GatewayRestart, Clock, Janitor, Recycle, Serve
<1>3. rid' \in [Clients -> Ids \cup {NoId}]
  <2>1. ASSUME NEW c \in Clients, RegisterAnswered(c) PROVE rid' \in [Clients -> Ids \cup {NoId}]
    <3>1. call.id \in Ids BY <2>1 DEF RegisterAnswered, Calling, ClientData, TypeOK, Call
    <3> QED BY <2>1, <3>1 DEF RegisterAnswered, Failed, ClientData
  <2> QED BY <2>1
      DEF ClientData, CNext, cvars, clientVars, SendRegister, RegisterRefused, Failed,
          Beat, Stop, CloseDeregister, Die, Joining, GatewayRestart, Clock, Janitor, Recycle, Serve
<1> QED BY <1>1, <1>2, <1>3 DEF ClientData

LEMMA IssuedStep == ASSUME CInv, [CNext]_cvars PROVE RidsIssued' /\ CallIdNew'
<1> USE DEF CInv
<1>1. ASSUME NEW c \in Clients, SendRegister(c) PROVE RidsIssued' /\ CallIdNew'
  <2>1. PICK id \in Ids : RegisterStart(id, AddrOf[c], RequestOf[c]) /\ rid' = rid BY <1>1 DEF SendRegister
  <2>2. call'.id = id /\ issued' = issued \cup {id} /\ id \notin issued BY <2>1 DEF RegisterStart
  <2>3. RidsIssued' BY <2>1, <2>2 DEF RidsIssued
  <2>4. id # NoId BY ClientAssumption
  <2>5. \A d \in Clients : rid'[d] # id BY <2>1, <2>2, <2>4 DEF RidsIssued
  <2> QED BY <2>2, <2>3, <2>5 DEF CallIdNew
<1>2. ASSUME NEW c \in Clients, RegisterAnswered(c) PROVE RidsIssued' /\ CallIdNew'
  <2>1. call # Idle /\ call' = Idle /\ issued' = issued BY <1>2 DEF RegisterAnswered, RegisterCommit
  <2>2. call.id \in issued BY <2>1 DEF CallIdNew
  <2>3. \A d \in Clients : rid'[d] = rid[d] \/ rid'[d] = call.id
    BY <1>2 DEF RegisterAnswered, Failed, ClientData
  <2> QED BY <2>1, <2>2, <2>3 DEF RidsIssued, CallIdNew
<1>3. ASSUME NEW c \in Clients, RegisterRefused(c) PROVE RidsIssued' /\ CallIdNew'
  <2>1. call' = Idle /\ issued' = issued BY <1>3, RefusalKeeps DEF RegisterRefused, ClientData
  <2>2. rid' = rid BY <1>3 DEF RegisterRefused, Failed
  <2> QED BY <2>1, <2>2 DEF RidsIssued, CallIdNew
<1>4. CASE Joining
  <2>1. call' = [call EXCEPT !.todo = Tail(@)] /\ InLoop /\ issued' = issued /\ rid' = rid
    BY <1>4 DEF Joining, clientVars, JoinExisting, JoinCreating
  <2>2. call'.id = call.id BY <2>1, CallFacts DEF ClientData, Call
  <2> QED BY <2>1, <2>2 DEF RidsIssued, CallIdNew, InLoop
<1>5. CASE GatewayRestart BY <1>5 DEF GatewayRestart, RidsIssued, CallIdNew
<1>6. CASE Recycle
  <2>1. call = Idle /\ call' = call /\ rid' = rid /\ issued' = {id \in Ids : Held(id)}
    BY <1>6 DEF Recycle, clientVars
  <2>2. \A c \in Clients : rid[c] # NoId => rid[c] \in Ids /\ Held(rid[c]) BY DEF ClientData, Held
  <2> QED BY <2>1, <2>2 DEF RidsIssued, CallIdNew
<1>7. ASSUME UNCHANGED <<call, issued, rid>> PROVE RidsIssued' /\ CallIdNew'
  BY <1>7 DEF RidsIssued, CallIdNew
<1>8. ASSUME NEW c \in Clients, Beat(c) \/ Stop(c) \/ CloseDeregister(c) \/ Die(c)
      PROVE  UNCHANGED <<call, issued, rid>>
  BY <1>8 DEF Beat, Stop, CloseDeregister, Die, Heartbeat, Deregister, DeregisterBody, vars
<1>9. ASSUME Clock \/ Janitor \/ Serve \/ UNCHANGED cvars PROVE UNCHANGED <<call, issued, rid>>
  BY <1>9 DEF Clock, Janitor, Serve, Tick, JanitorScan, JanitorEvict, DeregisterBody, Handler, cvars,
              clientVars, cpVars, vars
<1> QED BY <1>1, <1>2, <1>3, <1>4, <1>5, <1>6, <1>7, <1>8, <1>9 DEF CNext

\* What no client learns and nobody is taken out of.
LEMMA KnownFrame ==
    ASSUME KnownServed,
           \A c \in Clients : rid'[c] # NoId /\ regs'[rid'[c]] # NoReg =>
               rid'[c] = rid[c] /\ regs[rid[c]] # NoReg /\ Keeps(rid[c])
    PROVE  KnownServed'
BY DEF KnownServed, Known, Keeps

LEMMA CallerFrame ==
    ASSUME OneCaller, UNCHANGED call, call = Idle \/ UNCHANGED slots,
           \A c \in Clients : cst'[c] \in {"first", "again"} => Waiting(c)
    PROVE  OneCaller'
BY DEF OneCaller, Waiting

LEMMA Unmoved == ASSUME UNCHANGED slots, NEW m PROVE Keeps(m) BY DEF Keeps

\* The answer ends the wait of the one caller.
LEMMA CallerAnswered ==
    ASSUME ClientData, OneCaller, NEW c \in Clients, Calling(c), NEW s \in {"up", "closed"}, To(c, s)
    PROVE  OneCaller'
<1>1. Waiting(c) BY DEF Calling, Waiting
<1>2. \A d \in Clients : d # c => ~Waiting(d) /\ cst'[d] = cst[d] BY <1>1 DEF OneCaller, To, ClientData
<1>3. cst'[c] = s BY DEF To, ClientData
<1> QED BY <1>2, <1>3 DEF OneCaller, Waiting

LEMMA SendRegisterInv ==
    ASSUME CInv, NEW c \in Clients, SendRegister(c) PROVE OneCaller' /\ KnownServed'
<1>1. PICK id \in Ids : RegisterStart(id, AddrOf[c], RequestOf[c]) BY DEF SendRegister
<1>2. call = Idle /\ UNCHANGED <<slots, regs>> /\ rid' = rid BY <1>1 DEF RegisterStart, gwVars, SendRegister
<1>3. KnownServed' BY <1>2, KnownFrame, Unmoved DEF CInv, Known
<1>4. call' \in Call /\ call'.addr = AddrOf[c] /\ call'.todo = RequestOf[c]
  <2>1. call'.addr = AddrOf[c] /\ call'.todo = RequestOf[c] BY <1>1 DEF RegisterStart
  <2>2. AddrOf[c] \in Addrs /\ RequestOf[c] \in Seq(Binding) BY ClientAssumption, ControlPlaneAssumption
  <2>3. call' \in Call BY <1>1, <2>2 DEF RegisterStart, Call
  <2> QED BY <2>1, <2>3
<1>5. call' # Idle BY <1>4, ControlPlaneAssumption
<1>6. \A d \in Clients : cst'[d] \in {"first", "again"} => d = c
  <2>1. \A d \in Clients : ~Waiting(d) BY <1>2 DEF CInv, OneCaller
  <2>2. \A d \in Clients : d # c => cst'[d] = cst[d] BY DEF CInv, ClientData, SendRegister, To
  <2> QED BY <2>1, <2>2 DEF Waiting
<1>7. KeysIn(call'.todo) = KeysOf(c) BY <1>4 DEF KeysIn, KeysOf
<1>8. OneCaller' BY <1>4, <1>5, <1>6, <1>7 DEF OneCaller, Waiting
<1> QED BY <1>3, <1>8

LEMMA AnsweredInv ==
    ASSUME CInv, NEW c \in Clients, RegisterAnswered(c) PROVE OneCaller' /\ KnownServed'
<1>0. /\ ClientData /\ Calling(c) /\ Waiting(c) /\ call # Idle /\ call.todo = <<>> /\ slots' = slots
      /\ regs' = [regs EXCEPT ![call.id] = [conn |-> call.conn, age |-> 0]]
  BY DEF CInv, RegisterAnswered, RegisterCommit, gwVars, Calling, Waiting
<1>1. OneCaller'
  <2>1. PICK s \in {"up", "closed"} : To(c, s) BY DEF RegisterAnswered, Failed
  <2> QED BY <1>0, <2>1, CallerAnswered DEF CInv
<1>2. \A m : m # call.id => regs'[m] = regs[m] BY <1>0 DEF ClientData, TypeOK
<1>3. \A d \in Clients : rid[d] # call.id BY <1>0 DEF CInv, CallIdNew
<1>4. CASE rid' = rid
  <2>1. \A d \in Clients : rid'[d] = rid[d] /\ regs'[rid'[d]] = regs[rid[d]] BY <1>2, <1>3, <1>4
  <2>2. \A m : Keeps(m) BY <1>0, Unmoved
  <2> QED BY <1>1, <2>1, <2>2, KnownFrame DEF CInv
<1>5. CASE rid' = [rid EXCEPT ![c] = call.id]
  <2>1. rid'[c] = call.id /\ \A d \in Clients : d # c => rid'[d] = rid[d] BY <1>0, <1>5 DEF ClientData
  <2>2. KeysIn(call.todo) = {} BY <1>0 DEF KeysIn
  <2>3. \A k \in KeysOf(c) : ~IsUnstable(k) => k \in KeysServed(slots, call.id)
    BY <1>0, <2>2 DEF CInv, OneCaller
  <2>4. \A d \in Clients : d # c /\ rid'[d] # NoId /\ regs'[rid'[d]] # NoReg => Known(d)
    BY <1>2, <1>3, <2>1 DEF Known
  <2> SUFFICES ASSUME NEW d \in Clients, rid'[d] # NoId, regs'[rid'[d]] # NoReg,
                      NEW k \in KeysOf(d), ~IsUnstable(k)
               PROVE  k \in KeysServed(slots', rid'[d])
    BY <1>1, Zenon DEF KnownServed, Known
  <2> QED BY <1>0, <2>1, <2>3, <2>4 DEF CInv, KnownServed
<1>6. rid' = rid \/ rid' = [rid EXCEPT ![c] = call.id] BY DEF RegisterAnswered, Failed
<1> QED BY <1>4, <1>5, <1>6

LEMMA RefusedInv ==
    ASSUME CInv, NEW c \in Clients, RegisterRefused(c) PROVE OneCaller' /\ KnownServed'
<1>0. ClientData /\ TypeOK /\ Calling(c) /\ call # Idle /\ rid' = rid
  BY DEF CInv, ClientData, RegisterRefused, Calling, Failed
<1>1. regs' = regs /\ \A m : m # call.id => Keeps(m) BY <1>0, RefusalKeeps DEF RegisterRefused
<1>2. PICK s \in {"up", "closed"} : To(c, s) BY DEF RegisterRefused, Failed
<1>3. OneCaller' BY <1>0, <1>2, CallerAnswered DEF CInv
<1>4. \A d \in Clients : rid[d] # call.id BY <1>0 DEF CInv, CallIdNew
<1>5. KnownServed' BY <1>0, <1>1, <1>4, KnownFrame DEF CInv, Known
<1> QED BY <1>3, <1>5

LEMMA JoiningInv == ASSUME CInv, Joining PROVE OneCaller' /\ KnownServed'
<1>0. /\ ClientData /\ TypeOK /\ InLoop /\ call # Idle /\ ~Rejected(slots, next.key, next.spec)
      /\ slots' = Joined /\ regs' = regs /\ rid' = rid /\ cst' = cst
      /\ call' = [call EXCEPT !.todo = Tail(@)]
  BY DEF CInv, ClientData, Joining, JoinExisting, JoinCreating, clientVars, InLoop
<1>1. \A m : Keeps(m) BY <1>0, JoinKeeps DEF Keeps
<1>2. KnownServed' BY <1>0, <1>1, KnownFrame DEF CInv, Known
<1>3. /\ call \in Call /\ call'.id = call.id /\ call'.addr = call.addr /\ call'.todo = Tail(call.todo)
      /\ call' \in Call
  BY <1>0, CallFacts DEF Call
<1>4. call' # Idle BY <1>3, ControlPlaneAssumption
<1>5. next.key \in KeysServed(slots', call.id) BY <1>0, JoinKeeps
<1>6. KeysIn(call.todo) \subseteq {next.key} \cup KeysIn(Tail(call.todo))
  BY <1>0, <1>3, TodoRest DEF next, Call, InLoop
<1>7. ASSUME NEW c \in Clients, Waiting(c), NEW k \in KeysOf(c), ~IsUnstable(k)
      PROVE  k \in KeysIn(call'.todo) \cup KeysServed(slots', call'.id)
  <2>1. k \in KeysIn(call.todo) \cup KeysServed(slots, call.id) BY <1>7 DEF CInv, OneCaller
  <2>2. CASE k \in KeysServed(slots, call.id) BY <1>1, <1>3, <1>7, <2>2 DEF Keeps
  <2>3. CASE k \in KeysIn(call.todo) BY <1>3, <1>5, <1>6, <2>3
  <2> QED BY <2>1, <2>2, <2>3
<1>8. OneCaller' BY <1>0, <1>3, <1>4, <1>7 DEF CInv, OneCaller, Waiting
<1> QED BY <1>2, <1>8

\* A registration leaves, by Close or by the janitor.
LEMMA LeavesInv ==
    ASSUME CInv, NEW id \in Ids, DeregisterBody(id), rid' = rid,
           \A c \in Clients : cst'[c] \in {"first", "again"} => Waiting(c)
    PROVE  OneCaller' /\ KnownServed'
<1>0. TypeOK /\ call = Idle /\ call' = call /\ regs' = [regs EXCEPT ![id] = NoReg]
  BY DEF CInv, ClientData, DeregisterBody
<1>1. OneCaller' BY <1>0, CallerFrame DEF CInv
<1>2. regs'[id] = NoReg /\ \A m : m # id => regs'[m] = regs[m] BY <1>0 DEF TypeOK
<1>3. \A m : m # id => Keeps(m) BY <1>0, DeregisterKeeps
<1>4. KnownServed' BY <1>2, <1>3, KnownFrame DEF CInv
<1> QED BY <1>1, <1>4

\* Slots, ids and the call stay, and no client begins to wait.
LEMMA StaysInv ==
    ASSUME CInv, UNCHANGED <<slots, rid, call>>,
           \A id \in Ids : regs'[id] # NoReg => regs[id] # NoReg,
           \A c \in Clients : cst'[c] \in {"first", "again"} => Waiting(c)
    PROVE  OneCaller' /\ KnownServed'
<1>1. \A c \in Clients : rid[c] # NoId => rid[c] \in Ids BY DEF CInv, ClientData
<1>2. OneCaller' BY CallerFrame DEF CInv
<1>3. KnownServed' BY <1>1, KnownFrame, Unmoved DEF CInv
<1> QED BY <1>2, <1>3

LEMMA ServedStep == ASSUME CInv, [CNext]_cvars PROVE OneCaller' /\ KnownServed'
<1>0. ClientData BY DEF CInv
<1>1. ASSUME NEW c \in Clients, NEW s \in {"up", "evicted", "stopped", "closed"}, To(c, s)
      PROVE  \A d \in Clients : cst'[d] \in {"first", "again"} => Waiting(d)
  BY <1>0, <1>1 DEF To, ClientData, Waiting
<1>2. ASSUME NEW c \in Clients, Beat(c) PROVE OneCaller' /\ KnownServed'
  <2>1. \A d \in Clients : cst'[d] \in {"first", "again"} => Waiting(d)
    BY <1>1, <1>2 DEF Beat, Waiting
  <2>2. UNCHANGED <<slots, rid, call>> BY <1>2 DEF Beat, Heartbeat, gwVars, vars
  <2>3. \A id \in Ids : regs'[id] # NoReg => regs[id] # NoReg
    <3>1. CASE Heartbeat(rid[c]) BY <3>1 DEF Heartbeat
    <3>2. CASE UNCHANGED vars BY <3>2 DEF vars
    <3> QED BY <1>2, <3>1, <3>2 DEF Beat
  <2> QED BY <2>1, <2>2, <2>3, StaysInv
<1>3. ASSUME NEW c \in Clients, Stop(c) \/ Die(c) PROVE OneCaller' /\ KnownServed'
  <2>1. \A d \in Clients : cst'[d] \in {"first", "again"} => Waiting(d) BY <1>1, <1>3 DEF Stop, Die
  <2>2. UNCHANGED <<slots, rid, call, regs>> BY <1>3 DEF Stop, Die, vars
  <2> QED BY <2>1, <2>2, StaysInv
<1>4. ASSUME NEW c \in Clients, CloseDeregister(c) PROVE OneCaller' /\ KnownServed'
  <2>1. rid' = rid /\ \A d \in Clients : cst'[d] \in {"first", "again"} => Waiting(d)
    BY <1>1, <1>4 DEF CloseDeregister
  <2>2. CASE Known(c) /\ Deregister(rid[c])
    <3>1. rid[c] \in Ids BY <1>0, <2>2 DEF ClientData, Known
    <3> QED BY <2>1, <2>2, <3>1, LeavesInv DEF Deregister
  <2>3. CASE UNCHANGED vars BY <2>1, <2>3, StaysInv DEF vars
  <2> QED BY <1>4, <2>2, <2>3 DEF CloseDeregister
<1>5. CASE GatewayRestart
  <2>1. ASSUME NEW c \in Clients, rid[c] # NoId PROVE regs'[rid[c]] = NoReg
    BY <1>0, <1>5, <2>1 DEF GatewayRestart, ClientData
  <2>2. KnownServed' BY <1>5, <2>1 DEF GatewayRestart, KnownServed, Known
  <2>3. \A c \in Clients : cst[c] \in {"first", "again"} => Calling(c)
    BY DEF CInv, OneCaller, Waiting, Calling
  <2>4. \A c \in Clients : cst'[c] \notin {"first", "again"}
    BY <1>5, <2>3 DEF GatewayRestart
  <2>5. OneCaller' BY <2>4 DEF OneCaller, Waiting
  <2> QED BY <2>2, <2>5
<1>6. CASE Recycle BY <1>6, StaysInv DEF Recycle, gwVars, clientVars, Waiting
<1>7. CASE Clock
  <2>1. UNCHANGED <<slots, rid, call, cst>> BY <1>7 DEF Clock, Tick, gwVars
  <2>2. \A id \in Ids : regs'[id] # NoReg => regs[id] # NoReg BY <1>7 DEF Clock, Tick
  <2> QED BY <2>1, <2>2, StaysInv DEF Waiting
<1>8. CASE Janitor
  <2>1. rid' = rid /\ \A d \in Clients : cst'[d] \in {"first", "again"} => Waiting(d)
    BY <1>8 DEF Janitor, clientVars, Waiting
  <2>2. ASSUME NEW id \in Ids, DeregisterBody(id) PROVE OneCaller' /\ KnownServed'
    BY <2>1, <2>2, LeavesInv
  <2>3. CASE UNCHANGED <<gwVars, cpVars>> BY <2>1, <2>3, StaysInv DEF gwVars, cpVars
  <2> QED BY <1>8, <2>2, <2>3 DEF Janitor, JanitorScan, JanitorEvict
<1>9. CASE Serve BY <1>9, StaysInv DEF Serve, Handler, cpVars, clientVars, Waiting
<1>10. CASE UNCHANGED cvars BY <1>10, StaysInv DEF cvars, vars, clientVars, Waiting
<1> QED
  BY <1>2, <1>3, <1>4, <1>5, <1>6, <1>7, <1>8, <1>9, <1>10, SendRegisterInv, AnsweredInv, RefusedInv,
     JoiningInv
     DEF CNext

LEMMA ClientInit == CInit => CInv
<1> SUFFICES ASSUME CInit PROVE CInv OBVIOUS
<1>1. TypeOK
  <2>1. slots \in [Keys -> SlotOf(Replica) \cup {NoSlot}] BY DEF CInit, Init, EmptyIndex
  <2>2. stableVN \in [Namespaces -> Versions] BY RegistryAssumption DEF CInit, Init, Versions
  <2> QED BY <2>1, <2>2 DEF CInit, Init, TypeOK
<1>2. ClientData BY <1>1 DEF CInit, ClientData
<1>3. \A c \in Clients : rid[c] = NoId /\ ~Waiting(c) BY DEF CInit, Waiting
<1>4. OneCaller /\ RidsIssued /\ KnownServed BY <1>3 DEF OneCaller, RidsIssued, KnownServed, Known
<1>5. CallIdNew BY DEF CInit, Init, CallIdNew
<1> QED BY <1>2, <1>4, <1>5 DEF CInv

(***************************************************************************)
(* A service whose heartbeats are answered Ok is served under every vN it  *)
(* registered, whatever others register, swap or leave, and through lost   *)
(* answers, evictions, re-registrations and restarts of the gateway        *)
(* (controlclient/client.go over control.go).                              *)
(***************************************************************************)
THEOREM OkMeansServedHolds == CSpec => []OkMeansServed
<1>1. CInv /\ [CNext]_cvars => CInv' BY DataStep, IssuedStep, ServedStep DEF CInv
<1>2. CInv => OkMeansServed BY DEF CInv, KnownServed, OkMeansServed, ServedUnder, KeysServed, LiveKeys
<1> QED BY <1>1, <1>2, ClientInit, PTL DEF CSpec

\* What the control plane keeps by itself, at a step of it, at a restart and when ids
\* are drawn again.
Kept ==
    /\ ClientData /\ SlotsBacked /\ IdsFresh /\ ConnRefsExact /\ ChannelClaimsDisjoint
    /\ ProtoIn(slots, HeldPairs) /\ CallConn /\ LoopInv

LEMMA KeptInit == ASSUME CInit PROVE Kept
<1>1. ClientData BY ClientInit DEF CInv
<1>2. SlotsBacked /\ ChannelClaimsDisjoint
  BY DEF CInit, Init, SlotsBacked, ChannelClaimsDisjoint, LiveKeys, EmptyIndex
<1>3. IdsFresh BY DEF CInit, Init, IdsFresh
<1>4. \A a \in Addrs : Holders(a) = {} BY DEF CInit, Init, Holders
<1>5. ConnRefsExact BY <1>4, FS_EmptySet DEF CInit, Init, ConnRefsExact
<1>6. ProtoIn(slots, HeldPairs) /\ CallConn /\ LoopInv
  BY DEF CInit, Init, EmptyIndex, ProtoIn, CallConn, LoopInv
<1> QED BY <1>1, <1>2, <1>3, <1>5, <1>6 DEF Kept

\* After a restart nothing is registered, and nothing is referenced.
LEMMA KeptRestart == ASSUME ClientData', GatewayRestart PROVE Kept'
<1>1. slots' = EmptyIndex /\ regs' = [i \in Ids |-> NoReg] /\ conns' = [a \in Addrs |-> 0] /\ call' = Idle
  BY DEF GatewayRestart
<1>2. SlotsBacked' /\ ChannelClaimsDisjoint'
  BY <1>1 DEF SlotsBacked, ChannelClaimsDisjoint, LiveKeys, EmptyIndex
<1>3. IdsFresh' BY <1>1 DEF IdsFresh
<1>4. \A a \in Addrs : Holders(a)' = {} BY <1>1 DEF Holders
<1>5. ConnRefsExact' BY <1>1, <1>4, FS_EmptySet DEF ConnRefsExact
<1>6. ProtoIn(slots', HeldPairs') /\ CallConn' /\ LoopInv'
  BY <1>1 DEF EmptyIndex, ProtoIn, CallConn, LoopInv
<1> QED BY <1>2, <1>3, <1>5, <1>6 DEF Kept

LEMMA KeptRecycle == ASSUME Kept, ClientData', Recycle PROVE Kept'
<1>1. UNCHANGED <<slots, regs, conns, call>> /\ call = Idle /\ issued' = {id \in Ids : Held(id)}
  BY DEF Recycle, gwVars
<1>2. SlotsBacked' BY <1>1 DEF Kept, SlotsBacked, Owner
<1>3. ChannelClaimsDisjoint' BY <1>1 DEF Kept, ChannelClaimsDisjoint, LiveKeys
<1>4. IdsFresh' BY <1>1 DEF Kept, IdsFresh, Held
<1>5. \A a \in Addrs : Holders(a)' = Holders(a) BY <1>1 DEF Holders
<1>6. ConnRefsExact' BY <1>1, <1>5 DEF Kept, ConnRefsExact
<1>7. HeldPairs' = HeldPairs BY <1>5 DEF HeldPairs
<1>8. ProtoIn(slots', HeldPairs') /\ CallConn' /\ LoopInv'
  BY <1>1, <1>7 DEF Kept, CallConn, LoopInv
<1> QED BY <1>2, <1>3, <1>4, <1>6, <1>8 DEF Kept

LEMMA KeptStep ==
    ASSUME Kept, [CNext]_cvars
    PROVE  Kept' /\ ([Registrations!Next]_Served \/ GatewayRestart)
<1>1. ClientData' BY DataStep DEF Kept
<1>2. TypeOK /\ TypeOK' BY <1>1 DEF Kept, ClientData
<1>3. CASE [Next]_vars
  <2>1. SlotsBacked' /\ IdsFresh' /\ ConnRefsExact' /\ ChannelClaimsDisjoint'
    BY <1>2, <1>3, BackedStep, ConnStep, ClaimsStep DEF Kept
  <2>2. ProtoIn(slots', HeldPairs') /\ CallConn' BY <1>2, <1>3, ProtoStep DEF Kept
  <2>3. LoopInv' /\ [Registrations!Next]_Served BY <1>2, <1>3, <2>1, MembershipStep DEF Kept
  <2> QED BY <1>1, <2>1, <2>2, <2>3 DEF Kept
<1>4. CASE GatewayRestart BY <1>1, <1>4, KeptRestart
<1>5. CASE Recycle
  <2>1. UNCHANGED <<slots, regs>> BY <1>5 DEF Recycle, gwVars
  <2>2. [Registrations!Next]_Served BY <2>1, SameServed
  <2> QED BY <1>1, <1>5, <2>2, KeptRecycle
<1>6. CASE UNCHANGED cvars BY <1>3, <1>6 DEF cvars
<1> QED BY <1>3, <1>4, <1>5, <1>6, ControlSteps DEF Kept

(***************************************************************************)
(* Under real clients, which lose answers, register again and meet a       *)
(* gateway that restarts, the control plane keeps what it promises by      *)
(* itself: slots are backed, connections counted exactly and open under    *)
(* every proto replica, channel claims disjoint (control.go Register,      *)
(* Deregister, janitor).                                                   *)
(***************************************************************************)
THEOREM SafeUnderClients ==
    CSpec => [](SlotsBacked /\ ConnRefsExact /\ ReplicaConnOpen /\ ChannelClaimsDisjoint)
<1>1. CInit => Kept BY KeptInit
<1>2. Kept /\ [CNext]_cvars => Kept' BY KeptStep
<1>3. Kept => SlotsBacked /\ ConnRefsExact /\ ReplicaConnOpen /\ ChannelClaimsDisjoint
  BY HeldIsOpen DEF Kept, ClientData
<1> QED BY <1>1, <1>2, <1>3, PTL DEF CSpec

(***************************************************************************)
(* Nor does a lost answer, a retry or an eviction split a registration: on *)
(* every step of the clients and the gateway members come and go as        *)
(* Membership says, with all their keys, but for a restart of the gateway, *)
(* which forgets them all (control.go Register, controlclient/client.go).  *)
(***************************************************************************)
WholeOrRestarted == Registrations!Init /\ [][Registrations!Next \/ GatewayRestart]_Served
THEOREM WholeUnderClients == CSpec => WholeOrRestarted
<1>1. CInit => Kept /\ Registrations!Init BY KeptInit DEF CInit, Init, Registrations!Init
<1>2. Kept /\ [CNext]_cvars => Kept' /\ [Registrations!Next \/ GatewayRestart]_Served BY KeptStep
<1> QED BY <1>1, <1>2, PTL DEF CSpec, WholeOrRestarted

(***************************************************************************)
(* The schema that is served is the one of the index through clients that  *)
(* retry and a gateway that starts anew, under the hypotheses of           *)
(* ServedSchemaFreshHolds (control.go, schema.go assembleLocked).          *)
(***************************************************************************)
THEOREM FreshUnderClients ==
    ASSUME BootSpecs \cap Unbuildable = {},
           "unstable" \notin AllowedTiers \/ BadSpecs = {}
    PROVE  CSpec => []ServedSchemaFresh
<1> DEFINE Inv == ClientData /\ FreshInv
<1>1. CInit => Inv BY ClientInit DEF CInv, CInit, Init, FreshInv
<1>2. Inv /\ [CNext]_cvars => Inv'
  <2> SUFFICES ASSUME Inv, [CNext]_cvars PROVE Inv' OBVIOUS
  <2>1. ClientData' /\ TypeOK BY DataStep DEF ClientData
  <2>2. CASE [Next]_vars BY <2>1, <2>2, FreshStep
  <2>3. CASE GatewayRestart BY <2>1, <2>3 DEF GatewayRestart, FreshInv
  <2>4. CASE Recycle BY <2>1, <2>4 DEF Recycle, gwVars, FreshInv
  <2>5. CASE UNCHANGED cvars BY <2>2, <2>5 DEF cvars
  <2> QED BY <2>2, <2>3, <2>4, <2>5, ControlSteps
<1>3. Inv => ServedSchemaFresh BY DEF FreshInv, ServedSchemaFresh
<1> QED BY <1>1, <1>2, <1>3, PTL DEF CSpec
=============================================================================
