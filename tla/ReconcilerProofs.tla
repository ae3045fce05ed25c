-------------------------- MODULE ReconcilerProofs --------------------------
(***************************************************************************)
(* Proofs about Reconciler, for any number of gateways, registrations,     *)
(* replicas, heartbeats, expiries and broken watches.                      *)
(***************************************************************************)
EXTENDS Reconciler, FiniteSetTheorems, SequenceTheorems, TLAPS

-----------------------------------------------------------------------------
(* Sequences of events.                                                    *)

Absent(q, rid) == \A i \in 1..Len(q) : q[i].rid # rid
LastIs(q, rid, op) ==
    \E i \in 1..Len(q) : q[i].rid = rid /\ q[i].op = op /\ \A j \in (i + 1)..Len(q) : q[j].rid # rid
Once(q) == \A i, j \in 1..Len(q) : q[i].rid = q[j].rid => i = j

LEMMA RemovedAt ==
  ASSUME NEW q \in Seq(Event), NEW i \in 1..Len(q)
  PROVE /\ RemoveAt(q, i) \in Seq(Event) /\ Len(RemoveAt(q, i)) = Len(q) - 1
        /\ \A j \in 1..(Len(q) - 1) : RemoveAt(q, i)[j] = IF j < i THEN q[j] ELSE q[j + 1]
<1> DEFINE n == Len(q)
           a == SubSeq(q, 1, i - 1)
           b == SubSeq(q, i + 1, n)
<1>1. n \in Nat /\ i \in Nat /\ 1 <= i /\ i <= n OBVIOUS
<1>2. a \in Seq(Event) /\ Len(a) = i - 1 /\ \A j \in 1..(i - 1) : a[j] = q[j]
  <2>1. \A j \in 1..(i - 1) : j \in 1..n BY <1>1
  <2> QED BY <1>1, <2>1
<1>3. b \in Seq(Event) /\ Len(b) = n - i /\ \A j \in 1..(n - i) : b[j] = q[i + j]
  <2>1. \A j \in (i + 1)..n : q[j] \in Event BY <1>1
  <2>2. CASE i + 1 <= n + 1 
    <3>1. Len(b) = n - i BY <1>1
    <3>2. \A j \in 1..(n - i) : b[j] = q[(i + 1) + j - 1] BY <1>1
    <3>3. \A j \in 1..(n - i) : (i + 1) + j - 1 = i + j BY <1>1
    <3>4. b \in Seq(Event) BY <1>1, <2>1
    <3> QED BY <3>1, <3>2, <3>3, <3>4
  <2> QED BY <1>1, <2>2
<1>4. RemoveAt(q, i) = a \o b BY DEF RemoveAt
<1> HIDE DEF a, b
<1>5. a \o b \in Seq(Event) /\ Len(a \o b) = Len(a) + Len(b) BY <1>2, <1>3, ConcatProperties
<1>6. (i - 1) + (n - i) = n - 1 BY <1>1
<1>7. ASSUME NEW j \in 1..(n - 1) PROVE (a \o b)[j] = IF j < i THEN q[j] ELSE q[j + 1]
  <2>1. (a \o b)[j] = IF j <= Len(a) THEN a[j] ELSE b[j - Len(a)] BY <1>1, <1>2, <1>3, <1>6
  <2>2. CASE j < i
    <3>1. j \in 1..(i - 1) /\ j <= Len(a) BY <1>1, <1>2, <2>2
    <3> QED BY <1>2, <2>1, <2>2, <3>1
  <2>3. CASE ~(j < i)
    <3>1. ~(j <= Len(a)) /\ j - Len(a) \in 1..(n - i) /\ i + (j - Len(a)) = j + 1 BY <1>1, <1>2, <2>3
    <3> QED BY <1>3, <2>1, <2>3, <3>1
  <2> QED BY <2>2, <2>3
<1> QED BY <1>2, <1>3, <1>4, <1>5, <1>6, <1>7

\* What is left has the other revisions, each once.
LEMMA WithoutIs ==
  ASSUME NEW q \in Seq(Event), Once(q), NEW rid \in Rids
  PROVE /\ Without(q, rid) \in Seq(Event) /\ Once(Without(q, rid)) /\ Absent(Without(q, rid), rid)
        /\ \A e : e.rid # rid => ((\E i \in 1..Len(Without(q, rid)) : Without(q, rid)[i] = e) <=> \E i \in 1..Len(q) : q[i] = e)
<1> DEFINE at == {i \in DOMAIN q : q[i].rid = rid}
           n == Len(q)
<1>1. n \in Nat /\ DOMAIN q = 1..n OBVIOUS
<1>2. CASE at = {}
  <2>1. Without(q, rid) = q BY <1>2 DEF Without
  <2>2. Absent(q, rid) BY <1>1, <1>2 DEF Absent
  <2> QED BY <2>1, <2>2
<1>3. CASE at # {}
  <2>1. PICK i \in at : Without(q, rid) = RemoveAt(q, i) BY <1>3 DEF Without
  <2> DEFINE w == RemoveAt(q, i)
  <2>2. i \in 1..n /\ q[i].rid = rid BY <1>1, <2>1
  <2>3. w \in Seq(Event) /\ Len(w) = n - 1 /\ \A j \in 1..(n - 1) : w[j] = IF j < i THEN q[j] ELSE q[j + 1]
    BY <2>2, RemovedAt
  <2> HIDE DEF w
  <2> DEFINE up(j) == IF j < i THEN j ELSE j + 1
             down(j) == IF j < i THEN j ELSE j - 1
  <2>4. \A j \in 1..(n - 1) : up(j) \in 1..n /\ up(j) # i /\ w[j] = q[up(j)] BY <1>1, <2>2, <2>3
  <2>5. \A j \in 1..n : j # i => down(j) \in 1..(n - 1) /\ w[down(j)] = q[j]
    <3> SUFFICES ASSUME NEW j \in 1..n, j # i PROVE down(j) \in 1..(n - 1) /\ w[down(j)] = q[j] OBVIOUS
    <3>1. CASE j < i
      <4>1. down(j) = j /\ j \in 1..(n - 1) BY <1>1, <2>2, <3>1
      <4> QED BY <2>3, <3>1, <4>1
    <3>2. CASE ~(j < i)
      <4>1. down(j) = j - 1 /\ j - 1 \in 1..(n - 1) /\ ~(j - 1 < i) /\ (j - 1) + 1 = j BY <1>1, <2>2, <3>2
      <4> QED BY <2>3, <4>1
    <3> QED BY <3>1, <3>2
  <2>6. \A j, k \in 1..(n - 1) : up(j) = up(k) => j = k BY <1>1, <2>2
  <2> HIDE DEF up, down
  <2>7. Once(w)
    <3> SUFFICES ASSUME NEW j \in 1..(n - 1), NEW k \in 1..(n - 1), w[j].rid = w[k].rid PROVE j = k BY <2>3 DEF Once
    <3>1. q[up(j)].rid = q[up(k)].rid BY <2>4
    <3>2. up(j) = up(k) BY <2>4, <3>1 DEF Once
    <3> QED BY <2>6, <3>2
  <2>8. Absent(w, rid)
    <3> SUFFICES ASSUME NEW j \in 1..(n - 1), w[j].rid = rid PROVE FALSE BY <2>3 DEF Absent
    <3>1. q[up(j)].rid = q[i].rid BY <2>2, <2>4
    <3> QED BY <2>2, <2>4, <3>1 DEF Once
  <2>9. ASSUME NEW e, e.rid # rid PROVE (\E j \in 1..(n - 1) : w[j] = e) <=> \E j \in 1..n : q[j] = e
    <3>1. ASSUME NEW j \in 1..(n - 1), w[j] = e PROVE \E k \in 1..n : q[k] = e BY <2>4, <3>1
    <3>2. ASSUME NEW k \in 1..n, q[k] = e PROVE \E j \in 1..(n - 1) : w[j] = e
      <4>1. k # i BY <2>2, <2>9, <3>2
      <4> QED BY <2>5, <3>2, <4>1
    <3> QED BY <3>1, <3>2
  <2> QED BY <2>1, <2>3, <2>7, <2>8, <2>9 DEF w
<1> QED BY <1>2, <1>3

\* An event at the end of a queue.
LEMMA AppendedIs ==
  ASSUME NEW q \in Seq(Event), NEW e \in Event
  PROVE /\ Append(q, e) \in Seq(Event) /\ LastIs(Append(q, e), e.rid, e.op)
        /\ \A rid : rid # e.rid => /\ Absent(Append(q, e), rid) <=> Absent(q, rid)
                                   /\ \A op : LastIs(q, rid, op) => LastIs(Append(q, e), rid, op)
<1> DEFINE w == Append(q, e)
           n == Len(q)
<1>1. n \in Nat /\ w \in Seq(Event) /\ Len(w) = n + 1 /\ w[n + 1] = e /\ \A i \in 1..n : w[i] = q[i] OBVIOUS
<1> HIDE DEF w, n
<1>2. n + 1 \in 1..(n + 1) /\ \A j \in ((n + 1) + 1)..(n + 1) : FALSE BY <1>1
<1>3. LastIs(w, e.rid, e.op) BY <1>1, <1>2 DEF LastIs
<1>4. ASSUME NEW rid, rid # e.rid PROVE Absent(w, rid) <=> Absent(q, rid)
  <2>1. \A i \in 1..(n + 1) : i = n + 1 \/ i \in 1..n BY <1>1
  <2>2. \A i \in 1..n : i \in 1..(n + 1) BY <1>1
  <2> QED BY <1>1, <1>4, <2>1, <2>2 DEF Absent, n
<1>5. ASSUME NEW rid, rid # e.rid, NEW op, LastIs(q, rid, op) PROVE LastIs(w, rid, op)
  <2>1. PICK i \in 1..n : q[i].rid = rid /\ q[i].op = op /\ \A j \in (i + 1)..n : q[j].rid # rid BY <1>5 DEF LastIs, n
  <2>2. i \in 1..(n + 1) /\ w[i] = q[i] BY <1>1
  <2>3. \A j \in (i + 1)..(n + 1) : j = n + 1 \/ (j \in (i + 1)..n /\ j \in 1..n) BY <1>1
  <2>4. \A j \in (i + 1)..(n + 1) : w[j].rid # rid BY <1>1, <1>5, <2>1, <2>3
  <2> QED BY <1>1, <2>1, <2>2, <2>4 DEF LastIs
<1> QED BY <1>1, <1>3, <1>4, <1>5 DEF w

\* The first event is taken off a queue.
LEMMA TailIs ==
  ASSUME NEW q \in Seq(Event), q # <<>>
  PROVE /\ Tail(q) \in Seq(Event) /\ Head(q) \in Event
        /\ \A rid : rid # Head(q).rid => /\ Absent(q, rid) => Absent(Tail(q), rid)
                                         /\ \A op : LastIs(q, rid, op) => LastIs(Tail(q), rid, op)
        /\ \A op : LastIs(q, Head(q).rid, op) => \/ LastIs(Tail(q), Head(q).rid, op)
                                                 \/ op = Head(q).op /\ Absent(Tail(q), Head(q).rid)
        /\ (\E i \in 2..Len(q) : q[i].rid = Head(q).rid) => ~Absent(Tail(q), Head(q).rid)
<1> DEFINE w == Tail(q)
           h == Head(q)
           n == Len(q)
<1>1. n \in Nat /\ n >= 1 /\ w \in Seq(Event) /\ Len(w) = n - 1 /\ h \in Event /\ h = q[1] /\ \A i \in 1..(n - 1) : w[i] = q[i + 1]
  OBVIOUS
<1> HIDE DEF w, h
<1>2. ASSUME NEW rid, rid # h.rid, Absent(q, rid) PROVE Absent(w, rid)
  <2>1. \A i \in 1..(n - 1) : i + 1 \in 1..n BY <1>1
  <2> QED BY <1>1, <1>2, <2>1 DEF Absent
<1>3. ASSUME NEW rid, NEW op, LastIs(q, rid, op) PROVE LastIs(w, rid, op) \/ (rid = h.rid /\ op = h.op /\ Absent(w, rid))
  <2>1. PICK i \in 1..n : q[i].rid = rid /\ q[i].op = op /\ \A j \in (i + 1)..n : q[j].rid # rid BY <1>3 DEF LastIs
  <2>2. CASE i = 1
    <3>1. \A j \in 1..(n - 1) : j + 1 \in (i + 1)..n BY <1>1, <2>2
    <3>2. Absent(w, rid) BY <1>1, <2>1, <3>1 DEF Absent
    <3> QED BY <1>1, <2>1, <2>2, <3>2
  <2>3. CASE i # 1
    <3>1. i - 1 \in 1..(n - 1) /\ (i - 1) + 1 = i BY <1>1, <2>3
    <3>2. w[i - 1] = q[i] BY <1>1, <3>1
    <3>3. \A j \in ((i - 1) + 1)..(n - 1) : j + 1 \in (i + 1)..n /\ j \in 1..(n - 1) BY <1>1, <3>1
    <3>4. \A j \in ((i - 1) + 1)..(n - 1) : w[j].rid # rid BY <1>1, <2>1, <3>3
    <3> QED BY <1>1, <2>1, <3>1, <3>2, <3>4 DEF LastIs
  <2> QED BY <2>2, <2>3
<1>4. ASSUME NEW i \in 2..n, q[i].rid = h.rid PROVE ~Absent(w, h.rid)
  <2>1. i - 1 \in 1..(n - 1) /\ (i - 1) + 1 = i BY <1>1
  <2>2. w[i - 1] = q[i] BY <1>1, <2>1
  <2> QED BY <1>1, <1>4, <2>1, <2>2 DEF Absent
<1> QED BY <1>1, <1>2, <1>3, <1>4 DEF w, h

-----------------------------------------------------------------------------
(* A gateway's index.                                                      *)

Entry == SlotOf(Replica) \cup {NoSlot}
SpecOf(rid) == ValueOf[rid].spec
KeyOf(rid) == ValueOf[rid].key

(***************************************************************************)
(* Every replica is welcome: whatever is registered under one key has one  *)
(* schema, no two keys claim a channel pattern, and every schema is of an  *)
(* allowed tier, valid and renderable.  A replica the hash gate refuses    *)
(* stays in the bucket without being served, so the theorem is about those *)
(* it does not refuse.                                                     *)
(***************************************************************************)
Acceptable ==
    /\ \A rid \in Rids : TierAllowed(KeyOf(rid)) /\ SpecOf(rid) \notin BadSpecs \cup Unbuildable
    /\ \A rid, other \in Rids : IF KeyOf(rid) = KeyOf(other) THEN SpecOf(rid) = SpecOf(other)
                                ELSE Channels(SpecOf(rid)) \cap Channels(SpecOf(other)) = {}

\* A slot has replicas of its key, and their schema.
IndexOk(s) ==
    \A k \in Keys : s[k] # NoSlot =>
        /\ s[k].replicas # {}
        /\ \A r \in s[k].replicas : \E rid \in Rids : r = ReplicaOf(rid) /\ KeyOf(rid) = k /\ s[k].spec = SpecOf(rid)
ServedAt(s, a) ==
    {r \in Replica : /\ r.addr = a
                     /\ \E k \in LiveKeys(s) : s[k].spec.kind = "proto" /\ r \in s[k].replicas}
RefsOk(s, c) == \A a \in Addrs : IsFiniteSet(ServedAt(s, a)) /\ c[a] = Cardinality(ServedAt(s, a))

LEMMA ValuesAre ==
  ASSUME NEW rid \in Rids
  PROVE /\ KeyOf(rid) \in Keys /\ SpecOf(rid) \in Specs /\ ValueOf[rid].addr \in Addrs
        /\ ReplicaOf(rid) \in Replica /\ ReplicaOf(rid).id = rid /\ ReplicaOf(rid).addr = ValueOf[rid].addr
BY ReconcilerAssumption DEF Value, Replica, ReplicaOf, KeyOf, SpecOf

LEMMA SlotIs ==
  ASSUME NEW x \in Entry, x # NoSlot
  PROVE x \in SlotOf(Replica) /\ x.spec \in Specs /\ x.replicas \subseteq Replica /\ x.depr \in Reasons \cup {NoReason}
BY DEF Entry, SlotOf

\* Which replicas an index has, once it is well formed.
LEMMA HasIs ==
  ASSUME NEW s \in [Keys -> Entry], IndexOk(s), NEW rid \in Rids
  PROVE /\ Has(s, rid) <=> s[KeyOf(rid)] # NoSlot /\ ReplicaOf(rid) \in s[KeyOf(rid)].replicas
        /\ \A k \in Keys : s[k] # NoSlot /\ ReplicaOf(rid) \in s[k].replicas => k = KeyOf(rid) /\ s[k].spec = SpecOf(rid)
<1>1. KeyOf(rid) \in Keys /\ ReplicaOf(rid).id = rid BY ValuesAre
<1>2. Has(s, rid) <=> s[KeyOf(rid)] # NoSlot /\ \E r \in s[KeyOf(rid)].replicas : r.id = rid BY DEF Has, KeyOf
<1>3. ASSUME NEW k \in Keys, s[k] # NoSlot, NEW r \in s[k].replicas, r.id = rid
      PROVE r = ReplicaOf(rid) /\ k = KeyOf(rid) /\ s[k].spec = SpecOf(rid)
  <2>1. PICK o \in Rids : r = ReplicaOf(o) /\ KeyOf(o) = k /\ s[k].spec = SpecOf(o) BY <1>3 DEF IndexOk
  <2>2. o = rid BY <1>3, <2>1, ValuesAre
  <2> QED BY <2>1, <2>2
<1> QED BY <1>1, <1>2, <1>3

LEMMA JoinAccepted ==
  ASSUME Acceptable, NEW s \in [Keys -> Entry], IndexOk(s), NEW c, NEW rid \in Rids
  PROVE LET k == KeyOf(rid)
            joined == [s EXCEPT ![k] = JoinedSlot(s[k], NoReason, SpecOf(rid), ReplicaOf(rid))]
        IN  JoinReplica(s, c, rid) =
              <<joined, IF SpecOf(rid).kind = "proto" THEN AcquireConn(c, ValueOf[rid].addr) ELSE c>>
<1> DEFINE k == KeyOf(rid)
           joined == [s EXCEPT ![k] = JoinedSlot(s[k], NoReason, SpecOf(rid), ReplicaOf(rid))]
           v == ValueOf[rid]
<1>1. k \in Keys /\ v.key = k /\ v.spec = SpecOf(rid) BY ValuesAre DEF KeyOf, SpecOf
<1>2. \A o \in Keys : s[o] # NoSlot => \E other \in Rids : KeyOf(other) = o /\ s[o].spec = SpecOf(other) BY DEF IndexOk
<1>3. s[k] # NoSlot => s[k].spec = SpecOf(rid) BY <1>1, <1>2 DEF Acceptable
<1>4. ~PatternConflict(s, k, SpecOf(rid))
  <2> SUFFICES ASSUME NEW o \in LiveKeys(s) \ {k} PROVE Channels(s[o].spec) \cap Channels(SpecOf(rid)) = {}
    BY DEF PatternConflict
  <2>1. PICK other \in Rids : KeyOf(other) = o /\ s[o].spec = SpecOf(other) BY <1>2 DEF LiveKeys
  <2> QED BY <2>1 DEF Acceptable
<1>5. ~Rejected(s, k, SpecOf(rid)) BY <1>3, <1>4 DEF Rejected, Acceptable, Locked
<1>6. NoDeprecation[k] = NoReason BY <1>1 DEF NoDeprecation
<1>7. Join(s, NoDeprecation, k, SpecOf(rid), ReplicaOf(rid)) = joined BY <1>1, <1>6 DEF Join
<1>8. joined \in [Keys -> Entry \cup {JoinedSlot(s[k], NoReason, SpecOf(rid), ReplicaOf(rid))}] /\ \A o \in Keys \ {k} : joined[o] = s[o]
  BY <1>1
<1>9. joined[k].spec = SpecOf(rid)
  <2>1. joined[k] = JoinedSlot(s[k], NoReason, SpecOf(rid), ReplicaOf(rid)) BY <1>1
  <2>2. CASE s[k] # NoSlot
    <3>1. s[k] \in SlotOf(Replica) BY <1>1, <2>2, SlotIs
    <3>2. [s[k] EXCEPT !.replicas = @ \cup {ReplicaOf(rid)}].spec = s[k].spec BY <3>1 DEF SlotOf
    <3> QED BY <1>3, <2>1, <2>2, <3>2 DEF JoinedSlot
  <2>3. CASE s[k] = NoSlot BY <2>1, <2>3 DEF JoinedSlot
  <2> QED BY <2>2, <2>3
<1>10. Buildable(joined)
  <2> SUFFICES ASSUME NEW o \in LiveKeys(joined) PROVE joined[o].spec \notin Unbuildable BY DEF Buildable
  <2>1. CASE o = k BY <1>9, <2>1 DEF Acceptable
  <2>2. CASE o # k
    <3>1. o \in Keys /\ joined[o] = s[o] /\ s[o] # NoSlot BY <1>8, <2>2 DEF LiveKeys
    <3>2. PICK other \in Rids : s[o].spec = SpecOf(other) BY <1>2, <3>1
    <3> QED BY <3>1, <3>2 DEF Acceptable
  <2> QED BY <2>1, <2>2
<1>11. SpecOf(rid) \notin BadSpecs BY DEF Acceptable
<1> DEFINE dialed == IF SpecOf(rid).kind = "proto" THEN AcquireConn(c, v.addr) ELSE c
<1>12. JoinReplica(s, c, rid) =
         CASE Rejected(s, k, SpecOf(rid)) -> <<s, c>>
          [] ~Rejected(s, k, SpecOf(rid)) /\ Existed(s, k, SpecOf(rid)) -> <<joined, dialed>>
          [] ~Rejected(s, k, SpecOf(rid)) /\ ~Existed(s, k, SpecOf(rid)) ->
               IF SpecOf(rid) \in BadSpecs THEN <<[s EXCEPT ![k] = NoSlot], c>>
               ELSE IF Buildable(joined) THEN <<joined, dialed>>
               ELSE <<joined, c>>
  BY <1>1, <1>7, Zenon DEF JoinReplica, KeyOf, SpecOf
<1> HIDE DEF joined, dialed, k
<1>13. JoinReplica(s, c, rid) = <<joined, dialed>> BY <1>5, <1>10, <1>11, <1>12
<1> QED BY <1>13 DEF joined, dialed, k

\* A slot that gains, or is made for, a replica.
LEMMA JoinedIs ==
  ASSUME Acceptable, NEW s \in [Keys -> Entry], IndexOk(s), NEW rid \in Rids
  PROVE LET x == JoinedSlot(s[KeyOf(rid)], NoReason, SpecOf(rid), ReplicaOf(rid))
        IN  /\ x \in SlotOf(Replica) /\ x.spec = SpecOf(rid)
            /\ x.replicas = (IF s[KeyOf(rid)] = NoSlot THEN {} ELSE s[KeyOf(rid)].replicas) \cup {ReplicaOf(rid)}
<1> DEFINE old == s[KeyOf(rid)]
           x == JoinedSlot(old, NoReason, SpecOf(rid), ReplicaOf(rid))
<1>1. KeyOf(rid) \in Keys /\ ReplicaOf(rid) \in Replica /\ SpecOf(rid) \in Specs BY ValuesAre
<1>2. CASE old # NoSlot
  <2>1. old \in SlotOf(Replica) /\ old.replicas \subseteq Replica BY <1>1, <1>2, SlotIs
  <2>2. old.spec = SpecOf(rid) BY <1>1, <1>2 DEF IndexOk, Acceptable
  <2> DEFINE R == old.replicas \cup {ReplicaOf(rid)}
  <2>3. R \subseteq Replica BY <1>1, <2>1
  <2>4. x = [old EXCEPT !.replicas = R] BY <1>2, <2>2 DEF JoinedSlot
  <2> HIDE DEF R, old, x
  <2>5. x \in SlotOf(Replica) /\ x.spec = old.spec /\ x.replicas = R BY <2>1, <2>3, <2>4 DEF SlotOf
  <2> QED BY <1>2, <2>2, <2>5 DEF R, x, old
<1>3. CASE old = NoSlot
  <2>1. x = [spec |-> SpecOf(rid), depr |-> NoReason, replicas |-> {ReplicaOf(rid)}] BY <1>3 DEF JoinedSlot
  <2>2. x \in SlotOf(Replica) BY <1>1, <2>1 DEF SlotOf
  <2> QED BY <1>3, <2>1, <2>2
<1> QED BY <1>2, <1>3

\* The proto replicas at an address are those an index has.
ProtoAt(rid, a) == SpecOf(rid).kind = "proto" /\ ValueOf[rid].addr = a

LEMMA ServedIs ==
  ASSUME NEW s \in [Keys -> Entry], IndexOk(s), NEW a
  PROVE \A r : r \in ServedAt(s, a) <=> \E rid \in Rids : r = ReplicaOf(rid) /\ Has(s, rid) /\ ProtoAt(rid, a)
<1>1. ASSUME NEW r \in ServedAt(s, a) PROVE \E rid \in Rids : r = ReplicaOf(rid) /\ Has(s, rid) /\ ProtoAt(rid, a)
  <2>1. PICK k \in Keys : s[k] # NoSlot /\ s[k].spec.kind = "proto" /\ r \in s[k].replicas BY DEF ServedAt, LiveKeys
  <2>2. PICK rid \in Rids : r = ReplicaOf(rid) /\ KeyOf(rid) = k /\ s[k].spec = SpecOf(rid) BY <2>1 DEF IndexOk
  <2>3. Has(s, rid) BY <2>1, <2>2, HasIs
  <2>4. r.addr = a BY DEF ServedAt
  <2>5. ProtoAt(rid, a) BY <2>1, <2>2, <2>4, ValuesAre DEF ProtoAt
  <2> QED BY <2>2, <2>3, <2>5
<1>2. ASSUME NEW rid \in Rids, Has(s, rid), ProtoAt(rid, a) PROVE ReplicaOf(rid) \in ServedAt(s, a)
  <2>1. s[KeyOf(rid)] # NoSlot /\ ReplicaOf(rid) \in s[KeyOf(rid)].replicas /\ KeyOf(rid) \in Keys BY <1>2, HasIs, ValuesAre
  <2>2. s[KeyOf(rid)].spec = SpecOf(rid) BY <2>1, HasIs
  <2>3. ReplicaOf(rid) \in Replica /\ ReplicaOf(rid).addr = a BY <1>2, ValuesAre DEF ProtoAt
  <2> QED BY <1>2, <2>1, <2>2, <2>3 DEF ServedAt, LiveKeys, ProtoAt
<1> QED BY <1>1, <1>2

\* One replica more.
LEMMA OneMore ==
  ASSUME NEW s \in [Keys -> Entry], IndexOk(s), NEW t \in [Keys -> Entry], IndexOk(t), NEW rid \in Rids,
         ~Has(s, rid), \A o \in Rids : Has(t, o) <=> Has(s, o) \/ o = rid,
         NEW c \in [Addrs -> Nat], RefsOk(s, c)
  PROVE RefsOk(t, IF SpecOf(rid).kind = "proto" THEN AcquireConn(c, ValueOf[rid].addr) ELSE c)
<1> DEFINE e == IF SpecOf(rid).kind = "proto" THEN AcquireConn(c, ValueOf[rid].addr) ELSE c
<1> SUFFICES ASSUME NEW a \in Addrs PROVE IsFiniteSet(ServedAt(t, a)) /\ e[a] = Cardinality(ServedAt(t, a))
  BY DEF RefsOk
<1>1. IsFiniteSet(ServedAt(s, a)) /\ c[a] = Cardinality(ServedAt(s, a)) BY DEF RefsOk
<1>2. CASE ProtoAt(rid, a)
  <2>1. ServedAt(t, a) = ServedAt(s, a) \cup {ReplicaOf(rid)}
    <3>1. \A r : r \in ServedAt(t, a) <=> r \in ServedAt(s, a) \/ r = ReplicaOf(rid) BY <1>2, ServedIs
    <3> QED BY <3>1
  <2>2. ReplicaOf(rid) \notin ServedAt(s, a)
    <3>1. \A o \in Rids : ReplicaOf(o) = ReplicaOf(rid) => o = rid BY ValuesAre
    <3> QED BY <3>1, ServedIs
  <2>3. IsFiniteSet(ServedAt(t, a)) /\ Cardinality(ServedAt(t, a)) = Cardinality(ServedAt(s, a)) + 1
    BY <1>1, <2>1, <2>2, FS_AddElement
  <2>4. e[a] = c[a] + 1 BY <1>2 DEF ProtoAt, AcquireConn
  <2> QED BY <1>1, <2>3, <2>4
<1>3. CASE ~ProtoAt(rid, a)
  <2>1. ServedAt(t, a) = ServedAt(s, a)
    <3>1. \A r : r \in ServedAt(t, a) <=> r \in ServedAt(s, a) BY <1>3, ServedIs
    <3> QED BY <3>1
  <2>2. e[a] = c[a] BY <1>3 DEF ProtoAt, AcquireConn
  <2> QED BY <1>1, <2>1, <2>2
<1> QED BY <1>2, <1>3

\* One replica less.
LEMMA OneLess ==
  ASSUME NEW s \in [Keys -> Entry], IndexOk(s), NEW t \in [Keys -> Entry], IndexOk(t), NEW rid \in Rids,
         Has(s, rid), \A o \in Rids : Has(t, o) <=> Has(s, o) /\ o # rid,
         NEW c \in [Addrs -> Nat], RefsOk(s, c)
  PROVE RefsOk(t, IF SpecOf(rid).kind = "proto" THEN ReleaseConn(c, ValueOf[rid].addr) ELSE c)
<1> DEFINE e == IF SpecOf(rid).kind = "proto" THEN ReleaseConn(c, ValueOf[rid].addr) ELSE c
<1> SUFFICES ASSUME NEW a \in Addrs PROVE IsFiniteSet(ServedAt(t, a)) /\ e[a] = Cardinality(ServedAt(t, a))
  BY DEF RefsOk
<1>1. IsFiniteSet(ServedAt(s, a)) /\ c[a] = Cardinality(ServedAt(s, a)) BY DEF RefsOk
<1>2. CASE ProtoAt(rid, a)
  <2>0. \A o \in Rids : ReplicaOf(o) = ReplicaOf(rid) => o = rid BY ValuesAre
  <2>1. ServedAt(t, a) = ServedAt(s, a) \ {ReplicaOf(rid)}
    <3>1. \A r : r \in ServedAt(t, a) <=> r \in ServedAt(s, a) /\ r # ReplicaOf(rid) BY <1>2, <2>0, ServedIs
    <3> QED BY <3>1
  <2>2. ReplicaOf(rid) \in ServedAt(s, a) BY <1>2, ServedIs
  <2>3. IsFiniteSet(ServedAt(t, a)) /\ Cardinality(ServedAt(t, a)) = Cardinality(ServedAt(s, a)) - 1
    BY <1>1, <2>1, <2>2, FS_RemoveElement
  <2>4. Cardinality(ServedAt(s, a)) # 0 BY <1>1, <2>2, FS_EmptySet
  <2>5. c[a] > 0 /\ c[a] \in Nat BY <1>1, <2>4
  <2>6. e[a] = c[a] - 1 BY <1>2, <2>5 DEF ProtoAt, ReleaseConn
  <2> QED BY <1>1, <2>3, <2>6
<1>3. CASE ~ProtoAt(rid, a)
  <2>1. ServedAt(t, a) = ServedAt(s, a)
    <3>1. \A r : r \in ServedAt(t, a) <=> r \in ServedAt(s, a)
      <4>1. \A o \in Rids : ProtoAt(o, a) => o # rid BY <1>3
      <4> QED BY <4>1, ServedIs
    <3> QED BY <3>1
  <2>2. e[a] = c[a] BY <1>3 DEF ProtoAt, ReleaseConn
  <2> QED BY <1>1, <2>1, <2>2
<1> QED BY <1>2, <1>3

\* The put of a replica that is not there.
LEMMA PutIndex ==
  ASSUME Acceptable, NEW s \in [Keys -> Entry], IndexOk(s), NEW c \in [Addrs -> Nat], RefsOk(s, c),
         NEW rid \in Rids, ~Has(s, rid), NEW t, NEW e, JoinReplica(s, c, rid) = <<t, e>>
  PROVE /\ t \in [Keys -> Entry] /\ IndexOk(t) /\ e \in [Addrs -> Nat] /\ RefsOk(t, e)
        /\ \A o \in Rids : Has(t, o) <=> Has(s, o) \/ o = rid
<1> DEFINE k == KeyOf(rid)
           x == JoinedSlot(s[k], NoReason, SpecOf(rid), ReplicaOf(rid))
           dialed == IF SpecOf(rid).kind = "proto" THEN AcquireConn(c, ValueOf[rid].addr) ELSE c
<1>1. k \in Keys /\ ValueOf[rid].addr \in Addrs BY ValuesAre
<1>2. t = [s EXCEPT ![k] = x] /\ e = dialed BY JoinAccepted
<1>3. /\ x \in SlotOf(Replica) /\ x.spec = SpecOf(rid)
      /\ x.replicas = (IF s[k] = NoSlot THEN {} ELSE s[k].replicas) \cup {ReplicaOf(rid)}
  BY JoinedIs
<1> HIDE DEF x
<1>4. t \in [Keys -> Entry] /\ t[k] = x /\ \A o \in Keys \ {k} : t[o] = s[o] BY <1>1, <1>2, <1>3 DEF Entry
<1>5. x # NoSlot BY <1>3, ReconcilerAssumption
<1>6. IndexOk(t)
  <2> SUFFICES ASSUME NEW o \in Keys, t[o] # NoSlot
               PROVE /\ t[o].replicas # {}
                     /\ \A r \in t[o].replicas : \E z \in Rids : r = ReplicaOf(z) /\ KeyOf(z) = o /\ t[o].spec = SpecOf(z)
    BY DEF IndexOk
  <2>1. CASE o # k BY <1>4, <2>1 DEF IndexOk
  <2>2. CASE o = k
    <3>1. ASSUME NEW r \in x.replicas PROVE \E z \in Rids : r = ReplicaOf(z) /\ KeyOf(z) = k /\ x.spec = SpecOf(z)
      <4>1. CASE r = ReplicaOf(rid) BY <1>3, <4>1
      <4>2. CASE s[k] # NoSlot /\ r \in s[k].replicas
        <5>1. PICK z \in Rids : r = ReplicaOf(z) /\ KeyOf(z) = k BY <1>1, <4>2 DEF IndexOk
        <5>2. SpecOf(z) = SpecOf(rid) BY <5>1 DEF Acceptable
        <5> QED BY <1>3, <5>1, <5>2
      <4> QED BY <1>3, <4>1, <4>2
    <3> QED BY <1>3, <1>4, <2>2, <3>1
  <2> QED BY <2>1, <2>2
<1>7. ASSUME NEW o \in Rids PROVE Has(t, o) <=> Has(s, o) \/ o = rid
  <2>1. KeyOf(o) \in Keys /\ (ReplicaOf(o) = ReplicaOf(rid) <=> o = rid) BY ValuesAre
  <2>2. Has(t, o) <=> t[KeyOf(o)] # NoSlot /\ ReplicaOf(o) \in t[KeyOf(o)].replicas BY <1>4, <1>6, HasIs
  <2>3. Has(s, o) <=> s[KeyOf(o)] # NoSlot /\ ReplicaOf(o) \in s[KeyOf(o)].replicas BY HasIs
  <2>4. CASE KeyOf(o) = k BY <1>3, <1>4, <1>5, <2>1, <2>2, <2>3, <2>4
  <2>5. CASE KeyOf(o) # k BY <1>4, <2>1, <2>2, <2>3, <2>5
  <2> QED BY <2>4, <2>5
<1>8. RefsOk(t, dialed) BY <1>4, <1>6, <1>7, OneMore
<1>9. dialed \in [Addrs -> Nat] BY <1>1 DEF AcquireConn
<1> QED BY <1>2, <1>4, <1>6, <1>7, <1>8, <1>9

\* The delete of a replica that is there.
LEMMA DeleteIndex ==
  ASSUME NEW s \in [Keys -> Entry], IndexOk(s), NEW c \in [Addrs -> Nat], RefsOk(s, c), NEW rid \in Rids, Has(s, rid)
  PROVE LET k == KeyOf(rid)
            t == [s EXCEPT ![k] = WithoutReplicas(s[k], {r \in s[k].replicas : r.id = rid})]
            e == IF s[k].spec.kind = "proto" THEN ReleaseConn(c, ValueOf[rid].addr) ELSE c
        IN  /\ t \in [Keys -> Entry] /\ IndexOk(t) /\ e \in [Addrs -> Nat] /\ RefsOk(t, e)
            /\ \A o \in Rids : Has(t, o) <=> Has(s, o) /\ o # rid
<1> DEFINE k == KeyOf(rid)
           R == {r \in s[k].replicas : r.id = rid}
           x == WithoutReplicas(s[k], R)
           t == [s EXCEPT ![k] = x]
           e == IF s[k].spec.kind = "proto" THEN ReleaseConn(c, ValueOf[rid].addr) ELSE c
<1>1. k \in Keys /\ ValueOf[rid].addr \in Addrs BY ValuesAre
<1>2. s[k] # NoSlot /\ ReplicaOf(rid) \in s[k].replicas /\ s[k].spec = SpecOf(rid) BY <1>1, HasIs
<1>3. s[k] \in SlotOf(Replica) /\ s[k].replicas \subseteq Replica BY <1>1, <1>2, SlotIs
<1>4. R = {ReplicaOf(rid)}
  <2>1. \A r \in s[k].replicas : r.id = rid <=> r = ReplicaOf(rid)
    <3> SUFFICES ASSUME NEW r \in s[k].replicas PROVE r.id = rid <=> r = ReplicaOf(rid) OBVIOUS
    <3>1. PICK o \in Rids : r = ReplicaOf(o) BY <1>1, <1>2 DEF IndexOk
    <3> QED BY <3>1, ValuesAre
  <2> QED BY <1>2, <2>1
<1> HIDE DEF R
<1> DEFINE left == s[k].replicas \ {ReplicaOf(rid)}
<1>5. \/ x = NoSlot /\ left = {}
      \/ x \in SlotOf(Replica) /\ x # NoSlot /\ x.spec = s[k].spec /\ x.replicas = left /\ left # {}
  <2>1. s[k].replicas \cap R # {} BY <1>2, <1>4
  <2>2. CASE s[k].replicas \subseteq R BY <1>2, <1>4, <2>1, <2>2 DEF WithoutReplicas
  <2>3. CASE ~(s[k].replicas \subseteq R)
    <3>1. x = [s[k] EXCEPT !.replicas = left] BY <1>2, <1>4, <2>1, <2>3 DEF WithoutReplicas
    <3>2. left # {} /\ left \subseteq Replica BY <1>3, <1>4, <2>3
    <3> HIDE DEF left, x
    <3>3. x \in SlotOf(Replica) /\ x.spec = s[k].spec /\ x.replicas = left BY <1>3, <3>1, <3>2 DEF SlotOf
    <3> QED BY <3>2, <3>3, ReconcilerAssumption
  <2> QED BY <2>2, <2>3
<1> HIDE DEF x
<1>6. t \in [Keys -> Entry] /\ t[k] = x /\ \A o \in Keys \ {k} : t[o] = s[o] BY <1>1, <1>5 DEF Entry
<1> HIDE DEF t
<1>7. IndexOk(t)
  <2> SUFFICES ASSUME NEW o \in Keys, t[o] # NoSlot
               PROVE /\ t[o].replicas # {}
                     /\ \A r \in t[o].replicas : \E z \in Rids : r = ReplicaOf(z) /\ KeyOf(z) = o /\ t[o].spec = SpecOf(z)
    BY DEF IndexOk
  <2>1. CASE o # k BY <1>6, <2>1 DEF IndexOk
  <2>2. CASE o = k BY <1>1, <1>2, <1>5, <1>6, <2>2 DEF IndexOk
  <2> QED BY <2>1, <2>2
<1>8. ASSUME NEW o \in Rids PROVE Has(t, o) <=> Has(s, o) /\ o # rid
  <2>1. KeyOf(o) \in Keys /\ (ReplicaOf(o) = ReplicaOf(rid) <=> o = rid) BY ValuesAre
  <2>2. Has(t, o) <=> t[KeyOf(o)] # NoSlot /\ ReplicaOf(o) \in t[KeyOf(o)].replicas BY <1>6, <1>7, HasIs
  <2>3. Has(s, o) <=> s[KeyOf(o)] # NoSlot /\ ReplicaOf(o) \in s[KeyOf(o)].replicas BY HasIs
  <2>4. CASE KeyOf(o) = k BY <1>2, <1>5, <1>6, <2>1, <2>2, <2>3, <2>4
  <2>5. CASE KeyOf(o) # k BY <1>6, <2>1, <2>2, <2>3, <2>5
  <2> QED BY <2>4, <2>5
<1>9. e = IF SpecOf(rid).kind = "proto" THEN ReleaseConn(c, ValueOf[rid].addr) ELSE c BY <1>2
<1>10. RefsOk(t, e) BY <1>6, <1>7, <1>8, <1>9, OneLess
<1>11. e \in [Addrs -> Nat] BY <1>1 DEF ReleaseConn
<1> QED BY <1>6, <1>7, <1>8, <1>10, <1>11 DEF t, x, R

-----------------------------------------------------------------------------
(***************************************************************************)
(* The inductive invariant.  The bucket has at most one revision of a key, *)
(* and nothing reaches a queue that is not in it.  What a gateway serves   *)
(* of a key is what the bucket says, or else the last event for it in the  *)
(* gateway's queue is what the bucket says: so whatever is skipped,        *)
(* replayed or repeated before that one, it is made good by it.            *)
(***************************************************************************)
CallData ==
    /\ regs \subseteq Regs /\ used \subseteq Regs
    /\ call \in [Gateways -> Call \cup {Idle}]
    /\ beats \in [Regs -> Seq(Rids)] /\ deletes \in [Regs -> Seq(Rids)]
    /\ sent \in 0..MaxBeats /\ crashes \in 0..MaxCrashes
BucketData == kv \in Seq(Event) /\ queue \in [Gateways -> Seq(Event)]
IndexData ==
    /\ slots \in [Gateways -> [Keys -> Entry]] /\ conns \in [Gateways -> [Addrs -> Nat]]
    /\ \A g \in Gateways : IndexOk(slots[g]) /\ RefsOk(slots[g], conns[g])
QueuedIsKept == \A g \in Gateways, rid \in Rids : Absent(kv, rid) => Absent(queue[g], rid)

\* A gateway with queue q and index s comes to what the bucket says of a key.
Comes(q, s, rid, there) ==
    \/ Absent(q, rid) /\ (Has(s, rid) <=> there)
    \/ LastIs(q, rid, "put") /\ there
    \/ LastIs(q, rid, "del") /\ ~there
Mirrored == \A g \in Gateways, rid \in Rids : Comes(queue[g], slots[g], rid, Present(rid))

RInv == CallData /\ BucketData /\ IndexData /\ Once(kv) /\ QueuedIsKept /\ Mirrored

LEMMA TypesOk == RInv => TypeOK
BY DEF RInv, CallData, BucketData, IndexData, TypeOK, Entry

LEMMA MirrorHolds == RInv => IndexMirrorsBucket
<1> SUFFICES ASSUME RInv PROVE IndexMirrorsBucket OBVIOUS
<1>1. ConnRefsExact
  <2>1. \A g \in Gateways, a \in Addrs : ProtoReplicas(g, a) = ServedAt(slots[g], a) BY DEF ProtoReplicas, ServedAt
  <2> QED BY <2>1 DEF ConnRefsExact, RInv, IndexData, RefsOk
<1>2. ASSUME NEW g \in Gateways, queue[g] = <<>>, NEW rid \in Rids PROVE Has(slots[g], rid) <=> Present(rid)
  <2>1. \A op : ~LastIs(queue[g], rid, op) BY <1>2 DEF LastIs
  <2> QED BY <2>1 DEF RInv, Mirrored, Comes
<1> QED BY <1>1, <1>2 DEF IndexMirrorsBucket

LEMMA EmptyIs ==
  /\ EmptyIndex \in [Keys -> Entry] /\ IndexOk(EmptyIndex)
  /\ RefsOk(EmptyIndex, [a \in Addrs |-> 0]) /\ [a \in Addrs |-> 0] \in [Addrs -> Nat]
  /\ \A rid \in Rids : ~Has(EmptyIndex, rid)
<1>1. EmptyIndex \in [Keys -> Entry] /\ \A k \in Keys : EmptyIndex[k] = NoSlot BY DEF EmptyIndex, Entry
<1>2. IndexOk(EmptyIndex) BY <1>1 DEF IndexOk
<1>3. \A a : ServedAt(EmptyIndex, a) = {} BY <1>1 DEF ServedAt, LiveKeys
<1>4. RefsOk(EmptyIndex, [a \in Addrs |-> 0]) BY <1>3, FS_EmptySet DEF RefsOk
<1>5. \A rid \in Rids : ~Has(EmptyIndex, rid)
  <2> SUFFICES ASSUME NEW rid \in Rids, Has(EmptyIndex, rid) PROVE FALSE OBVIOUS
  <2>1. EmptyIndex[KeyOf(rid)] # NoSlot BY DEF Has, KeyOf
  <2> QED BY <1>1, <2>1, ValuesAre
<1> QED BY <1>1, <1>2, <1>4, <1>5

LEMMA RInit == Init => RInv
<1> SUFFICES ASSUME Init PROVE RInv OBVIOUS
<1>1. CallData BY ReconcilerAssumption DEF Init, CallData
<1>2. BucketData BY DEF Init, BucketData
<1>3. IndexData BY EmptyIs DEF Init, IndexData
<1>4. Once(kv) /\ QueuedIsKept BY DEF Init, Once, QueuedIsKept, Absent
<1>5. Mirrored
  <2>1. \A rid : ~Present(rid) BY DEF Init, Present
  <2>2. \A g \in Gateways, rid \in Rids : Absent(queue[g], rid) /\ ~Has(slots[g], rid) BY EmptyIs DEF Init, Absent
  <2> QED BY <2>1, <2>2 DEF Mirrored, Comes
<1> QED BY <1>1, <1>2, <1>3, <1>4, <1>5 DEF RInv

\* A write of the bucket.
LEMMA WriteKv ==
  ASSUME BucketData, Once(kv), NEW rid \in Rids, NEW op \in {"put", "del"}, Write(rid, op)
  PROVE /\ kv' \in Seq(Event) /\ Once(kv') /\ ~Absent(kv', rid) /\ (Present(rid)' <=> op = "put")
        /\ \A o \in Rids : o # rid => (Present(o)' <=> Present(o)) /\ (Absent(kv', o) <=> Absent(kv, o))
<1> DEFINE e == [rid |-> rid, op |-> op]
           w == Without(kv, rid)
           n == Len(w)
<1>1. e \in Event /\ e.rid = rid /\ e.op = op BY DEF Event
<1>2. /\ w \in Seq(Event) /\ Once(w) /\ Absent(w, rid)
      /\ \A x : x.rid # rid => ((\E i \in 1..Len(w) : w[i] = x) <=> \E i \in 1..Len(kv) : kv[i] = x)
  BY WithoutIs DEF BucketData
<1>3. kv' = Append(w, e) BY DEF Write
<1> HIDE DEF w, e
<1>4. n \in Nat /\ kv' \in Seq(Event) /\ Len(kv') = n + 1 /\ kv'[n + 1] = e /\ \A i \in 1..n : kv'[i] = w[i] BY <1>1, <1>2, <1>3
<1> HIDE DEF n
<1>5. \A i \in 1..(n + 1) : i = n + 1 \/ i \in 1..n BY <1>4
<1>6. n + 1 \in 1..(n + 1) /\ \A i \in 1..n : i \in 1..(n + 1) BY <1>4
<1>7. \A i \in 1..n : w[i].rid # rid BY <1>2 DEF Absent, n
<1>8. Once(kv')
  <2> SUFFICES ASSUME NEW i \in 1..(n + 1), NEW j \in 1..(n + 1), kv'[i].rid = kv'[j].rid PROVE i = j
    BY <1>4 DEF Once
  <2>1. CASE i \in 1..n /\ j \in 1..n BY <1>2, <1>4, <2>1 DEF Once, n
  <2>2. CASE i = n + 1 /\ j \in 1..n BY <1>1, <1>4, <1>7, <2>2
  <2>3. CASE j = n + 1 /\ i \in 1..n BY <1>1, <1>4, <1>7, <2>3
  <2> QED BY <1>5, <2>1, <2>2, <2>3
<1>9. ~Absent(kv', rid) BY <1>1, <1>4, <1>6 DEF Absent
<1>10. \A x : (\E i \in 1..Len(kv') : kv'[i] = x) <=> x = e \/ \E i \in 1..n : w[i] = x
  BY <1>4, <1>5, <1>6
<1>11. ASSUME NEW o \in Rids PROVE Present(o)' <=> \E i \in 1..Len(kv') : kv'[i] = [rid |-> o, op |-> "put"]
  BY DEF Present
<1>12. Present(rid)' <=> op = "put"
  <2> DEFINE x == [rid |-> rid, op |-> "put"]
  <2>1. x.rid = rid OBVIOUS
  <2>2. x = e <=> op = "put" BY DEF e
  <2> HIDE DEF x
  <2>3. ~\E i \in 1..n : w[i] = x BY <1>7, <2>1
  <2>4. (\E i \in 1..Len(kv') : kv'[i] = x) <=> op = "put" BY <1>10, <2>2, <2>3
  <2> QED BY <1>11, <2>4 DEF x
<1>13. ASSUME NEW o \in Rids, o # rid PROVE Present(o)' <=> Present(o)
  <2> DEFINE x == [rid |-> o, op |-> "put"]
  <2>1. x.rid = o OBVIOUS
  <2>2. Present(o) <=> \E i \in 1..Len(kv) : kv[i] = x BY DEF Present
  <2>3. Present(o)' <=> \E i \in 1..Len(kv') : kv'[i] = x BY <1>11
  <2> HIDE DEF x
  <2>4. x # e BY <1>1, <1>13, <2>1
  <2>5. (\E i \in 1..n : w[i] = x) <=> \E i \in 1..Len(kv) : kv[i] = x BY <1>2, <1>13, <2>1 DEF n
  <2> QED BY <1>10, <2>2, <2>3, <2>4, <2>5
<1>14. ASSUME NEW o \in Rids, o # rid PROVE Absent(kv', o) <=> Absent(kv, o)
  <2>1. Absent(kv', o) <=> \A x : (\E i \in 1..Len(kv') : kv'[i] = x) => x.rid # o BY DEF Absent
  <2>2. Absent(kv, o) <=> \A x : (\E i \in 1..Len(kv) : kv[i] = x) => x.rid # o BY DEF Absent
  <2>3. ASSUME NEW x, x.rid = o PROVE (\E i \in 1..Len(kv') : kv'[i] = x) <=> \E i \in 1..Len(kv) : kv[i] = x
    BY <1>1, <1>2, <1>10, <1>14, <2>3 DEF n
  <2> QED BY <2>1, <2>2, <2>3
<1> QED BY <1>4, <1>8, <1>9, <1>12, <1>13, <1>14

LEMMA WriteStep ==
  ASSUME RInv, NEW rid \in Rids, NEW op \in {"put", "del"}, Write(rid, op), UNCHANGED <<slots, conns>>, CallData'
  PROVE RInv'
<1> DEFINE e == [rid |-> rid, op |-> op]
<1>1. e \in Event /\ e.rid = rid /\ e.op = op BY DEF Event
<1>2. /\ kv' \in Seq(Event) /\ Once(kv') /\ ~Absent(kv', rid) /\ (Present(rid)' <=> op = "put")
      /\ \A o \in Rids : o # rid => (Present(o)' <=> Present(o)) /\ (Absent(kv', o) <=> Absent(kv, o))
  BY WriteKv DEF RInv
<1>3. queue' = [g \in Gateways |-> Append(queue[g], e)] BY DEF Write
<1> HIDE DEF e
<1>4. ASSUME NEW g \in Gateways
      PROVE /\ queue'[g] \in Seq(Event) /\ LastIs(queue'[g], rid, op)
            /\ \A o : o # rid => /\ Absent(queue'[g], o) <=> Absent(queue[g], o)
                                 /\ \A p : LastIs(queue[g], o, p) => LastIs(queue'[g], o, p)
  <2>1. queue[g] \in Seq(Event) BY DEF RInv, BucketData
  <2>2. queue'[g] = Append(queue[g], e) BY <1>3
  <2> QED BY <1>1, <2>1, <2>2, AppendedIs
<1>5. BucketData' BY <1>2, <1>3, <1>4 DEF BucketData
<1>6. IndexData' BY DEF RInv, IndexData
<1>7. QueuedIsKept'
  <2> SUFFICES ASSUME NEW g \in Gateways, NEW o \in Rids, Absent(kv', o) PROVE Absent(queue'[g], o) BY DEF QueuedIsKept
  <2>1. o # rid /\ Absent(kv, o) BY <1>2
  <2> QED BY <1>4, <2>1 DEF RInv, QueuedIsKept
<1>8. Mirrored'
  <2> SUFFICES ASSUME NEW g \in Gateways, NEW o \in Rids PROVE Comes(queue'[g], slots[g], o, Present(o)') BY DEF Mirrored
  <2>1. CASE o = rid BY <1>2, <1>4, <2>1 DEF Comes
  <2>2. CASE o # rid
    <3>1. Comes(queue[g], slots[g], o, Present(o)) BY DEF RInv, Mirrored
    <3> QED BY <1>2, <1>4, <2>2, <3>1 DEF Comes
  <2> QED BY <2>1, <2>2
<1> QED BY <1>2, <1>5, <1>6, <1>7, <1>8 DEF RInv

LEMMA QuietStep ==
  ASSUME RInv, UNCHANGED <<kv, queue, slots, conns>>, CallData'
  PROVE RInv'
<1>1. BucketData' /\ IndexData' /\ Once(kv') /\ QueuedIsKept' BY DEF RInv, BucketData, IndexData, QueuedIsKept
<1>2. Mirrored'
  <2>1. \A rid \in Rids : Present(rid)' <=> Present(rid) BY DEF Present
  <2> SUFFICES ASSUME NEW g \in Gateways, NEW rid \in Rids PROVE Comes(queue[g], slots[g], rid, Present(rid)') BY DEF Mirrored
  <2>2. Comes(queue[g], slots[g], rid, Present(rid)) BY DEF RInv, Mirrored
  <2> QED BY <2>1, <2>2 DEF Comes
<1> QED BY <1>1, <1>2 DEF RInv

\* A queue that starts over with the bucket.
LEMMA Replayed ==
  ASSUME BucketData, Once(kv), NEW rid \in Rids, NEW s, Absent(kv, rid) => ~Has(s, rid)
  PROVE Comes(kv, s, rid, Present(rid))
<1> DEFINE n == Len(kv)
<1>1. n \in Nat /\ \A i \in 1..n : kv[i] \in Event BY DEF BucketData
<1>2. CASE Absent(kv, rid)
  <2>1. ~Present(rid)
    <3> SUFFICES ASSUME NEW i \in 1..Len(kv), kv[i] = [rid |-> rid, op |-> "put"] PROVE FALSE BY DEF Present
    <3>1. kv[i].rid = rid OBVIOUS
    <3> QED BY <1>2, <3>1 DEF Absent
  <2> QED BY <1>2, <2>1 DEF Comes
<1>3. CASE ~Absent(kv, rid)
  <2>1. PICK i \in 1..n : kv[i].rid = rid BY <1>3 DEF Absent
  <2>2. \A j \in (i + 1)..n : j \in 1..n /\ j # i BY <1>1
  <2>3. \A j \in (i + 1)..n : kv[j].rid # rid BY <2>1, <2>2 DEF Once
  <2>4. LastIs(kv, rid, kv[i].op) BY <2>1, <2>3 DEF LastIs
  <2>5. kv[i] \in Event BY <1>1
  <2>6. kv[i].op \in {"put", "del"} /\ kv[i] = [rid |-> kv[i].rid, op |-> kv[i].op] BY <2>5 DEF Event
  <2>7. CASE kv[i].op = "put"
    <3>1. Present(rid) BY <2>1, <2>6, <2>7 DEF Present
    <3> QED BY <2>4, <2>7, <3>1 DEF Comes
  <2>8. CASE kv[i].op = "del"
    <3>1. ~Present(rid)
      <4> SUFFICES ASSUME NEW j \in 1..n, kv[j] = [rid |-> rid, op |-> "put"] PROVE FALSE BY DEF Present
      <4>1. kv[j].rid = rid /\ kv[j].op = "put" OBVIOUS
      <4>2. j = i BY <2>1, <4>1 DEF Once
      <4> QED BY <2>8, <4>1, <4>2
    <3> QED BY <2>4, <2>8, <3>1 DEF Comes
  <2> QED BY <2>6, <2>7, <2>8
<1> QED BY <1>2, <1>3

\* A watch that starts over, with the gateway's index as it was or empty.
LEMMA WatchAnew ==
  ASSUME RInv, NEW g \in Gateways, UNCHANGED kv, queue' = [queue EXCEPT ![g] = kv], CallData', IndexData',
         \A h \in Gateways : h # g => slots'[h] = slots[h],
         slots'[g] \in {slots[g], EmptyIndex}
  PROVE RInv'
<1>1. queue' \in [Gateways -> Seq(Event)] /\ queue'[g] = kv /\ \A h \in Gateways : h # g => queue'[h] = queue[h]
  BY DEF RInv, BucketData
<1>2. BucketData' BY <1>1 DEF RInv, BucketData
<1>3. Once(kv') BY DEF RInv
<1>4. QueuedIsKept' BY <1>1 DEF RInv, QueuedIsKept
<1>5. \A rid \in Rids : Present(rid)' <=> Present(rid) BY DEF Present
<1>6. ASSUME NEW rid \in Rids, Absent(kv, rid) PROVE ~Has(slots'[g], rid)
  <2>1. CASE slots'[g] = EmptyIndex BY <2>1, EmptyIs
  <2>2. CASE slots'[g] = slots[g]
    <3>1. Absent(queue[g], rid) BY <1>6 DEF RInv, QueuedIsKept
    <3>2. \A op : ~LastIs(queue[g], rid, op) BY <3>1 DEF Absent, LastIs
    <3>3. Has(slots[g], rid) <=> Present(rid) BY <3>2 DEF RInv, Mirrored, Comes
    <3>4. ~Present(rid)
      <4> SUFFICES ASSUME NEW i \in 1..Len(kv), kv[i] = [rid |-> rid, op |-> "put"] PROVE FALSE BY DEF Present
      <4>1. kv[i].rid = rid OBVIOUS
      <4> QED BY <1>6, <4>1 DEF Absent
    <3> QED BY <2>2, <3>3, <3>4
  <2> QED BY <2>1, <2>2
<1>7. Mirrored'
  <2> SUFFICES ASSUME NEW h \in Gateways, NEW rid \in Rids PROVE Comes(queue'[h], slots'[h], rid, Present(rid)') BY DEF Mirrored
  <2>1. CASE h = g
    <3>1. PICK s : s = slots'[g] OBVIOUS
    <3>2. Comes(kv, s, rid, Present(rid)) BY <1>6, <3>1, Replayed DEF RInv
    <3> QED BY <1>1, <1>5, <2>1, <3>1, <3>2 DEF Comes
  <2>2. CASE h # g
    <3>1. Comes(queue[h], slots[h], rid, Present(rid)) BY DEF RInv, Mirrored
    <3> QED BY <1>1, <1>5, <2>2, <3>1 DEF Comes
  <2> QED BY <2>1, <2>2
<1> QED BY <1>2, <1>3, <1>4, <1>7 DEF RInv

\* A gateway takes the first event off its queue, and handles it or skips it.
LEMMA TakesStep ==
  ASSUME RInv, NEW g \in Gateways, queue[g] # <<>>, queue' = [queue EXCEPT ![g] = Tail(queue[g])], UNCHANGED <<kv, cpVars>>,
         IndexData', \A h \in Gateways : h # g => slots'[h] = slots[h],
         \A rid \in Rids : rid # Head(queue[g]).rid => (Has(slots'[g], rid) <=> Has(slots[g], rid)),
         \/ Has(slots'[g], Head(queue[g]).rid) <=> Head(queue[g]).op = "put"
         \/ \E i \in 2..Len(queue[g]) : queue[g][i].rid = Head(queue[g]).rid
  PROVE RInv'
<1> DEFINE e == Head(queue[g])
           q == queue[g]
<1>1. q \in Seq(Event) BY DEF RInv, BucketData
<1>2. /\ Tail(q) \in Seq(Event) /\ e \in Event
      /\ \A rid : rid # e.rid => /\ Absent(q, rid) => Absent(Tail(q), rid)
                                 /\ \A op : LastIs(q, rid, op) => LastIs(Tail(q), rid, op)
      /\ \A op : LastIs(q, e.rid, op) => LastIs(Tail(q), e.rid, op) \/ (op = e.op /\ Absent(Tail(q), e.rid))
      /\ (\E i \in 2..Len(q) : q[i].rid = e.rid) => ~Absent(Tail(q), e.rid)
  BY <1>1, TailIs
<1>3. queue' \in [Gateways -> Seq(Event)] /\ queue'[g] = Tail(q) /\ \A h \in Gateways : h # g => queue'[h] = queue[h]
  BY <1>2 DEF RInv, BucketData
<1>4. CallData' BY DEF RInv, CallData, cpVars
<1>5. BucketData' /\ Once(kv') BY <1>3 DEF RInv, BucketData
<1>6. e.rid \in Rids /\ e.op \in {"put", "del"} BY <1>2 DEF Event
<1>7. ~Absent(q, e.rid) /\ ~Absent(kv, e.rid)
  <2>1. 1 \in 1..Len(q) /\ q[1] = e BY <1>1
  <2>2. ~Absent(q, e.rid) BY <2>1 DEF Absent
  <2> QED BY <1>6, <2>2 DEF RInv, QueuedIsKept
<1>8. QueuedIsKept'
  <2> SUFFICES ASSUME NEW h \in Gateways, NEW rid \in Rids, Absent(kv, rid) PROVE Absent(queue'[h], rid) BY DEF QueuedIsKept
  <2>1. Absent(queue[h], rid) /\ rid # e.rid BY <1>7 DEF RInv, QueuedIsKept
  <2> QED BY <1>2, <1>3, <2>1
<1>9. \A rid \in Rids : Present(rid)' <=> Present(rid) BY DEF Present
<1>10. Mirrored'
  <2> SUFFICES ASSUME NEW h \in Gateways, NEW rid \in Rids PROVE Comes(queue'[h], slots'[h], rid, Present(rid)') BY DEF Mirrored
  <2>1. Comes(queue[h], slots[h], rid, Present(rid)) BY DEF RInv, Mirrored
  <2>2. CASE h # g BY <1>3, <1>9, <2>1, <2>2 DEF Comes
  <2>3. CASE h = g /\ rid # e.rid
    <3>1. Comes(q, slots[g], rid, Present(rid)) BY <2>1, <2>3
    <3>2. Comes(Tail(q), slots'[g], rid, Present(rid)) BY <1>2, <2>3, <3>1 DEF Comes
    <3> QED BY <1>3, <1>9, <2>3, <3>2 DEF Comes
  <2>4. CASE h = g /\ rid = e.rid
    <3>1. \/ LastIs(q, rid, "put") /\ Present(rid)
          \/ LastIs(q, rid, "del") /\ ~Present(rid)
      BY <1>7, <2>1, <2>4 DEF Comes
    <3>2. \/ LastIs(Tail(q), rid, "put") /\ Present(rid)
          \/ LastIs(Tail(q), rid, "del") /\ ~Present(rid)
          \/ Absent(Tail(q), rid) /\ (e.op = "put" <=> Present(rid))
      BY <1>2, <1>6, <2>4, <3>1
    <3>3. Absent(Tail(q), rid) => (Has(slots'[g], rid) <=> e.op = "put") BY <1>2, <2>4
    <3>4. Comes(Tail(q), slots'[g], rid, Present(rid)) BY <3>2, <3>3 DEF Comes
    <3> QED BY <1>3, <1>9, <2>4, <3>4 DEF Comes
  <2> QED BY <2>2, <2>3, <2>4
<1> QED BY <1>4, <1>5, <1>8, <1>10 DEF RInv

\* One gateway's index changes.
LEMMA OneIndex ==
  ASSUME IndexData, NEW g \in Gateways, NEW s \in [Keys -> Entry], IndexOk(s), NEW c \in [Addrs -> Nat], RefsOk(s, c),
         slots' = [slots EXCEPT ![g] = s], conns' = [conns EXCEPT ![g] = c]
  PROVE IndexData' /\ slots'[g] = s /\ \A h \in Gateways : h # g => slots'[h] = slots[h]
<1>1. slots' \in [Gateways -> [Keys -> Entry]] /\ slots'[g] = s /\ \A h \in Gateways : h # g => slots'[h] = slots[h] BY DEF IndexData
<1>2. conns' \in [Gateways -> [Addrs -> Nat]] /\ conns'[g] = c /\ \A h \in Gateways : h # g => conns'[h] = conns[h] BY DEF IndexData
<1>3. \A h \in Gateways : IndexOk(slots'[h]) /\ RefsOk(slots'[h], conns'[h]) BY <1>1, <1>2 DEF IndexData
<1> QED BY <1>1, <1>2, <1>3 DEF IndexData

LEMMA PutStep ==
  ASSUME Acceptable, IndexData, NEW g \in Gateways, NEW rid \in Rids, HandlePut(g, rid)
  PROVE /\ IndexData' /\ \A h \in Gateways : h # g => slots'[h] = slots[h]
        /\ \A o \in Rids : Has(slots'[g], o) <=> Has(slots[g], o) \/ o = rid
<1> DEFINE s == slots[g]
           c == conns[g]
<1>1. s \in [Keys -> Entry] /\ IndexOk(s) /\ c \in [Addrs -> Nat] /\ RefsOk(s, c) BY DEF IndexData
<1>2. CASE Has(s, rid)
  <2>1. slots' = [slots EXCEPT ![g] = s] /\ conns' = [conns EXCEPT ![g] = c] BY <1>2 DEF HandlePut
  <2>2. UNCHANGED <<slots, conns>> BY <2>1 DEF IndexData
  <2>3. IndexData' BY <2>2 DEF IndexData
  <2> QED BY <1>2, <2>2, <2>3
<1>3. CASE ~Has(s, rid)
  <2>1. slots' = [slots EXCEPT ![g] = JoinReplica(s, c, rid)[1]] /\ conns' = [conns EXCEPT ![g] = JoinReplica(s, c, rid)[2]]
    BY <1>3 DEF HandlePut
  <2>2. \E t, e : JoinReplica(s, c, rid) = <<t, e>> BY <1>1, JoinAccepted
  <2>3. PICK t, e : JoinReplica(s, c, rid) = <<t, e>> BY <2>2
  <2>4. slots' = [slots EXCEPT ![g] = t] /\ conns' = [conns EXCEPT ![g] = e] BY <2>1, <2>3
  <2>5. /\ t \in [Keys -> Entry] /\ IndexOk(t) /\ e \in [Addrs -> Nat] /\ RefsOk(t, e)
        /\ \A o \in Rids : Has(t, o) <=> Has(s, o) \/ o = rid
    BY <1>1, <1>3, <2>3, PutIndex
  <2>6. IndexData' /\ slots'[g] = t /\ \A h \in Gateways : h # g => slots'[h] = slots[h] BY <2>4, <2>5, OneIndex
  <2> QED BY <2>5, <2>6
<1> QED BY <1>2, <1>3

LEMMA DeleteStep ==
  ASSUME IndexData, NEW g \in Gateways, NEW rid \in Rids, HandleDelete(g, rid)
  PROVE /\ IndexData' /\ \A h \in Gateways : h # g => slots'[h] = slots[h]
        /\ \A o \in Rids : Has(slots'[g], o) <=> Has(slots[g], o) /\ o # rid
<1> DEFINE s == slots[g]
           c == conns[g]
           k == KeyOf(rid)
           t == [s EXCEPT ![k] = WithoutReplicas(s[k], {r \in s[k].replicas : r.id = rid})]
           e == IF s[k].spec.kind = "proto" THEN ReleaseConn(c, ValueOf[rid].addr) ELSE c
<1>1. s \in [Keys -> Entry] /\ IndexOk(s) /\ c \in [Addrs -> Nat] /\ RefsOk(s, c) BY DEF IndexData
<1>2. CASE ~Has(s, rid)
  <2>1. UNCHANGED <<slots, conns>> BY <1>2 DEF HandleDelete
  <2>2. IndexData' BY <2>1 DEF IndexData
  <2> QED BY <1>2, <2>1, <2>2
<1>3. CASE Has(s, rid)
  <2>1. /\ t \in [Keys -> Entry] /\ IndexOk(t) /\ e \in [Addrs -> Nat] /\ RefsOk(t, e)
        /\ \A o \in Rids : Has(t, o) <=> Has(s, o) /\ o # rid
    BY <1>1, <1>3, DeleteIndex
  <2>2. slots' = [slots EXCEPT ![g] = t] /\ conns' = [conns EXCEPT ![g] = e]
    <3>1. slots' = [slots EXCEPT ![g][k] = WithoutReplicas(@, {r \in s[k].replicas : r.id = rid})] BY <1>3 DEF HandleDelete, KeyOf
    <3>2. conns' = IF s[k].spec.kind = "proto" THEN [conns EXCEPT ![g] = ReleaseConn(@, ValueOf[rid].addr)] ELSE conns
      BY <1>3 DEF HandleDelete, KeyOf
    <3>3. slots' = [slots EXCEPT ![g] = t] BY <3>1
    <3>4. conns' = [conns EXCEPT ![g] = e]
      <4>1. CASE s[k].spec.kind = "proto" BY <3>2, <4>1
      <4>2. CASE s[k].spec.kind # "proto"
        <5>1. [conns EXCEPT ![g] = conns[g]] = conns BY DEF IndexData
        <5> QED BY <3>2, <4>2, <5>1
      <4> QED BY <4>1, <4>2
    <3> QED BY <3>3, <3>4
  <2> HIDE DEF t, e
  <2>3. PICK x, y : x = t /\ y = e OBVIOUS
  <2>4. slots' = [slots EXCEPT ![g] = x] /\ conns' = [conns EXCEPT ![g] = y] BY <2>2, <2>3
  <2>5. /\ x \in [Keys -> Entry] /\ IndexOk(x) /\ y \in [Addrs -> Nat] /\ RefsOk(x, y)
        /\ \A o \in Rids : Has(x, o) <=> Has(s, o) /\ o # rid
    BY <2>1, <2>3
  <2>6. IndexData' /\ slots'[g] = x /\ \A h \in Gateways : h # g => slots'[h] = slots[h] BY <2>4, <2>5, OneIndex
  <2> QED BY <2>5, <2>6
<1> QED BY <1>2, <1>3

LEMMA WatchStep == ASSUME Acceptable, RInv, NEW g \in Gateways, Watch(g) PROVE RInv'
<1> DEFINE e == Head(queue[g])
<1>1. queue[g] # <<>> /\ queue' = [queue EXCEPT ![g] = Tail(queue[g])] /\ UNCHANGED <<kv, cpVars>> BY DEF Watch
<1>2. queue[g] \in Seq(Event) BY DEF RInv, BucketData
<1>3. e \in Event BY <1>1, <1>2
<1>4. e.rid \in Rids /\ e.op \in {"put", "del"} BY <1>3 DEF Event
<1>5. (e.op = "put" /\ HandlePut(g, e.rid)) \/ (e.op = "del" /\ HandleDelete(g, e.rid)) BY DEF Watch
<1>6. PICK rid \in Rids : rid = e.rid BY <1>4
<1>7. CASE e.op = "put" /\ HandlePut(g, rid)
  <2>1. /\ IndexData' /\ \A h \in Gateways : h # g => slots'[h] = slots[h]
        /\ \A o \in Rids : Has(slots'[g], o) <=> Has(slots[g], o) \/ o = rid
    BY <1>7, PutStep DEF RInv
  <2>2. Has(slots'[g], e.rid) <=> e.op = "put" BY <1>6, <1>7, <2>1
  <2>3. \A o \in Rids : o # e.rid => (Has(slots'[g], o) <=> Has(slots[g], o)) BY <1>6, <2>1
  <2> QED BY <1>1, <2>1, <2>2, <2>3, TakesStep
<1>8. CASE e.op = "del" /\ HandleDelete(g, rid)
  <2>1. /\ IndexData' /\ \A h \in Gateways : h # g => slots'[h] = slots[h]
        /\ \A o \in Rids : Has(slots'[g], o) <=> Has(slots[g], o) /\ o # rid
    BY <1>8, DeleteStep DEF RInv
  <2>2. Has(slots'[g], e.rid) <=> e.op = "put" BY <1>6, <1>8, <2>1
  <2>3. \A o \in Rids : o # e.rid => (Has(slots'[g], o) <=> Has(slots[g], o)) BY <1>6, <2>1
  <2> QED BY <1>1, <2>1, <2>2, <2>3, TakesStep
<1> QED BY <1>5, <1>6, <1>7, <1>8

LEMMA SkipStep == ASSUME RInv, NEW g \in Gateways, Skip(g) PROVE RInv'
<1>1. /\ queue[g] # <<>> /\ queue' = [queue EXCEPT ![g] = Tail(queue[g])]
      /\ \E i \in 2..Len(queue[g]) : queue[g][i].rid = Head(queue[g]).rid
      /\ UNCHANGED <<kv, slots, conns, cpVars>>
  BY DEF Skip
<1>2. IndexData' BY <1>1 DEF RInv, IndexData
<1> QED BY <1>1, <1>2, TakesStep

LEMMA RewatchStep == ASSUME RInv, NEW g \in Gateways, Rewatch(g) PROVE RInv'
<1>1. UNCHANGED <<kv, slots, conns, regs, used, call, beats, deletes, sent>> /\ queue' = [queue EXCEPT ![g] = kv] BY DEF Rewatch
<1>2. crashes' \in 0..MaxCrashes BY ReconcilerAssumption DEF Rewatch, RInv, CallData
<1>3. CallData' BY <1>1, <1>2 DEF RInv, CallData
<1>4. IndexData' BY <1>1 DEF RInv, IndexData
<1> QED BY <1>1, <1>3, <1>4, WatchAnew

LEMMA RestartStep == ASSUME RInv, NEW g \in Gateways, Restart(g) PROVE RInv'
<1>1. UNCHANGED <<kv, used, sent>> /\ queue' = [queue EXCEPT ![g] = kv] BY DEF Restart
<1>2. crashes' \in 0..MaxCrashes BY ReconcilerAssumption DEF Restart, RInv, CallData
<1>3. CallData'
  <2>1. regs' \subseteq Regs BY DEF Restart, RInv, CallData
  <2>2. call' \in [Gateways -> Call \cup {Idle}] BY DEF Restart, RInv, CallData
  <2>3. beats' \in [Regs -> Seq(Rids)] /\ deletes' \in [Regs -> Seq(Rids)] BY DEF Restart, RInv, CallData
  <2> QED BY <1>1, <1>2, <2>1, <2>2, <2>3 DEF RInv, CallData
<1>4. slots' = [slots EXCEPT ![g] = EmptyIndex] /\ conns' = [conns EXCEPT ![g] = [a \in Addrs |-> 0]] BY DEF Restart
<1>5. IndexData' /\ slots'[g] = EmptyIndex /\ \A h \in Gateways : h # g => slots'[h] = slots[h]
  BY <1>4, EmptyIs, OneIndex DEF RInv
<1> QED BY <1>1, <1>3, <1>5, WatchAnew

\* A write of a key, or one that is lost, while the index stays.
LEMMA MaybeWrite ==
  ASSUME RInv, NEW rid \in Rids, NEW op \in {"put", "del"}, Lost \/ Write(rid, op), UNCHANGED <<slots, conns>>, CallData'
  PROVE RInv'
BY WriteStep, QuietStep DEF Lost

LEMMA CallIs ==
  ASSUME CallData, NEW g \in Gateways, call[g] # Idle
  PROVE call[g] \in Call /\ call[g].todo \in Seq(Rids) /\ call[g].done \in Seq(Rids) /\ call[g].reg \in Regs
BY DEF CallData, Call

LEMMA HeadTail == ASSUME NEW q \in Seq(Rids), q # <<>> PROVE Head(q) \in Rids /\ Tail(q) \in Seq(Rids)
OBVIOUS

LEMMA RegStep ==
  ASSUME RInv, NEW r \in Regs,
         RegisterStart(r) \/ Heartbeat(r) \/ HeartbeatPut(r) \/ Deregister(r) \/ DeregisterDelete(r)
  PROVE RInv'
<1>0. CallData BY DEF RInv
<1>1. CASE RegisterStart(r)
  <2> DEFINE x == [reg |-> r, todo |-> RidsOf[r], done |-> <<>>, phase |-> "put"]
  <2>1. x \in Call BY ReconcilerAssumption DEF Call
  <2> HIDE DEF x
  <2>2. call' = [call EXCEPT ![HomeOf[r]] = x] BY <1>1 DEF RegisterStart, x
  <2>3. call' \in [Gateways -> Call \cup {Idle}] BY <1>0, <2>1, <2>2 DEF CallData
  <2>4. CallData' BY <1>0, <1>1, <2>3 DEF RegisterStart, CallData
  <2> QED BY <1>1, <2>4, QuietStep DEF RegisterStart
<1>2. CASE Heartbeat(r)
  <2>1. sent' \in 0..MaxBeats BY <1>0, <1>2, ReconcilerAssumption DEF Heartbeat, CallData
  <2>2. beats' \in [Regs -> Seq(Rids)] BY <1>0, <1>2, ReconcilerAssumption DEF Heartbeat, CallData
  <2>3. CallData' BY <1>0, <1>2, <2>1, <2>2 DEF Heartbeat, CallData
  <2> QED BY <1>2, <2>3, QuietStep DEF Heartbeat
<1>3. CASE HeartbeatPut(r)
  <2>1. beats[r] \in Seq(Rids) /\ beats[r] # <<>> BY <1>0, <1>3 DEF HeartbeatPut, CallData
  <2>2. Head(beats[r]) \in Rids /\ Tail(beats[r]) \in Seq(Rids) BY <2>1, HeadTail
  <2>3. beats' \in [Regs -> Seq(Rids)] BY <1>0, <1>3, <2>2 DEF HeartbeatPut, CallData
  <2>4. CallData' BY <1>0, <1>3, <2>3 DEF HeartbeatPut, CallData
  <2> QED BY <1>3, <2>2, <2>4, MaybeWrite DEF HeartbeatPut
<1>4. CASE Deregister(r)
  <2>1. deletes' \in [Regs -> Seq(Rids)] BY <1>0, <1>4, ReconcilerAssumption DEF Deregister, CallData
  <2>2. CallData' BY <1>0, <1>4, <2>1 DEF Deregister, CallData
  <2> QED BY <1>4, <2>2, QuietStep DEF Deregister
<1>5. CASE DeregisterDelete(r)
  <2>1. deletes[r] \in Seq(Rids) /\ deletes[r] # <<>> BY <1>0, <1>5 DEF DeregisterDelete, CallData
  <2>2. Head(deletes[r]) \in Rids /\ Tail(deletes[r]) \in Seq(Rids) BY <2>1, HeadTail
  <2>3. deletes' \in [Regs -> Seq(Rids)] BY <1>0, <1>5, <2>2 DEF DeregisterDelete, CallData
  <2>4. CallData' BY <1>0, <1>5, <2>3 DEF DeregisterDelete, CallData
  <2> QED BY <1>5, <2>2, <2>4, MaybeWrite DEF DeregisterDelete
<1> QED BY <1>1, <1>2, <1>3, <1>4, <1>5

LEMMA CallStep ==
  ASSUME RInv, NEW g \in Gateways, RegisterPut(g) \/ RegisterPutFails(g) \/ RegisterUndo(g) \/ RegisterReturn(g)
  PROVE RInv'
<1>0. CallData BY DEF RInv
<1>1. call[g] # Idle BY DEF RegisterPut, RegisterPutFails, RegisterUndo, RegisterReturn, Putting
<1>2. call[g] \in Call /\ call[g].todo \in Seq(Rids) /\ call[g].done \in Seq(Rids) /\ call[g].reg \in Regs BY <1>0, <1>1, CallIs
<1>3. CASE RegisterPut(g)
  <2>1. Head(call[g].todo) \in Rids /\ Tail(call[g].todo) \in Seq(Rids) BY <1>2, <1>3, HeadTail DEF RegisterPut, Putting
  <2>2. Append(call[g].done, Head(call[g].todo)) \in Seq(Rids) BY <1>2, <2>1
  <2>3. call' \in [Gateways -> Call \cup {Idle}]
    <3> DEFINE a == Tail(call[g].todo)
               b == Append(call[g].done, Head(call[g].todo))
               x == [call[g] EXCEPT !.todo = a, !.done = b]
    <3>1. call' = [call EXCEPT ![g] = x] BY <1>3 DEF RegisterPut
    <3> HIDE DEF a, b
    <3>2. x \in Call BY <1>2, <2>1, <2>2 DEF Call, a, b
    <3> HIDE DEF x
    <3> QED BY <1>0, <3>1, <3>2 DEF CallData
  <2>4. CallData' BY <1>0, <1>3, <2>3 DEF RegisterPut, CallData
  <2> QED BY <1>3, <2>1, <2>4, WriteStep DEF RegisterPut
<1>4. CASE RegisterPutFails(g)
  <2>1. Head(call[g].todo) \in Rids BY <1>2, <1>4, HeadTail DEF RegisterPutFails, Putting
  <2>2. call' \in [Gateways -> Call \cup {Idle}]
    <3> DEFINE x == [call[g] EXCEPT !.phase = "undo"]
    <3>1. call' = [call EXCEPT ![g] = x] BY <1>4 DEF RegisterPutFails
    <3>2. x \in Call BY <1>2 DEF Call
    <3> HIDE DEF x
    <3> QED BY <1>0, <3>1, <3>2 DEF CallData
  <2>3. CallData' BY <1>0, <1>4, <2>2 DEF RegisterPutFails, CallData
  <2> QED BY <1>4, <2>1, <2>3, MaybeWrite DEF RegisterPutFails
<1>5. CASE RegisterUndo(g)
  <2>1. Head(call[g].done) \in Rids /\ Tail(call[g].done) \in Seq(Rids) BY <1>2, <1>5, HeadTail DEF RegisterUndo
  <2>2. call' \in [Gateways -> Call \cup {Idle}]
    <3> DEFINE a == Tail(call[g].done)
               x == [call[g] EXCEPT !.done = a]
    <3>1. call' = [call EXCEPT ![g] = x] BY <1>5 DEF RegisterUndo
    <3> HIDE DEF a
    <3>2. x \in Call BY <1>2, <2>1 DEF Call, a
    <3> HIDE DEF x
    <3> QED BY <1>0, <3>1, <3>2 DEF CallData
  <2>3. CallData' BY <1>0, <1>5, <2>2 DEF RegisterUndo, CallData
  <2> QED BY <1>5, <2>1, <2>3, MaybeWrite DEF RegisterUndo
<1>6. CASE RegisterReturn(g)
  <2>1. regs' \subseteq Regs BY <1>0, <1>2, <1>6 DEF RegisterReturn, CallData
  <2>2. call' \in [Gateways -> Call \cup {Idle}] BY <1>0, <1>6 DEF RegisterReturn, CallData
  <2>3. CallData' BY <1>0, <1>6, <2>1, <2>2 DEF RegisterReturn, CallData
  <2> QED BY <1>6, <2>3, QuietStep DEF RegisterReturn
<1> QED BY <1>3, <1>4, <1>5, <1>6

LEMMA RStep == ASSUME Acceptable, RInv, [Next]_vars PROVE RInv'
<1>1. ASSUME NEW rid \in Rids, Expire(rid) PROVE RInv'
  <2>1. CallData' BY <1>1 DEF Expire, RInv, CallData, cpVars
  <2> QED BY <1>1, <2>1, WriteStep DEF Expire
<1>2. CASE UNCHANGED vars
  <2>1. CallData' BY <1>2 DEF vars, RInv, CallData
  <2> QED BY <1>2, <2>1, QuietStep DEF vars
<1> QED BY <1>1, <1>2, RegStep, CallStep, WatchStep, SkipStep, RewatchStep, RestartStep DEF Next

(***************************************************************************)
(* Every gateway that has handled its watch serves exactly the replicas in *)
(* the bucket, with exact connection references all the way, when no       *)
(* replica is one the hash gate refuses: for any number of gateways,       *)
(* registrations, heartbeats, expiries, restarts and broken watches        *)
(* (reconciler.go handleEvent, handlePut, handleDelete).                   *)
(***************************************************************************)
THEOREM IndexMirrorsBucketHolds == ASSUME Acceptable PROVE Spec => []IndexMirrorsBucket
<1>1. RInv /\ [Next]_vars => RInv' BY RStep
<1> QED BY <1>1, RInit, MirrorHolds, PTL DEF Spec

\* The registry of a cluster stays within its types.
THEOREM ReconcilerTypes == ASSUME Acceptable PROVE Spec => []TypeOK
<1>1. RInv /\ [Next]_vars => RInv' BY RStep
<1> QED BY <1>1, RInit, TypesOk, PTL DEF Spec
=============================================================================
