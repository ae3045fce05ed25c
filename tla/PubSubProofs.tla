---------------------------- MODULE PubSubProofs ----------------------------
(***************************************************************************)
(* Proofs about SubBroker, about the FailoverBus it runs on, and about the *)
(* publish/subscribe of gat (GatPubSub), for any number of consumers,      *)
(* publishers, gateways and drops of the connection.                       *)
(***************************************************************************)
EXTENDS MCPubSub, FiniteSetTheorems, SequenceTheorems, TLAPS

Started == {c \in Consumers : pc[c] # "new"}

(***************************************************************************)
(* The inductive invariant.  A fanout is made by an acquire, so there are  *)
(* never more than acquires that have started; and an acquire that has     *)
(* started and not ended knows its fanout.                                 *)
(***************************************************************************)
FanoutKnown == \A c \in Consumers : pc[c] \in {"attach", "on", "leave"} => fan[c] \in Fanouts
MadeByAcquires == made <= Cardinality(Started)

IInv == TypeOK /\ OneSubscription /\ FanoutKnown /\ MadeByAcquires

\* The acquires that have started are finitely many, and grow by one at most.
LEMMA StartedFacts ==
    ASSUME TypeOK
    PROVE  /\ IsFiniteSet(Started)
           /\ Cardinality(Started) \in Nat
           /\ Cardinality(Consumers) \in Nat
           /\ \A c \in Consumers : pc[c] = "new" =>
                 /\ Cardinality(Started \cup {c}) = Cardinality(Started) + 1
                 /\ Cardinality(Started \cup {c}) <= Cardinality(Consumers)
<1>1. IsFiniteSet(Consumers) BY SubBrokerAssumption
<1>2. Started \in SUBSET Consumers BY DEF Started
<1>3. IsFiniteSet(Started) BY <1>1, <1>2, FS_Subset
<1>4. Cardinality(Started) \in Nat /\ Cardinality(Consumers) \in Nat
  BY <1>1, <1>3, FS_CardinalityType
<1>5. ASSUME NEW c \in Consumers, pc[c] = "new"
      PROVE  /\ Cardinality(Started \cup {c}) = Cardinality(Started) + 1
             /\ Cardinality(Started \cup {c}) <= Cardinality(Consumers)
  <2>1. c \notin Started BY <1>5 DEF Started
  <2>2. Cardinality(Started \cup {c}) = Cardinality(Started) + 1
    BY <1>3, <2>1, FS_AddElement
  <2>3. Started \cup {c} \in SUBSET Consumers BY <1>2
  <2>4. Cardinality(Started \cup {c}) <= Cardinality(Consumers)
    BY <1>1, <2>3, FS_Subset
  <2> QED BY <2>2, <2>4
<1> QED BY <1>3, <1>4, <1>5

\* The initial state satisfies the invariant.
LEMMA InitIInv == Init => IInv
<1> SUFFICES ASSUME Init PROVE IInv OBVIOUS
<1>1. TypeOK
  <2>1. Cardinality(Consumers) \in Nat BY SubBrokerAssumption, FS_CardinalityType
  <2>2. pub \in [Publishers -> Publish0] BY DEF Init, Publish0
  <2>3. panicked \in BOOLEAN BY Zenon DEF Init
  <2> QED BY <2>1, <2>2, <2>3, SubBrokerAssumption DEF Init, TypeOK
<1>2. OneSubscription BY DEF Init, OneSubscription
<1>3. FanoutKnown BY DEF Init, FanoutKnown
<1>4. MadeByAcquires
  <2>1. Started = {} BY DEF Init, Started
  <2> QED BY <2>1, FS_EmptySet DEF Init, MadeByAcquires
<1> QED BY <1>1, <1>2, <1>3, <1>4 DEF IInv

\* A publish, and a receive, change nothing the invariant is about but buffers.
LEMMA BusStep ==
    ASSUME IInv, UNCHANGED brokerVars,
           pub' \in [Publishers -> Publish0], panicked' \in BOOLEAN,
           buffer' \in [Consumers -> 0..Capacity]
    PROVE  IInv'
<1>1. TypeOK' BY DEF IInv, TypeOK, brokerVars
<1>2. OneSubscription' BY DEF IInv, OneSubscription, brokerVars
<1>3. FanoutKnown' BY DEF IInv, FanoutKnown, brokerVars
<1>4. MadeByAcquires' BY DEF IInv, MadeByAcquires, Started, brokerVars
<1> QED BY <1>1, <1>2, <1>3, <1>4 DEF IInv

\* A consumer that is not new stays so: the acquires that started are the same.
LEMMA StartedSame ==
    ASSUME TypeOK, NEW c \in Consumers, pc[c] # "new", NEW p, p # "new",
           pc' = [pc EXCEPT ![c] = p]
    PROVE  Started' = Started
BY DEF TypeOK, Started

\* A consumer starts.
LEMMA StartedMore ==
    ASSUME TypeOK, NEW c \in Consumers, pc[c] = "new", NEW p, p # "new",
           pc' = [pc EXCEPT ![c] = p]
    PROVE  Started' = Started \cup {c}
BY DEF TypeOK, Started

\* acquire, under b.mu.
LEMMA AcquireFanoutStep ==
    ASSUME IInv, NEW c \in Consumers, AcquireFanout(c)
    PROVE  IInv'
<1> USE DEF AcquireFanout, IInv
<1>1. Started' = Started \cup {c} BY StartedMore
<1>2. /\ Cardinality(Started') = Cardinality(Started) + 1
      /\ Cardinality(Started') <= Cardinality(Consumers)
      /\ Cardinality(Started) \in Nat /\ Cardinality(Consumers) \in Nat
  BY <1>1, StartedFacts
<1>3. made' \in 0..Cardinality(Consumers) /\ made' <= Cardinality(Started')
  BY <1>2 DEF TypeOK, MadeByAcquires
<1>4. subs' \in Fanouts
  BY <1>2, <1>3 DEF TypeOK, Fanouts
<1>5. TypeOK'
  <2>1. subscribed' \subseteq Fanouts BY <1>4 DEF TypeOK
  <2>2. fan' \in [Consumers -> {0} \cup Fanouts] BY <1>4 DEF TypeOK
  <2>3. pc' \in [Consumers -> {"new", "attach", "on", "leave", "off"}] BY DEF TypeOK
  <2> QED BY <1>3, <1>4, <2>1, <2>2, <2>3 DEF TypeOK, busVars
<1>6. OneSubscription'
  <2>0. 0 \notin Fanouts BY <1>2 DEF Fanouts
  <2>1. fan'[c] = subs' /\ pc'[c] = "attach" BY DEF TypeOK
  <2>2. subscribed' = {subs'} \ {0}
    BY <1>4, <2>0 DEF OneSubscription
  <2> QED BY <2>1, <2>2 DEF OneSubscription
<1>7. FanoutKnown' BY <1>4 DEF FanoutKnown, TypeOK
<1>8. MadeByAcquires' BY <1>3 DEF MadeByAcquires
<1> QED BY <1>5, <1>6, <1>7, <1>8

\* acquire, when the bus refuses the subscription.
LEMMA AcquireFailsStep ==
    ASSUME IInv, NEW c \in Consumers, AcquireFails(c)
    PROVE  IInv'
<1> USE DEF AcquireFails, IInv
<1>1. Started' = Started \cup {c} BY StartedMore
<1>2. Cardinality(Started') = Cardinality(Started) + 1 /\ Cardinality(Started) \in Nat
  BY <1>1, StartedFacts
<1>3. TypeOK' BY SubBrokerAssumption DEF TypeOK, busVars
<1>4. OneSubscription' BY DEF OneSubscription
<1>5. FanoutKnown' BY DEF FanoutKnown, TypeOK
<1>6. MadeByAcquires' BY <1>2 DEF MadeByAcquires, TypeOK
<1> QED BY <1>3, <1>4, <1>5, <1>6

\* acquire, under f.mu: the consumer that was on its way in is a target now.
LEMMA AcquireAttachStep ==
    ASSUME IInv, NEW c \in Consumers, AcquireAttach(c)
    PROVE  IInv'
<1> USE DEF AcquireAttach, IInv
<1>1. fan[c] \in Fanouts BY DEF FanoutKnown
<1>2. TypeOK' BY <1>1 DEF TypeOK, busVars
<1>3. OneSubscription'
  <2>1. CASE subs = fan[c]
    <3>1. c \in targets'[subs] BY <1>1, <2>1 DEF TypeOK
    <3> QED BY <3>1 DEF OneSubscription
  <2>2. CASE subs # fan[c]
    <3>1. \A d \in Consumers : fan[d] = subs => pc'[d] = pc[d] BY <2>2 DEF TypeOK
    <3>2. targets'[subs] = targets[subs] \/ subs = 0 BY <2>2 DEF TypeOK
    <3> QED BY <3>1, <3>2 DEF OneSubscription
  <2> QED BY <2>1, <2>2
<1>4. FanoutKnown' BY <1>1 DEF FanoutKnown, TypeOK
<1>5. Started' = Started BY StartedSame
<1>6. MadeByAcquires' BY <1>5 DEF MadeByAcquires
<1> QED BY <1>2, <1>3, <1>4, <1>6

\* release, under f.mu: the last target to go is on its way out.
LEMMA ReleaseTargetStep ==
    ASSUME IInv, NEW c \in Consumers, ReleaseTarget(c)
    PROVE  IInv'
<1> USE DEF ReleaseTarget, IInv
<1>1. fan[c] \in Fanouts BY DEF FanoutKnown
<1>2. TypeOK' BY <1>1 DEF TypeOK, busVars
<1>3. OneSubscription'
  <2>1. CASE subs = fan[c]
    <3>1. targets'[subs] # {} \/ (fan'[c] = subs /\ pc'[c] = "leave")
      BY <2>1 DEF TypeOK
    <3> QED BY <3>1 DEF OneSubscription
  <2>2. CASE subs # fan[c]
    <3>1. \A d \in Consumers : fan[d] = subs => pc'[d] = pc[d] BY <2>2 DEF TypeOK
    <3>2. targets'[subs] = targets[subs] \/ subs = 0 BY <2>2 DEF TypeOK
    <3> QED BY <3>1, <3>2 DEF OneSubscription
  <2> QED BY <2>1, <2>2
<1>4. FanoutKnown' BY <1>1 DEF FanoutKnown, TypeOK
<1>5. Started' = Started BY StartedSame
<1>6. MadeByAcquires' BY <1>5 DEF MadeByAcquires
<1> QED BY <1>2, <1>3, <1>4, <1>6

\* release, under b.mu: a fanout that is not the current one is left alone.
LEMMA ReleaseFanoutStep ==
    ASSUME IInv, NEW c \in Consumers, ReleaseFanout(c)
    PROVE  IInv'
<1> USE DEF ReleaseFanout, IInv
<1>1. TypeOK' BY DEF TypeOK, busVars
<1>2. OneSubscription'
  <2>1. CASE subs = fan[c]
    BY <2>1 DEF OneSubscription
  <2>2. CASE subs # fan[c]
    <3>1. \A d \in Consumers : fan[d] = subs => pc'[d] = pc[d] BY <2>2 DEF TypeOK
    <3> QED BY <2>2, <3>1 DEF OneSubscription
  <2> QED BY <2>1, <2>2
<1>3. FanoutKnown' BY DEF FanoutKnown, TypeOK
<1>4. Started' = Started BY StartedSame
<1>5. MadeByAcquires' BY <1>4 DEF MadeByAcquires
<1> QED BY <1>1, <1>2, <1>3, <1>5

\* Publishing and receiving.
LEMMA BusSteps ==
    ASSUME IInv,
           \/ \E c \in Consumers : Receive(c)
           \/ \E p \in Publishers : \/ Publish(p)
                                    \/ \E f \in Fanouts : Deliver(p, f)
                                    \/ \E c \in Consumers : DeliverSend(p, c)
    PROVE  IInv'
<1> USE DEF IInv
<1>1. ASSUME NEW c \in Consumers, Receive(c) PROVE IInv'
  BY <1>1, BusStep, SubBrokerAssumption DEF Receive, TypeOK
<1>2. ASSUME NEW p \in Publishers, Publish(p) PROVE IInv'
  <2>1. pub' \in [Publishers -> Publish0] BY <1>2 DEF Publish, TypeOK, Publish0
  <2> QED BY <1>2, <2>1, BusStep DEF Publish, TypeOK
<1>3. ASSUME NEW p \in Publishers, NEW f \in Fanouts, Deliver(p, f) PROVE IInv'
  <2>1. pub' \in [Publishers -> Publish0] BY <1>3 DEF Deliver, TypeOK, Publish0
  <2> QED BY <1>3, <2>1, BusStep DEF Deliver, TypeOK
<1>4. ASSUME NEW p \in Publishers, NEW c \in Consumers, DeliverSend(p, c) PROVE IInv'
  <2>1. pub' \in [Publishers -> Publish0]
    <3>1. pub \in [Publishers -> Publish0] BY DEF TypeOK
    <3>2. CASE pub' = [pub EXCEPT ![p].todo = {}, ![p].chans = {}]
      BY <3>1, <3>2 DEF Publish0
    <3>3. CASE pub' = [pub EXCEPT ![p].chans = @ \ {c}]
      BY <3>1, <3>3 DEF Publish0
    <3> QED BY <1>4, <3>2, <3>3 DEF DeliverSend
  <2>2. buffer' \in [Consumers -> 0..Capacity]
    BY <1>4, SubBrokerAssumption DEF DeliverSend, TypeOK
  <2>3. panicked' \in BOOLEAN
    <3>1. panicked \in BOOLEAN BY DEF TypeOK
    <3>2. panicked' = TRUE \/ panicked' = panicked BY <1>4 DEF DeliverSend
    <3> QED BY <3>1, <3>2, Zenon
  <2>4. UNCHANGED brokerVars BY <1>4 DEF DeliverSend
  <2> QED BY <2>1, <2>2, <2>3, <2>4, BusStep
<1> QED BY <1>1, <1>2, <1>3, <1>4

(***************************************************************************)
(* The invariant is inductive: every step of acquire, release and the bus  *)
(* keeps it (broker.go).                                                   *)
(***************************************************************************)
THEOREM Inductive == IInv /\ [Next]_vars => IInv'
<1> SUFFICES ASSUME IInv, [Next]_vars PROVE IInv' OBVIOUS
<1>1. CASE UNCHANGED vars
  <2>1. UNCHANGED brokerVars BY <1>1 DEF vars, brokerVars
  <2>2. pub' = pub /\ panicked' = panicked /\ buffer' = buffer BY <1>1 DEF vars
  <2> QED BY <2>1, <2>2, BusStep DEF IInv, TypeOK
<1>2. CASE Next
  BY <1>2, AcquireFanoutStep, AcquireFailsStep, AcquireAttachStep, ReleaseTargetStep,
     ReleaseFanoutStep, BusSteps DEF Next
<1> QED BY <1>1, <1>2

(***************************************************************************)
(* Every variable of the broker stays within its type, for any number of   *)
(* consumers: no more fanouts are made than there are acquires.            *)
(***************************************************************************)
THEOREM TypeCorrect == Spec => []TypeOK
<1>1. IInv => TypeOK BY DEF IInv
<1> QED BY InitIInv, Inductive, <1>1, PTL DEF Spec

(***************************************************************************)
(* However acquires, releases and deliveries interleave, there is one bus  *)
(* subscription at most, that of the current fanout, and somebody who will *)
(* close it (broker.go acquire and release).                               *)
(***************************************************************************)
THEOREM OneSubscriptionHolds == Spec => []OneSubscription
<1>1. IInv => OneSubscription BY DEF IInv
<1> QED BY InitIInv, Inductive, <1>1, PTL DEF Spec

-----------------------------------------------------------------------------
(***************************************************************************)
(* The bus under the broker.  While the connection is not closed for good, *)
(* every subscription has its NATS side, so it does not matter which bus a *)
(* publish chooses; what is owed an event is subscribed; and no callback   *)
(* is started before the event is where it goes.                           *)
(***************************************************************************)
NatsSides == status # "closed" => \A f \in subscribed : nats[f] = 1
OwedSubscribed == \A p \in Publishers : owed[p] \subseteq subscribed
NotYet == \A p \in Publishers : route[p] # "over" => \A f \in Fanouts : got[p][f] = 0

FInv == IInv /\ FTypeOK /\ NatsSides /\ OwedSubscribed /\ NotYet /\ PublishedOnce

LEMMA FInitInv == FInit => FInv
<1> SUFFICES ASSUME FInit PROVE FInv OBVIOUS
<1>1. IInv BY InitIInv DEF FInit
<1>2. FTypeOK
  <2>1. 0 \in 0..MaxDrops BY FailoverAssumption
  <2>2. signals \in Seq(Status) /\ Len(signals) <= SignalCap BY FailoverAssumption DEF FInit
  <2>3. degraded \in BOOLEAN /\ deg \in BOOLEAN /\ removed \in BOOLEAN BY Zenon DEF FInit
  <2> QED BY <2>1, <2>2, <2>3 DEF FInit, FTypeOK, Status, Route
<1>3. NatsSides /\ OwedSubscribed /\ NotYet /\ PublishedOnce
  BY DEF FInit, Init, NatsSides, OwedSubscribed, NotYet, PublishedOnce
<1> QED BY <1>1, <1>2, <1>3 DEF FInv

\* The broker does not move.
LEMMA BrokerStill == ASSUME IInv, UNCHANGED vars PROVE IInv'
BY Inductive

\* What the watcher and the listener's channel do.
LEMMA WatchTypes ==
    ASSUME FInv, [FNext]_fvars
    PROVE  /\ status' \in Status /\ drops' \in 0..MaxDrops
           /\ signals' \in Seq(Status) /\ Len(signals') <= SignalCap
           /\ degraded' \in BOOLEAN /\ deg' \in BOOLEAN /\ removed' \in BOOLEAN
           /\ watcher' \in {"listen", "read", "idle", "bind", "store", "off"}
<1>0. FTypeOK BY DEF FInv
<1>1. ASSUME NEW st \in Status, Signal(st)
      PROVE  signals' \in Seq(Status) /\ Len(signals') <= SignalCap
  BY <1>0, <1>1, FailoverAssumption DEF Signal, FTypeOK
<1>2. natsDegraded(status) \in BOOLEAN BY DEF natsDegraded
<1>3. CASE Disconnect
  <2>1. status' \in Status /\ drops' \in 0..MaxDrops /\ Signal("reconnecting")
    BY <1>0, <1>3, FailoverAssumption DEF Disconnect, FTypeOK, Status
  <2>2. UNCHANGED <<watchVars, removed>> BY <1>3 DEF Disconnect
  <2>3. "reconnecting" \in Status BY DEF Status
  <2> QED BY <1>0, <1>1, <2>1, <2>2, <2>3 DEF FTypeOK, watchVars
<1>4. CASE Reconnect
  <2>1. status' \in Status /\ drops' = drops /\ Signal("connected") /\ UNCHANGED <<watchVars, removed>>
    BY <1>4 DEF Reconnect, Status
  <2>2. "connected" \in Status BY DEF Status
  <2> QED BY <1>0, <1>1, <2>1, <2>2 DEF FTypeOK, watchVars
<1>5. CASE Closes
  <2>1. status' \in Status /\ drops' = drops /\ Signal("closed") /\ UNCHANGED <<watchVars, removed>>
    BY <1>5 DEF Closes, Status
  <2>2. "closed" \in Status BY DEF Status
  <2> QED BY <1>0, <1>1, <2>1, <2>2 DEF FTypeOK, watchVars
<1>6. CASE Listen BY <1>0, <1>6 DEF Listen, FTypeOK, linkVars
<1>7. CASE StartRead BY <1>0, <1>2, <1>7 DEF StartRead, FTypeOK, linkVars
<1>8. CASE RefreshRead
  <2>1. signals \in Seq(Status) /\ signals # <<>> /\ Len(signals) <= SignalCap /\ SignalCap \in Nat
    BY <1>0, <1>8, FailoverAssumption DEF FTypeOK, RefreshRead
  <2>2. Tail(signals) \in Seq(Status) /\ Len(Tail(signals)) <= SignalCap BY <2>1
  <2> QED BY <1>0, <1>2, <1>8, <2>2 DEF RefreshRead, FTypeOK
<1>9. CASE RefreshBind BY <1>0, <1>9 DEF RefreshBind, FTypeOK, linkVars
<1>10. CASE RefreshStore BY <1>0, <1>10 DEF RefreshStore, FTypeOK, linkVars
<1>11. CASE UNCHANGED <<linkVars, watchVars>> BY <1>0, <1>11 DEF FTypeOK, linkVars, watchVars
<1>12. ASSUME NEW c \in Consumers, \/ Acquire(c) \/ AcquireRefused(c) \/ Attach(c)
                                   \/ Leave(c) \/ Release(c) \/ Take(c)
       PROVE  UNCHANGED <<linkVars, watchVars>>
  BY <1>12 DEF Acquire, AcquireRefused, Attach, Leave, Release, Take
<1>13. ASSUME NEW p \in Publishers, \/ PublishStart(p) \/ PublishNats(p) \/ PublishLocal(p)
                                    \/ Echo(p) \/ Callback(p)
       PROVE  UNCHANGED <<linkVars, watchVars>>
  BY <1>13 DEF PublishStart, PublishNats, PublishLocal, Echo, Callback
<1>14. CASE UNCHANGED fvars BY <1>11, <1>14 DEF fvars
<1>15. CASE CloseBus BY <1>0, <1>15 DEF CloseBus, FTypeOK, watchVars
<1>16. CASE WatchEnds BY <1>0, <1>16 DEF WatchEnds, FTypeOK, linkVars
<1> QED
  BY <1>3, <1>4, <1>5, <1>6, <1>7, <1>8, <1>9, <1>10, <1>11, <1>12, <1>13, <1>14, <1>15, <1>16 DEF FNext

\* The broker's part of a step is one of its own.
LEMMA BrokerStep == ASSUME FInv, [FNext]_fvars PROVE IInv'
<1>0. IInv /\ TypeOK /\ FTypeOK BY DEF FInv, IInv
<1>1. ASSUME NEW c \in Consumers, \/ Acquire(c) \/ AcquireRefused(c) \/ Attach(c)
                                  \/ Leave(c) \/ Release(c) \/ Take(c)
      PROVE  IInv'
  BY <1>0, <1>1, Inductive DEF Next, Acquire, AcquireRefused, Attach, Leave, Release, Take
<1>2. ASSUME NEW p \in Publishers, PublishLocal(p) \/ Callback(p) PROVE IInv'
  BY <1>0, <1>2, Inductive DEF Next, PublishLocal, Callback
<1>3. ASSUME NEW p \in Publishers, Echo(p) PROVE IInv'
  <2> DEFINE T == {f \in Fanouts : nats[f] > 0}
  <2>1. pub' = [pub EXCEPT ![p].state = "running", ![p].todo = T] /\ T \in SUBSET Fanouts
    BY <1>3 DEF Echo
  <2> HIDE DEF T
  <2>2. pub' \in [Publishers -> Publish0] BY <1>0, <2>1 DEF TypeOK, Publish0
  <2>3. UNCHANGED brokerVars /\ panicked' = panicked /\ buffer' = buffer BY <1>3 DEF Echo
  <2> QED BY <1>0, <2>2, <2>3, BusStep DEF TypeOK
<1>4. ASSUME \/ Disconnect \/ Reconnect \/ Closes \/ Listen \/ StartRead \/ RefreshRead
             \/ RefreshBind \/ RefreshStore \/ CloseBus \/ WatchEnds \/ UNCHANGED fvars
             \/ \E p \in Publishers : PublishStart(p) \/ PublishNats(p)
      PROVE  UNCHANGED vars
  BY <1>4 DEF Disconnect, Reconnect, Closes, Listen, StartRead, RefreshRead, RefreshBind, RefreshStore,
     CloseBus, WatchEnds, PublishStart, PublishNats, fvars
<1> QED BY <1>0, <1>1, <1>2, <1>3, <1>4, BrokerStill DEF FNext

\* What is subscribed, and on which side.
LEMMA SidesStep ==
    ASSUME FInv, [FNext]_fvars
    PROVE  nats' \in [Fanouts -> 0..1] /\ NatsSides'
<1>0. /\ nats \in [Fanouts -> 0..1] /\ NatsSides /\ subscribed \subseteq Fanouts
      /\ subscribed' \subseteq Fanouts /\ status \in Status
  BY BrokerStep DEF FInv, FTypeOK, IInv, TypeOK
<1>1. ASSUME NEW c \in Consumers, Acquire(c) PROVE nats' \in [Fanouts -> 0..1] /\ NatsSides'
  <2>1. status' = status BY <1>1 DEF Acquire, linkVars
  <2>2. CASE subs # 0
    BY <1>0, <1>1, <2>1, <2>2 DEF Acquire, AcquireFanout, NatsSides, Subscribe
  <2>3. CASE subs = 0
    <3>1. /\ subscribed' = subscribed \cup {made + 1}
          /\ nats' = [nats EXCEPT ![made + 1] = IF status = "closed" THEN 0 ELSE 1]
      BY <1>1, <2>3 DEF Acquire, AcquireFanout, Subscribe
    <3>2. made + 1 \in Fanouts BY <1>0, <3>1
    <3>3. \A f \in Fanouts : nats'[f] = IF f = made + 1 THEN IF status = "closed" THEN 0 ELSE 1 ELSE nats[f]
      BY <1>0, <3>1
    <3>4. nats' \in [Fanouts -> 0..1] BY <1>0, <3>1
    <3> QED BY <1>0, <2>1, <3>1, <3>2, <3>3, <3>4 DEF NatsSides
  <2> QED BY <2>2, <2>3
<1>2. ASSUME NEW c \in Consumers, Release(c) PROVE nats' \in [Fanouts -> 0..1] /\ NatsSides'
  <2>1. status' = status /\ subscribed' \subseteq subscribed
    BY <1>2 DEF Release, linkVars, ReleaseFanout
  <2>2. nats' = [f \in Fanouts |-> IF f \in subscribed' THEN nats[f] ELSE 0] BY <1>2 DEF Release
  <2> QED BY <1>0, <2>1, <2>2 DEF NatsSides
<1>3. CASE Closes
  <2>1. status' = "closed" /\ nats' = [f \in Fanouts |-> 0] BY <1>3 DEF Closes
  <2> QED BY <2>1 DEF NatsSides
<1>4. CASE RefreshBind
  <2>1. status' = status /\ subscribed' = subscribed BY <1>4 DEF RefreshBind, linkVars, vars
  <2>2. \/ nats' = nats
        \/ nats' = [f \in Fanouts |-> IF ~deg /\ f \in subscribed /\ status # "closed"
                                      THEN 1 ELSE nats[f]]
    BY <1>4 DEF RefreshBind
  <2> QED BY <1>0, <2>1, <2>2 DEF NatsSides
<1>5. CASE nats' = nats /\ subscribed' = subscribed /\ (status' = "closed" \/ status # "closed")
  BY <1>0, <1>5 DEF NatsSides
<1>6. ASSUME \/ Disconnect \/ Reconnect \/ Listen \/ StartRead \/ RefreshRead \/ RefreshStore
             \/ CloseBus \/ WatchEnds \/ UNCHANGED fvars
             \/ \E p \in Publishers : PublishStart(p) \/ PublishNats(p)
      PROVE  nats' = nats /\ subscribed' = subscribed /\ (status' = "closed" \/ status # "closed")
  BY <1>0, <1>6 DEF Disconnect, Reconnect, Listen, StartRead, RefreshRead, RefreshStore,
     CloseBus, WatchEnds, PublishStart, PublishNats, fvars, vars, linkVars, Status
<1>7. ASSUME NEW c \in Consumers, AcquireRefused(c) \/ Attach(c) \/ Leave(c) \/ Take(c)
      PROVE  nats' = nats /\ subscribed' = subscribed /\ status' = status
  BY <1>7 DEF AcquireRefused, AcquireFails, Attach, AcquireAttach, Leave, ReleaseTarget, Take, Receive,
     linkVars, brokerVars
<1>8. ASSUME NEW p \in Publishers, PublishLocal(p) \/ Echo(p) \/ Callback(p)
      PROVE  nats' = nats /\ subscribed' = subscribed /\ status' = status
  BY <1>8 DEF PublishLocal, Publish, Echo, Callback, Deliver, DeliverSend, linkVars, brokerVars
<1> QED
  BY <1>0, <1>1, <1>2, <1>3, <1>4, <1>5, <1>6, <1>7, <1>8 DEF FNext, NatsSides

\* Where the events are, and who got them.
LEMMA EventStep ==
    ASSUME FInv, [FNext]_fvars
    PROVE  /\ route' \in [Publishers -> Route] /\ got' \in [Publishers -> [Fanouts -> Nat]]
           /\ owed' \in [Publishers -> SUBSET Fanouts]
           /\ OwedSubscribed' /\ NotYet' /\ PublishedOnce'
<1> DEFINE Goal == /\ route' \in [Publishers -> Route] /\ got' \in [Publishers -> [Fanouts -> Nat]]
                   /\ owed' \in [Publishers -> SUBSET Fanouts]
                   /\ OwedSubscribed' /\ NotYet' /\ PublishedOnce'
<1> SUFFICES Goal OBVIOUS
<1>0. /\ nats \in [Fanouts -> 0..1] /\ route \in [Publishers -> Route]
      /\ got \in [Publishers -> [Fanouts -> Nat]] /\ owed \in [Publishers -> SUBSET Fanouts]
      /\ NatsSides /\ OwedSubscribed /\ NotYet /\ PublishedOnce /\ subscribed \subseteq Fanouts
  BY DEF FInv, FTypeOK, IInv, TypeOK
<1>1. ASSUME \A p \in Publishers : route'[p] = "over" <=> route[p] = "over",
             route' \in [Publishers -> Route], got' = got, owed' = owed, subscribed \subseteq subscribed'
      PROVE  Goal
  BY <1>0, <1>1 DEF OwedSubscribed, NotYet, PublishedOnce
<1>2. ASSUME UNCHANGED eventVars, subscribed \subseteq subscribed' PROVE Goal
  BY <1>0, <1>1, <1>2 DEF eventVars
<1>3. ASSUME NEW c \in Consumers, Release(c) PROVE Goal
  <2>1. route' = route /\ got' = got /\ owed' = [p \in Publishers |-> owed[p] \cap subscribed']
    BY <1>3 DEF Release
  <2> QED BY <1>0, <2>1 DEF OwedSubscribed, NotYet, PublishedOnce
<1>4. ASSUME NEW p \in Publishers, PublishStart(p) PROVE Goal
  <2>1. PICK v \in {"local", "nats"} : route' = [route EXCEPT ![p] = v] BY <1>4 DEF PublishStart
  <2>2. /\ route[p] = "none" /\ owed' = [owed EXCEPT ![p] = subscribed] /\ got' = got
        /\ subscribed' = subscribed
    BY <1>4 DEF PublishStart, vars
  <2>3. route' \in [Publishers -> Route] BY <1>0, <2>1 DEF Route
  <2> QED BY <1>0, <2>1, <2>2, <2>3 DEF OwedSubscribed, NotYet, PublishedOnce
<1>5. ASSUME NEW p \in Publishers, PublishNats(p) PROVE Goal
  <2>1. PICK v \in {"local", "wire", "failed"} : route' = [route EXCEPT ![p] = v] BY <1>5 DEF PublishNats
  <2>2. route[p] = "nats" /\ got' = got /\ owed' = owed /\ subscribed' = subscribed
    BY <1>5 DEF PublishNats, vars
  <2>3. route' \in [Publishers -> Route] BY <1>0, <2>1 DEF Route
  <2> QED BY <1>0, <1>1, <2>1, <2>2, <2>3
<1>6. ASSUME NEW p \in Publishers, NEW n \in [Fanouts -> 0..1], route[p] # "over",
             route' = [route EXCEPT ![p] = "over"],
             got' = [got EXCEPT ![p] = [f \in Fanouts |-> @[f] + n[f]]],
             \A f \in subscribed : n[f] = 1, owed' = owed, subscribed' = subscribed
      PROVE  Goal
  <2>1. route' \in [Publishers -> Route] BY <1>0, <1>6 DEF Route
  <2>2. got' = [got EXCEPT ![p] = [f \in Fanouts |-> got[p][f] + n[f]]] BY <1>0, <1>6
  <2>3. \A f \in Fanouts : got[p][f] = 0 /\ n[f] \in {0, 1} BY <1>0, <1>6 DEF NotYet
  <2>4. [f \in Fanouts |-> got[p][f] + n[f]] = n
    <3>1. \A f \in Fanouts : got[p][f] + n[f] = n[f] BY <2>3
    <3> QED BY <3>1
  <2>5. got' = [got EXCEPT ![p] = n] BY <2>2, <2>4
  <2>6. n \in [Fanouts -> Nat] BY <2>3
  <2>7. got' \in [Publishers -> [Fanouts -> Nat]] BY <1>0, <2>5, <2>6
  <2>8. got'[p] = n /\ \A q \in Publishers : q # p => got'[q] = got[q] BY <1>0, <2>5
  <2>9. OwedSubscribed' /\ NotYet' BY <1>0, <1>6, <2>8 DEF OwedSubscribed, NotYet
  <2>10. PublishedOnce'
    <3>1. ASSUME NEW q \in Publishers
          PROVE  /\ \A f \in Fanouts : got'[q][f] <= 1
                 /\ route'[q] = "over" => \A f \in owed'[q] : got'[q][f] = 1
      <4>1. CASE q = p
        <5>1. \A f \in Fanouts : n[f] <= 1 BY <2>3
        <5>2. \A f \in owed'[p] : n[f] = 1 BY <1>0, <1>6 DEF OwedSubscribed
        <5> QED BY <2>8, <4>1, <5>1, <5>2
      <4>2. CASE q # p BY <1>0, <1>6, <2>8, <4>2 DEF PublishedOnce
      <4> QED BY <4>1, <4>2
    <3> QED BY <3>1 DEF PublishedOnce
  <2> QED BY <1>0, <1>6, <2>1, <2>7, <2>9, <2>10
<1>7. ASSUME NEW p \in Publishers, PublishLocal(p) PROVE Goal
  <2> DEFINE n == [f \in Fanouts |-> IF f \in subscribed THEN 1 ELSE 0]
  <2>1. n \in [Fanouts -> 0..1] /\ \A f \in subscribed : n[f] = 1 BY <1>0
  <2>2. got' = [got EXCEPT ![p] = [f \in Fanouts |-> @[f] + n[f]]]
    BY <1>7 DEF PublishLocal
  <2>3. /\ route[p] # "over" /\ route' = [route EXCEPT ![p] = "over"] /\ owed' = owed
        /\ subscribed' = subscribed
    BY <1>7 DEF PublishLocal, Publish, brokerVars
  <2> HIDE DEF n, Goal
  <2> QED BY <1>6, <2>1, <2>2, <2>3
<1>8. ASSUME NEW p \in Publishers, Echo(p) PROVE Goal
  <2>1. \A f \in subscribed : nats[f] = 1 BY <1>0, <1>8 DEF Echo, NatsSides
  <2>2. got' = [got EXCEPT ![p] = [f \in Fanouts |-> @[f] + nats[f]]] BY <1>8 DEF Echo
  <2>3. /\ route[p] # "over" /\ route' = [route EXCEPT ![p] = "over"] /\ owed' = owed
        /\ subscribed' = subscribed
    BY <1>8 DEF Echo, brokerVars
  <2> HIDE DEF Goal
  <2> QED BY <1>0, <1>6, <2>1, <2>2, <2>3
<1>9. CASE Disconnect
  <2>1. PICK L \in SUBSET {p \in Publishers : route[p] = "wire"} :
             route' = [p \in Publishers |-> IF p \in L THEN "lost" ELSE route[p]]
    BY <1>9 DEF Disconnect
  <2>2. got' = got /\ owed' = owed /\ subscribed' = subscribed BY <1>9 DEF Disconnect, vars
  <2>3. route' \in [Publishers -> Route] BY <1>0, <2>1 DEF Route
  <2>4. \A p \in Publishers : route'[p] = "over" <=> route[p] = "over" BY <2>1
  <2> QED BY <1>1, <2>2, <2>3, <2>4
<1>10. CASE Closes
  <2>1. route' = [p \in Publishers |-> IF route[p] = "wire" THEN "lost" ELSE route[p]]
    BY <1>10 DEF Closes
  <2>2. got' = got /\ owed' = owed /\ subscribed' = subscribed BY <1>10 DEF Closes, vars
  <2>3. route' \in [Publishers -> Route] BY <1>0, <2>1 DEF Route
  <2>4. \A p \in Publishers : route'[p] = "over" <=> route[p] = "over" BY <2>1
  <2> QED BY <1>1, <2>2, <2>3, <2>4
<1>11. ASSUME \/ Reconnect \/ Listen \/ StartRead \/ RefreshRead \/ RefreshBind \/ RefreshStore
              \/ CloseBus \/ WatchEnds \/ UNCHANGED fvars
       PROVE  UNCHANGED eventVars /\ subscribed \subseteq subscribed'
  BY <1>11 DEF Reconnect, Listen, StartRead, RefreshRead, RefreshBind, RefreshStore,
     CloseBus, WatchEnds, fvars, vars
<1>12. ASSUME NEW c \in Consumers, \/ Acquire(c) \/ AcquireRefused(c) \/ Attach(c)
                                   \/ Leave(c) \/ Take(c)
       PROVE  UNCHANGED eventVars /\ subscribed \subseteq subscribed'
  BY <1>12 DEF Acquire, AcquireFanout, AcquireRefused, AcquireFails, Attach, AcquireAttach, Leave,
     ReleaseTarget, Take, Receive, brokerVars
<1>13. ASSUME NEW p \in Publishers, Callback(p)
       PROVE  UNCHANGED eventVars /\ subscribed \subseteq subscribed'
  BY <1>13 DEF Callback, Deliver, DeliverSend, brokerVars
<1> HIDE DEF Goal
<1>14. ASSUME NEW c \in Consumers, \/ Acquire(c) \/ AcquireRefused(c) \/ Attach(c)
                                   \/ Leave(c) \/ Release(c) \/ Take(c)
       PROVE  Goal
  BY <1>2, <1>3, <1>12, <1>14
<1>15. ASSUME NEW p \in Publishers, \/ PublishStart(p) \/ PublishNats(p) \/ PublishLocal(p)
                                    \/ Echo(p) \/ Callback(p)
       PROVE  Goal
  BY <1>2, <1>4, <1>5, <1>7, <1>8, <1>13, <1>15
<1>16. CASE \/ Reconnect \/ Listen \/ StartRead \/ RefreshRead \/ RefreshBind \/ RefreshStore
            \/ CloseBus \/ WatchEnds \/ UNCHANGED fvars
  BY <1>2, <1>11, <1>16
<1> QED BY <1>9, <1>10, <1>14, <1>15, <1>16 DEF FNext

LEMMA FInvHolds == FSpec => []FInv
<1>1. FInv /\ [FNext]_fvars => FInv'
  <2> SUFFICES ASSUME FInv, [FNext]_fvars PROVE FInv' OBVIOUS
  <2>1. FTypeOK' BY WatchTypes, SidesStep, EventStep DEF FTypeOK
  <2> QED BY <2>1, BrokerStep, SidesStep, EventStep DEF FInv
<1> QED BY <1>1, FInitInv, PTL DEF FSpec

(***************************************************************************)
(* On the failover bus too there is one subscription at most and somebody  *)
(* who will close it, also when the bus refuses one (pubsub_bus.go,        *)
(* broker.go).                                                             *)
(***************************************************************************)
THEOREM OneSubscriptionOnBus == FSpec => []OneSubscription
<1>1. FInv => OneSubscription BY DEF FInv, IInv
<1> QED BY <1>1, FInvHolds, PTL

(***************************************************************************)
(* Whenever the connection drops, comes back or closes, and wherever the   *)
(* watcher is with the degraded flag, a subscriber gets an event at most   *)
(* once, and one that NATS did not lose reaches every subscription that    *)
(* was open when it was published and still is (pubsub_bus.go Publish,     *)
(* Subscribe, refresh).                                                    *)
(***************************************************************************)
THEOREM PublishedOnceHolds == FSpec => []PublishedOnce
<1>1. FInv => PublishedOnce BY DEF FInv
<1> QED BY <1>1, FInvHolds, PTL

-----------------------------------------------------------------------------
(* What reaches a subscriber, as a sequence.                               *)

\* A frame that is shown was the oldest of its queue: nothing arrives by it.
LEMMA ShowKeepsArrived ==
    ASSUME NEW S, NEW s \in Seq(S), NEW q \in Seq(S), q # <<>>
    PROVE  /\ Append(s, Head(q)) \in Seq(S) /\ Tail(q) \in Seq(S)
           /\ Append(s, Head(q)) \o Tail(q) = s \o q
<1>1. Head(q) \in S /\ Tail(q) \in Seq(S) BY HeadTailProperties
<1>2. Append(s, Head(q)) \in Seq(S) BY <1>1, AppendProperties
<1>3. Append(s, Head(q)) \o Tail(q) = s \o q BY <1>1
<1> QED BY <1>1, <1>2, <1>3

\* An event that is sent arrives last.
LEMMA SendAppends ==
    ASSUME NEW S, NEW s \in Seq(S), NEW q \in Seq(S), NEW e \in S
    PROVE  /\ Append(q, e) \in Seq(S)
           /\ s \o Append(q, e) = Append(s \o q, e)
           /\ ToSet(s \o Append(q, e)) = ToSet(s \o q) \cup {e}
<1>1. s \o Append(q, e) = Append(s \o q, e) OBVIOUS
<1>2. s \o q \in Seq(S) BY ConcatProperties
<1> DEFINE a == s \o q
<1>3. a \in Seq(S) BY <1>2
<1> HIDE DEF a
<1>4. Len(Append(a, e)) = Len(a) + 1 /\ DOMAIN Append(a, e) = 1 .. Len(a) + 1 /\ DOMAIN a = 1 .. Len(a)
  BY <1>3
<1>5. \A i \in 1 .. Len(a) + 1 : Append(a, e)[i] = IF i <= Len(a) THEN a[i] ELSE e BY <1>3
<1>6. Len(a) \in Nat BY <1>3
<1> DEFINE b == Append(a, e)
<1>7. DOMAIN b = 1 .. Len(a) + 1 /\ \A i \in 1 .. Len(a) + 1 : b[i] = IF i <= Len(a) THEN a[i] ELSE e BY <1>4, <1>5
<1>8. ToSet(b) = ToSet(a) \cup {e}
  <2> HIDE DEF b
  <2>1. ASSUME NEW x \in ToSet(b) PROVE x \in ToSet(a) \cup {e}
    <3>1. PICK i \in 1 .. Len(a) + 1 : x = b[i] BY <1>7, <2>1 DEF ToSet
    <3> QED BY <1>4, <1>6, <1>7, <3>1 DEF ToSet
  <2>2. ASSUME NEW x \in ToSet(a) PROVE x \in ToSet(b)
    <3>1. PICK i \in 1 .. Len(a) : x = a[i] BY <1>4, <2>2 DEF ToSet
    <3>2. i \in 1 .. Len(a) + 1 /\ b[i] = x BY <1>6, <1>7, <3>1
    <3> QED BY <1>7, <3>2 DEF ToSet
  <2>3. e \in ToSet(b)
    <3>1. Len(a) + 1 \in 1 .. Len(a) + 1 /\ ~(Len(a) + 1 <= Len(a)) BY <1>6
    <3> QED BY <1>7, <3>1 DEF ToSet
  <2> QED BY <2>1, <2>2, <2>3
<1>9. Append(q, e) \in Seq(S) BY AppendProperties
<1> QED BY <1>1, <1>8, <1>9 DEF a, b

-----------------------------------------------------------------------------
(* The inductive invariant of SubscriptionsWhole: who owns a subscription, *)
(* and that a delivery which waits for a client has seen its queue full.   *)

Events == [by : BusPublishers, seq : Nat, channel : {note.channel : note \in Notices}, big : {note.big : note \in Notices}]
Handlings == {"away", "refused", "listing", "streaming", "cancelling", "closing", "gone"}
DeliveryStates ==
    [who : BusPublishers \cup Links, node : Nodes, ev : Events, todo : SUBSET Viewers,
     at : {"next", "drop", "again"}, to : SUBSET Viewers]

PubSubData ==
    /\ viewing \in [Viewers -> Handlings]
    /\ onBus \in [Nodes -> SUBSET Viewers] /\ listed \in [Nodes -> SUBSET Viewers]
    /\ queued \in [Viewers -> Seq(Events)] /\ shown \in [Viewers -> Seq(Events)]
    /\ shut \in [Viewers -> Nat]
    /\ overflowed \in [Viewers -> BOOLEAN]
    /\ promised \in [Viewers -> SUBSET Events]
    /\ issued \in [BusPublishers -> Nat]
    /\ deliveries \subseteq DeliveryStates
    /\ outbox \in [Links -> Seq(Events)]
    /\ requests \subseteq [link : Links, ev : Events]
    /\ closing \in [Nodes -> [at : {"open", "draining", "unsubscribing"}, taken : SUBSET Viewers]]

\* Table and Close hold the clients of their own gateway.
HeldAtHome == \A n \in Nodes : \A v \in listed[n] \cup closing[n].taken : ViewerAt[v] = n

\* A subscription is the table's, its own cancel's or Close's, and whoever has it
\* has not closed its channel yet.
OneOwner ==
    \A v \in Viewers :
        /\ viewing[v] \in {"away", "refused", "listing", "cancelling", "closing"} =>
              v \notin listed[ViewerAt[v]] /\ v \notin closing[ViewerAt[v]].taken /\ shut[v] = 0
        /\ viewing[v] \in {"away", "refused", "closing"} => v \notin onBus[ViewerAt[v]]
        /\ v \in listed[ViewerAt[v]] => v \notin closing[ViewerAt[v]].taken /\ shut[v] = 0
        /\ v \in closing[ViewerAt[v]].taken => shut[v] = 0
        /\ shut[v] # 0 => shut[v] = 1 /\ v \notin onBus[ViewerAt[v]]

\* A delivery waits for a client only while that one's queue is full.
StuckOverflowed ==
    \A d \in deliveries : /\ d.at = "next" => d.to = {}
                          /\ \A v \in d.to : overflowed[v]

\* What was promised to a client has arrived or is on its way.
NothingMissed ==
    \A v \in Viewers : shut[v] = 0 /\ ~overflowed[v] => promised[v] \subseteq ToSet(Arrived(v)) \cup Undelivered(v)

WholeInv == PubSubData /\ HeldAtHome /\ OneOwner /\ StuckOverflowed /\ NothingMissed

\* Nothing is under way at first.
LEMMA InitWhole == PubSubInit => WholeInv
<1> SUFFICES ASSUME PubSubInit PROVE WholeInv OBVIOUS
<1> USE GatPubSubAssumption DEF PubSubInit
<1>1. PubSubData
  <2>1. queued \in [Viewers -> Seq(Events)] /\ shown \in [Viewers -> Seq(Events)] OBVIOUS
  <2>2. outbox \in [Links -> Seq(Events)] OBVIOUS
  <2>3. closing \in [Nodes -> [at : {"open", "draining", "unsubscribing"}, taken : SUBSET Viewers]] OBVIOUS
  <2>4. viewing \in [Viewers -> Handlings] BY DEF Handlings
  <2>5. overflowed \in [Viewers -> BOOLEAN] OBVIOUS
  <2> QED BY <2>1, <2>2, <2>3, <2>4, <2>5 DEF PubSubData
<1>2. HeldAtHome BY DEF HeldAtHome
<1>3. OneOwner BY DEF OneOwner
<1>4. StuckOverflowed BY DEF StuckOverflowed
<1>5. NothingMissed BY DEF NothingMissed
<1> QED BY <1>1, <1>2, <1>3, <1>4, <1>5 DEF WholeInv

-----------------------------------------------------------------------------
(* Steps of a client, and of Close.                                        *)

\* What a delivery can be missed by is as it was.
LEMMA MissedNothing ==
    ASSUME NothingMissed, StuckOverflowed, deliveries' = deliveries, promised' = promised, overflowed' = overflowed,
           \A v \in Viewers : shut'[v] = 0 => shut[v] = 0,
           \A v \in Viewers : shown'[v] \o queued'[v] = shown[v] \o queued[v]
    PROVE  NothingMissed' /\ StuckOverflowed'
BY DEF NothingMissed, StuckOverflowed, Undelivered, Arrived

\* A step of a client.
LEMMA ViewerWhole ==
    ASSUME WholeInv, NEW v \in Viewers, ViewerStep(v)
    PROVE  WholeInv'
<1> USE GatPubSubAssumption
<1>0. /\ UNCHANGED <<deliveries, promised, overflowed, issued, outbox, requests, closing>>
  BY DEF ViewerStep, SignSubscribeToken, Refuse, SubscribeBus, SubscribeList, Show, Depart, CancelUnsubscribes,
         CancelCloses, queueVars, tableVars, publisherVars, meshVars
<1> DEFINE n == ViewerAt[v]
<1>n. n \in Nodes OBVIOUS
<1>t. PubSubData BY DEF WholeInv
<1>1. CASE SignSubscribeToken(v) \/ Refuse(v) \/ SubscribeBus(v) \/ SubscribeList(v) \/ Depart(v) \/ CancelUnsubscribes(v) \/ CancelCloses(v)
  <2>1. UNCHANGED <<queued, shown>>
    BY <1>1 DEF SignSubscribeToken, Refuse, SubscribeBus, SubscribeList, Depart, CancelUnsubscribes,
         CancelCloses, queueVars, tableVars, publisherVars, meshVars
  <2>2. /\ viewing' \in [Viewers -> Handlings]
        /\ onBus' \in [Nodes -> SUBSET Viewers] /\ listed' \in [Nodes -> SUBSET Viewers]
        /\ shut' \in [Viewers -> Nat]
    <3> USE <1>t DEF PubSubData, View, Handlings, queueVars, tableVars
    <3>1. CASE SignSubscribeToken(v) BY <3>1 DEF SignSubscribeToken
    <3>2. CASE Refuse(v) BY <3>2 DEF Refuse
    <3>3. CASE SubscribeBus(v) BY <3>3 DEF SubscribeBus
    <3>4. CASE SubscribeList(v) BY <3>4 DEF SubscribeList
    <3>5. CASE Depart(v) BY <3>5 DEF Depart
    <3>6. CASE CancelUnsubscribes(v) BY <3>6 DEF CancelUnsubscribes, Unsubscribe
    <3>7. CASE CancelCloses(v) BY <3>7 DEF CancelCloses, CloseChannel
    <3> QED BY <1>1, <3>1, <3>2, <3>3, <3>4, <3>5, <3>6, <3>7
  <2>3. PubSubData' BY <1>0, <1>t, <2>1, <2>2 DEF PubSubData
  <2>4. HeldAtHome' /\ OneOwner'
    <3>0. HeldAtHome /\ OneOwner BY DEF WholeInv
    <3> USE DEF PubSubData, HeldAtHome, OneOwner
    <3>1. CASE SignSubscribeToken(v) BY <1>0, <3>0, <3>1 DEF SignSubscribeToken, queueVars, tableVars
    <3>2. CASE Refuse(v) BY <1>0, <1>t, <3>0, <3>2 DEF Refuse, View, queueVars, tableVars
    <3>3. CASE SubscribeBus(v) BY <1>0, <1>t, <3>0, <3>3 DEF SubscribeBus, View, queueVars
    <3>4. CASE SubscribeList(v) BY <1>0, <1>t, <3>0, <3>4 DEF SubscribeList, View, queueVars
    <3>5. CASE Depart(v) BY <1>0, <1>t, <3>0, <3>5 DEF Depart, View, queueVars, Handlings
    <3>6. CASE CancelUnsubscribes(v) BY <1>0, <1>t, <3>0, <3>6 DEF CancelUnsubscribes, View, Unsubscribe, queueVars
    <3>7. CASE CancelCloses(v) BY <1>0, <1>t, <3>0, <3>7 DEF CancelCloses, View, CloseChannel, tableVars
    <3> QED BY <1>1, <3>1, <3>2, <3>3, <3>4, <3>5, <3>6, <3>7
  <2>5. \A w \in Viewers : shut'[w] = 0 => shut[w] = 0
    BY <1>1, <1>t DEF PubSubData, SignSubscribeToken, Refuse, SubscribeBus, SubscribeList, Depart, CancelUnsubscribes,
         CancelCloses, CloseChannel, queueVars
  <2>6. NothingMissed' /\ StuckOverflowed' BY <1>0, <2>1, <2>5, MissedNothing DEF WholeInv
  <2> QED BY <2>3, <2>4, <2>6 DEF WholeInv
<1>2. CASE Show(v)
  <2>1. UNCHANGED <<viewing, onBus, listed, shut>> BY <1>2 DEF Show, tableVars
  <2>2. /\ queued[v] # <<>>
        /\ queued' = [queued EXCEPT ![v] = Tail(queued[v])] /\ shown' = [shown EXCEPT ![v] = Append(shown[v], Head(queued[v]))]
    BY <1>2, <1>t DEF Show, PubSubData
  <2> DEFINE s == shown[v]
             q == queued[v]
  <2>3. s \in Seq(Events) /\ q \in Seq(Events) BY <1>t DEF PubSubData
  <2> HIDE DEF s, q
  <2>4. Append(s, Head(q)) \in Seq(Events) /\ Tail(q) \in Seq(Events) /\ Append(s, Head(q)) \o Tail(q) = s \o q
    BY <2>2, <2>3, ShowKeepsArrived DEF q
  <2>5. queued' \in [Viewers -> Seq(Events)] /\ shown' \in [Viewers -> Seq(Events)]
    BY <1>t, <2>2, <2>4 DEF PubSubData, s, q
  <2>6. PubSubData' BY <1>0, <1>t, <2>1, <2>5 DEF PubSubData
  <2>7. HeldAtHome' /\ OneOwner' BY <1>0, <2>1 DEF WholeInv, HeldAtHome, OneOwner
  <2>8. \A w \in Viewers : shown'[w] \o queued'[w] = shown[w] \o queued[w]
    <3> SUFFICES ASSUME NEW w \in Viewers PROVE shown'[w] \o queued'[w] = shown[w] \o queued[w] OBVIOUS
    <3>1. CASE w = v
      <4>1. shown'[v] = Append(s, Head(q)) /\ queued'[v] = Tail(q) BY <1>t, <2>2 DEF PubSubData, s, q
      <4> QED BY <3>1, <4>1, <2>4 DEF s, q
    <3>2. CASE w # v BY <1>t, <2>2, <3>2 DEF PubSubData
    <3> QED BY <3>1, <3>2
  <2>9. NothingMissed' /\ StuckOverflowed' BY <1>0, <2>1, <2>8, MissedNothing DEF WholeInv
  <2> QED BY <2>6, <2>7, <2>9 DEF WholeInv
<1> QED BY <1>1, <1>2 DEF ViewerStep

\* A step of Close.
LEMMA CloseWhole ==
    ASSUME WholeInv, NEW n \in Nodes, CloseStep(n)
    PROVE  WholeInv'
<1> USE GatPubSubAssumption
<1>0. UNCHANGED <<viewing, shown, queued, deliveries, promised, overflowed, issued, outbox, requests>>
  BY DEF CloseStep, StopMesh, CloseAll, CloseAllUnsubscribes, CloseAllCloses, queueVars, viewerVars, publisherVars, meshVars
<1>t. PubSubData BY DEF WholeInv
<1>1. /\ onBus' \in [Nodes -> SUBSET Viewers] /\ listed' \in [Nodes -> SUBSET Viewers]
      /\ shut' \in [Viewers -> Nat]
      /\ closing' \in [Nodes -> [at : {"open", "draining", "unsubscribing"}, taken : SUBSET Viewers]]
  <2> USE <1>t DEF PubSubData, CloseAt, queueVars, tableVars
  <2>1. CASE StopMesh(n) BY <2>1 DEF StopMesh
  <2>2. CASE CloseAll(n) BY <2>2 DEF CloseAll
  <2>3. CASE CloseAllUnsubscribes(n) BY <2>3 DEF CloseAllUnsubscribes, Unsubscribe
  <2>4. CASE CloseAllCloses(n)
    <3>1. closing[n].taken \subseteq Viewers OBVIOUS
    <3> QED BY <2>4, <3>1 DEF CloseAllCloses, CloseChannel
  <2> QED BY <2>1, <2>2, <2>3, <2>4 DEF CloseStep
<1>2. PubSubData' BY <1>0, <1>t, <1>1 DEF PubSubData
<1>3. HeldAtHome' /\ OneOwner'
  <2>0. HeldAtHome /\ OneOwner BY DEF WholeInv
  <2> USE DEF PubSubData, HeldAtHome, OneOwner
  <2>1. CASE StopMesh(n) BY <1>0, <1>t, <2>0, <2>1 DEF StopMesh, CloseAt, queueVars, tableVars
  <2>2. CASE CloseAll(n) BY <1>0, <1>t, <2>0, <2>2 DEF CloseAll, CloseAt, queueVars
  <2>3. CASE CloseAllUnsubscribes(n) BY <1>0, <1>t, <2>0, <2>3 DEF CloseAllUnsubscribes, Unsubscribe, queueVars
  <2>4. CASE CloseAllCloses(n)
    <3>1. PICK v \in closing[n].taken \ onBus[n] : CloseChannel(v) /\ CloseAt(n, "unsubscribing", closing[n].taken \ {v})
      BY <2>4 DEF CloseAllCloses
    <3>2. v \in Viewers /\ ViewerAt[v] = n BY <1>t, <2>0
    <3>3. shut[v] = 0 /\ v \notin listed[n] BY <2>0, <3>1, <3>2
    <3> QED BY <1>0, <1>t, <2>0, <2>4, <3>1, <3>2, <3>3 DEF CloseAllCloses, CloseChannel, CloseAt, tableVars
  <2> QED BY <2>1, <2>2, <2>3, <2>4 DEF CloseStep
<1>4. \A w \in Viewers : shut'[w] = 0 => shut[w] = 0
  <2>1. CASE CloseAllCloses(n)
    <3>1. closing[n].taken \subseteq Viewers BY <1>t DEF PubSubData
    <3> QED BY <1>t, <2>1, <3>1 DEF PubSubData, CloseAllCloses, CloseChannel
  <2> QED BY <2>1 DEF CloseStep, StopMesh, CloseAll, CloseAllUnsubscribes, queueVars
<1>5. NothingMissed' /\ StuckOverflowed' BY <1>0, <1>4, MissedNothing DEF WholeInv
<1> QED BY <1>2, <1>3, <1>5 DEF WholeInv

-----------------------------------------------------------------------------
(* Deliveries.                                                             *)

\* Clients, tables and Close are as they were.
LEMMA OwnersStay ==
    ASSUME HeldAtHome, OneOwner, UNCHANGED <<viewing, onBus, listed, shut, closing>>
    PROVE  HeldAtHome' /\ OneOwner'
BY DEF HeldAtHome, OneOwner

\* A delivery that goes on to its next target, or waits for this one.
Turned(d, at, v) == [d EXCEPT !.at = at, !.todo = @ \ {v}, !.to = IF at = "next" THEN {} ELSE {v}]

\* Nothing else of it changes.
LEMMA TurnedFacts ==
    \A d \in DeliveryStates, at \in {"next", "drop", "again"}, v \in Viewers :
        /\ Turned(d, at, v) \in DeliveryStates
        /\ Turned(d, at, v).at = at
        /\ Turned(d, at, v).todo = d.todo \ {v}
        /\ (at = "next" => Turned(d, at, v).to = {}) /\ (at # "next" => Turned(d, at, v).to = {v})
        /\ Turned(d, at, v).ev = d.ev /\ Turned(d, at, v).who = d.who /\ Turned(d, at, v).node = d.node
<1> TAKE d \in DeliveryStates, at \in {"next", "drop", "again"}, v \in Viewers
<1> DEFINE t == IF at = "next" THEN {} ELSE {v}
           e == [d EXCEPT !.at = at, !.todo = @ \ {v}, !.to = t]
<1>2. t \in SUBSET Viewers OBVIOUS
<1>3. e \in DeliveryStates BY <1>2 DEF DeliveryStates
<1>4. e.at = at /\ e.todo = d.todo \ {v} /\ e.to = t /\ e.ev = d.ev /\ e.who = d.who /\ e.node = d.node
  BY DEF DeliveryStates
<1> QED BY <1>3, <1>4 DEF Turned

\* What is still to be delivered to the others when a delivery turns to one client.
LEMMA OthersWait ==
    ASSUME NEW D, NEW d \in D, NEW e, NEW v, NEW w, w # v, e.ev = d.ev, e.todo = d.todo \ {v},
           w \notin d.to
    PROVE  {x.ev : x \in {y \in D : w \in y.todo \cup y.to}} \subseteq
           {x.ev : x \in {y \in (D \ {d}) \cup {e} : w \in y.todo \cup y.to}}
<1> SUFFICES ASSUME NEW x \in D, w \in x.todo \cup x.to
             PROVE  \E y \in (D \ {d}) \cup {e} : w \in y.todo \cup y.to /\ x.ev = y.ev
  OBVIOUS
<1>1. CASE x = d BY <1>1
<1>2. CASE x # d BY <1>2
<1> QED BY <1>1, <1>2

\* The send, first or second.
LEMMA TrySendWhole ==
    ASSUME WholeInv, NEW d \in deliveries, NEW v \in d.todo \cup d.to, NEW otherwise \in {"next", "drop"},
           TrySend(d, v, otherwise),
           UNCHANGED <<viewing, shown, onBus, listed, shut, promised, issued, outbox, requests, closing>>
    PROVE  WholeInv'
<1>t. PubSubData /\ StuckOverflowed /\ NothingMissed BY DEF WholeInv
<1>v. v \in Viewers /\ d.ev \in Events /\ d \in DeliveryStates BY <1>t DEF PubSubData, DeliveryStates
<1>w. shut[v] \in Nat BY <1>t, <1>v DEF PubSubData
<1>1. PICK at \in {"next", "drop"} :
        /\ Became(d, at, v)
        /\ at = "next" \/ overflowed'[v]
        /\ \/ queued' = queued /\ (shut[v] > 0 \/ overflowed'[v])
           \/ queued' = [queued EXCEPT ![v] = Append(queued[v], d.ev)] /\ shut[v] = 0
        /\ overflowed' = overflowed \/ overflowed' = [overflowed EXCEPT ![v] = TRUE]
  BY <1>t, <1>v DEF TrySend, PubSubData
<1> DEFINE e == Turned(d, at, v)
<1>3. /\ deliveries' = (deliveries \ {d}) \cup {e}
      /\ e \in DeliveryStates
      /\ e.at = at /\ e.todo = d.todo \ {v} /\ (at = "next" => e.to = {}) /\ (at # "next" => e.to = {v})
      /\ e.ev = d.ev
  <2>1. deliveries' = (deliveries \ {d}) \cup {e} BY <1>1 DEF Became, Turned
  <2>2. at \in {"next", "drop", "again"} OBVIOUS
  <2> QED BY <1>v, <2>1, <2>2, TurnedFacts
<1> HIDE DEF e
<1>2. deliveries' \subseteq DeliveryStates BY <1>t, <1>3 DEF PubSubData
<1>4. overflowed' \in [Viewers -> BOOLEAN] /\ \A w \in Viewers : overflowed[w] => overflowed'[w]
  BY <1>1, <1>t, <1>v DEF PubSubData
<1> DEFINE s == shown[v]
           q == queued[v]
           x == d.ev
<1>5. s \in Seq(Events) /\ q \in Seq(Events) /\ x \in Events BY <1>t, <1>v DEF PubSubData
<1>6. Append(q, x) \in Seq(Events) /\ ToSet(s \o Append(q, x)) = ToSet(s \o q) \cup {x}
  <2> HIDE DEF s, q, x
  <2> QED BY <1>5, SendAppends
<1>7. queued' \in [Viewers -> Seq(Events)] BY <1>t, <1>1, <1>6 DEF PubSubData
<1>8. PubSubData' BY <1>t, <1>2, <1>4, <1>7 DEF PubSubData
<1>9. HeldAtHome' /\ OneOwner' BY OwnersStay DEF WholeInv
<1>10. StuckOverflowed'
  <2> SUFFICES ASSUME NEW y \in deliveries' PROVE (y.at = "next" => y.to = {}) /\ \A w \in y.to : overflowed'[w]
    BY DEF StuckOverflowed
  <2>1. CASE y = e BY <1>1, <1>3, <2>1
  <2>2. CASE y \in deliveries
    <3>1. y.to \subseteq Viewers BY <1>t, <2>2 DEF PubSubData, DeliveryStates
    <3> QED BY <1>t, <1>4, <2>2, <3>1 DEF StuckOverflowed
  <2> QED BY <1>3, <2>1, <2>2
<1>11. NothingMissed'
  <2> SUFFICES ASSUME NEW w \in Viewers, shut[w] = 0, ~overflowed'[w]
               PROVE  promised[w] \subseteq ToSet(shown[w] \o queued'[w]) \cup Undelivered(w)'
    BY DEF NothingMissed, Arrived
  <2>1. ~overflowed[w] BY <1>4
  <2>2. promised[w] \subseteq ToSet(shown[w] \o queued[w]) \cup Undelivered(w)
    BY <1>t, <2>1 DEF NothingMissed, Arrived
  <2>3. CASE w = v
    <3>1. queued' = [queued EXCEPT ![v] = Append(q, x)] BY <1>1, <2>3
    <3>2. queued'[v] = Append(q, x) BY <1>t, <1>v, <3>1 DEF PubSubData
    <3>3. Undelivered(v) \subseteq Undelivered(v)' \cup {x}
      <4> SUFFICES ASSUME NEW y \in deliveries, v \in y.todo \cup y.to, y.ev # x PROVE y.ev \in Undelivered(v)'
        BY DEF Undelivered
      <4>1. y \in deliveries' BY <1>3
      <4> QED BY <4>1 DEF Undelivered
    <3> QED BY <1>6, <2>2, <2>3, <3>2, <3>3
  <2>4. CASE w # v
    <3>1. queued'[w] = queued[w] BY <1>t, <1>1, <2>4 DEF PubSubData
    <3>2. w \notin d.to BY <1>t, <2>1 DEF StuckOverflowed
    <3>3. Undelivered(w) \subseteq Undelivered(w)' BY <1>3, <2>4, <3>2, OthersWait DEF Undelivered
    <3> QED BY <2>2, <3>1, <3>3
  <2> QED BY <2>3, <2>4
<1> QED BY <1>8, <1>9, <1>10, <1>11 DEF WholeInv

\* The oldest goes for it.
LEMMA DropWhole ==
    ASSUME WholeInv, NEW d \in deliveries, DropOldest(d)
    PROVE  WholeInv'
<1>t. PubSubData /\ StuckOverflowed /\ NothingMissed BY DEF WholeInv
<1>0. UNCHANGED <<viewing, shown, onBus, listed, shut, overflowed, promised, issued, outbox, requests, closing>>
  BY DEF DropOldest, viewerVars, tableVars, publisherVars, meshVars
<1>1. PICK v \in d.to : /\ queued' = [queued EXCEPT ![v] = IF @ = <<>> THEN @ ELSE Tail(@)]
                        /\ Became(d, "again", v)
  BY DEF DropOldest
<1>v. v \in Viewers /\ d \in DeliveryStates BY <1>t DEF PubSubData, DeliveryStates
<1>o. overflowed[v] BY <1>t DEF StuckOverflowed
<1> DEFINE e == Turned(d, "again", v)
<1>3. /\ deliveries' = (deliveries \ {d}) \cup {e}
      /\ e \in DeliveryStates
      /\ e.at = "again" /\ e.todo = d.todo \ {v} /\ e.to = {v} /\ e.ev = d.ev
  <2>1. deliveries' = (deliveries \ {d}) \cup {e} BY <1>1 DEF Became, Turned
  <2> QED BY <1>v, <2>1, TurnedFacts
<1> HIDE DEF e
<1>2. deliveries' \subseteq DeliveryStates BY <1>t, <1>3 DEF PubSubData
<1>4. queued' \in [Viewers -> Seq(Events)]
  <2> DEFINE q == queued[v]
  <2>1. q \in Seq(Events) BY <1>t, <1>v DEF PubSubData
  <2>2. (IF q = <<>> THEN q ELSE Tail(q)) \in Seq(Events) BY <2>1, HeadTailProperties
  <2>3. queued' = [queued EXCEPT ![v] = IF q = <<>> THEN q ELSE Tail(q)] BY <1>t, <1>v, <1>1 DEF PubSubData
  <2> QED BY <1>t, <2>2, <2>3 DEF PubSubData
<1>5. PubSubData' BY <1>t, <1>0, <1>2, <1>4 DEF PubSubData
<1>6. HeldAtHome' /\ OneOwner' BY <1>0, OwnersStay DEF WholeInv
<1>7. StuckOverflowed' BY <1>t, <1>0, <1>3, <1>o DEF StuckOverflowed
<1>8. NothingMissed'
  <2> SUFFICES ASSUME NEW w \in Viewers, shut[w] = 0, ~overflowed[w]
               PROVE  promised[w] \subseteq ToSet(shown[w] \o queued'[w]) \cup Undelivered(w)'
    BY <1>0 DEF NothingMissed, Arrived
  <2>1. promised[w] \subseteq ToSet(shown[w] \o queued[w]) \cup Undelivered(w)
    BY <1>t DEF NothingMissed, Arrived
  <2>2. w # v /\ w \notin d.to BY <1>o, <1>t DEF StuckOverflowed
  <2>3. queued'[w] = queued[w] BY <1>t, <1>1, <2>2 DEF PubSubData
  <2>4. Undelivered(w) \subseteq Undelivered(w)' BY <1>3, <2>2, OthersWait DEF Undelivered
  <2> QED BY <2>1, <2>3, <2>4
<1> QED BY <1>5, <1>6, <1>7, <1>8 DEF WholeInv

\* A delivery that has served everyone.
LEMMA DeliveredWhole ==
    ASSUME WholeInv, NEW d \in deliveries, Delivered(d), deliveries' = deliveries \ {d},
           UNCHANGED <<viewing, shown, queued, onBus, listed, shut, overflowed, promised, issued, requests, closing>>,
           outbox' \in [Links -> Seq(Events)]
    PROVE  WholeInv'
<1>1. PubSubData' BY DEF WholeInv, PubSubData
<1>2. HeldAtHome' /\ OneOwner' BY OwnersStay DEF WholeInv
<1>3. StuckOverflowed' BY DEF WholeInv, StuckOverflowed
<1>4. d.todo = {} /\ d.to = {} BY DEF WholeInv, StuckOverflowed, Delivered
<1>5. \A v \in Viewers : Undelivered(v) \subseteq Undelivered(v)' BY <1>4 DEF Undelivered
<1>6. NothingMissed' BY <1>5 DEF WholeInv, NothingMissed, Arrived
<1> QED BY <1>1, <1>2, <1>3, <1>6 DEF WholeInv

\* A snapshot of the subscriptions is a promise to them.
LEMMA DeliveryWhole ==
    ASSUME WholeInv, NEW who \in BusPublishers \cup Links, NEW n \in Nodes, NEW ev \in Events,
           deliveries' = deliveries \cup {Delivery(who, n, ev)}, Promise(n, ev),
           UNCHANGED <<viewing, shown, queued, onBus, listed, shut, overflowed, outbox, closing>>,
           issued' \in [BusPublishers -> Nat], requests' \subseteq requests
    PROVE  WholeInv'
<1> DEFINE M == Matching(n, ev.channel)
           d == Delivery(who, n, ev)
<1>t. PubSubData /\ StuckOverflowed /\ NothingMissed BY DEF WholeInv
<1>1. M \subseteq Viewers BY <1>t DEF PubSubData, Matching
<1> HIDE DEF M
<1>2. d \in DeliveryStates BY <1>1 DEF Delivery, DeliveryStates, M
<1>3. d.todo = M /\ d.to = {} /\ d.ev = ev BY DEF Delivery, M
<1> HIDE DEF d
<1>4. deliveries' = deliveries \cup {d} BY DEF d
<1>5. promised' = [v \in Viewers |-> IF v \in M THEN promised[v] \cup {ev} ELSE promised[v]] BY DEF Promise, M
<1>6. promised' \in [Viewers -> SUBSET Events] BY <1>t, <1>5 DEF PubSubData
<1>7. PubSubData' BY <1>t, <1>2, <1>4, <1>6 DEF PubSubData
<1>8. HeldAtHome' /\ OneOwner' BY OwnersStay DEF WholeInv
<1>9. StuckOverflowed' BY <1>t, <1>3, <1>4 DEF StuckOverflowed
<1>10. NothingMissed'
  <2> SUFFICES ASSUME NEW w \in Viewers, shut[w] = 0, ~overflowed[w]
               PROVE  promised'[w] \subseteq ToSet(shown[w] \o queued[w]) \cup Undelivered(w)'
    BY DEF NothingMissed, Arrived
  <2>1. promised[w] \subseteq ToSet(shown[w] \o queued[w]) \cup Undelivered(w)
    BY <1>t DEF NothingMissed, Arrived
  <2>2. Undelivered(w) \subseteq Undelivered(w)' BY <1>4 DEF Undelivered
  <2>3. w \in M => ev \in Undelivered(w)' BY <1>3, <1>4 DEF Undelivered
  <2> QED BY <1>5, <2>1, <2>2, <2>3
<1> QED BY <1>7, <1>8, <1>9, <1>10 DEF WholeInv

\* A step of a delivery.
LEMMA DeliveryStepWhole ==
    ASSUME WholeInv, NEW d \in deliveries, DeliveryStep(d)
    PROVE  WholeInv'
<1>1. CASE Send(d)
  <2>1. PICK v \in d.todo : TrySend(d, v, "drop") BY <1>1 DEF Send
  <2>2. UNCHANGED <<viewing, shown, onBus, listed, shut, promised, issued, outbox, requests, closing>>
    BY <1>1 DEF Send, viewerVars, tableVars, publisherVars, meshVars
  <2>3. v \in d.todo \cup d.to /\ "drop" \in {"next", "drop"} OBVIOUS
  <2> QED BY <2>1, <2>2, <2>3, TrySendWhole
<1>2. CASE DropOldest(d) BY <1>2, DropWhole
<1>3. CASE SendAgain(d)
  <2>1. PICK v \in d.to : TrySend(d, v, "next") BY <1>3 DEF SendAgain
  <2>2. UNCHANGED <<viewing, shown, onBus, listed, shut, promised, issued, outbox, requests, closing>>
    BY <1>3 DEF SendAgain, viewerVars, tableVars, publisherVars, meshVars
  <2>3. v \in d.todo \cup d.to /\ "next" \in {"next", "drop"} OBVIOUS
  <2> QED BY <2>1, <2>2, <2>3, TrySendWhole
<1>4. CASE Handled(d)
  <2>1. UNCHANGED <<viewing, shown, queued, onBus, listed, shut, overflowed, promised, issued, outbox, requests, closing>>
    BY <1>4 DEF Handled, viewerVars, tableVars, queueVars, publisherVars
  <2>2. Delivered(d) /\ deliveries' = deliveries \ {d} BY <1>4 DEF Handled
  <2>3. outbox' \in [Links -> Seq(Events)] BY <2>1 DEF WholeInv, PubSubData
  <2> QED BY <2>1, <2>2, <2>3, DeliveredWhole
<1> QED BY <1>1, <1>2, <1>3, <1>4 DEF DeliveryStep

\* An event takes its places in the queues of the peers.
LEMMA FanoutData ==
    ASSUME PubSubData, NEW n \in Nodes, NEW ev \in Events, fanout(n, ev)
    PROVE  outbox' \in [Links -> Seq(Events)]
<1>1. \A l \in Links : Append(outbox[l], ev) \in Seq(Events) BY AppendProperties DEF PubSubData
<1> QED BY <1>1 DEF PubSubData, fanout

\* A step of a publisher.
LEMMA PublisherWhole ==
    ASSUME WholeInv, NEW p \in BusPublishers, PubSubPublish(p) \/ PublishReturns(p)
    PROVE  WholeInv'
<1> USE GatPubSubAssumption
<1>t. PubSubData BY DEF WholeInv
<1>1. CASE PubSubPublish(p)
  <2> DEFINE ev(note) == [by |-> p, seq |-> issued[p] + 1, channel |-> note.channel, big |-> note.big]
  <2>1. PICK note \in Notices :
          /\ issued' = [issued EXCEPT ![p] = @ + 1]
          /\ IF note.channel = <<>> THEN UNCHANGED <<publishing, deliveries, promised>>
             ELSE /\ deliveries' = deliveries \cup {Delivery(p, PublisherAt[p], ev(note))}
                  /\ Promise(PublisherAt[p], ev(note))
    BY <1>1 DEF PubSubPublish
  <2>2. UNCHANGED <<viewing, shown, queued, onBus, listed, shut, overflowed, outbox, closing, requests>>
    BY <1>1 DEF PubSubPublish, viewerVars, tableVars, queueVars, meshVars
  <2>3. issued' \in [BusPublishers -> Nat] /\ issued[p] + 1 \in Nat BY <1>t, <2>1 DEF PubSubData
  <2>4. CASE note.channel = <<>>
    <3>1. deliveries' = deliveries /\ promised' = promised BY <2>1, <2>4
    <3>2. PubSubData' BY <1>t, <2>2, <2>3, <3>1 DEF PubSubData
    <3>3. HeldAtHome' /\ OneOwner' BY <2>2, OwnersStay DEF WholeInv
    <3>4. NothingMissed' /\ StuckOverflowed' BY <2>2, <3>1, MissedNothing DEF WholeInv
    <3> QED BY <3>2, <3>3, <3>4 DEF WholeInv
  <2>5. CASE note.channel # <<>>
    <3> DEFINE x == ev(note)
    <3>1. x \in Events BY <2>3 DEF Events
    <3>2. deliveries' = deliveries \cup {Delivery(p, PublisherAt[p], x)} /\ Promise(PublisherAt[p], x) BY <2>1, <2>5
    <3>3. p \in BusPublishers \cup Links /\ PublisherAt[p] \in Nodes /\ requests' \subseteq requests BY <2>2
    <3> HIDE DEF x
    <3> QED BY <2>2, <2>3, <3>1, <3>2, <3>3, DeliveryWhole
  <2> QED BY <2>4, <2>5
<1>2. CASE PublishReturns(p)
  <2>1. PICK d \in deliveries :
          /\ Delivered(d) /\ deliveries' = deliveries \ {d}
          /\ fanout(d.node, d.ev) \/ outbox' = outbox
    BY <1>2 DEF PublishReturns
  <2>2. d.node \in Nodes /\ d.ev \in Events BY <1>t DEF PubSubData, DeliveryStates
  <2>3. outbox' \in [Links -> Seq(Events)]
    <3>1. CASE fanout(d.node, d.ev) BY <1>t, <2>2, <3>1, FanoutData
    <3>2. CASE outbox' = outbox BY <1>t, <3>2 DEF PubSubData
    <3> QED BY <2>1, <3>1, <3>2
  <2>4. UNCHANGED <<viewing, shown, queued, onBus, listed, shut, overflowed, promised, issued, requests, closing>>
    BY <1>2 DEF PublishReturns, viewerVars, tableVars, queueVars
  <2> QED BY <2>1, <2>3, <2>4, DeliveredWhole
<1> QED BY <1>1, <1>2

\* A step of the mesh.
LEMMA MeshWhole ==
    ASSUME WholeInv, MeshStep
    PROVE  WholeInv'
<1>t. PubSubData BY DEF WholeInv
<1>1. ASSUME NEW l \in Links, TakeNext(l) \/ PostFails(l) \/ PostTimesOut(l) PROVE WholeInv'
  <2>1. UNCHANGED <<viewing, shown, queued, onBus, listed, shut, overflowed, promised, issued, deliveries, closing>>
    BY <1>1 DEF TakeNext, PostFails, PostTimesOut, viewerVars, tableVars, queueVars, publisherVars
  <2>2. outbox' \in [Links -> Seq(Events)] /\ requests' \subseteq [link : Links, ev : Events]
    <3>1. CASE TakeNext(l)
      <4> DEFINE q == outbox[l]
      <4>1. q \in Seq(Events) /\ q # <<>> BY <1>t, <3>1 DEF PubSubData, TakeNext
      <4>2. Head(q) \in Events /\ Tail(q) \in Seq(Events) BY <4>1, HeadTailProperties
      <4>3. outbox' = [outbox EXCEPT ![l] = Tail(q)] BY <1>t, <3>1 DEF PubSubData, TakeNext
      <4>4. requests' \subseteq requests \cup {[link |-> l, ev |-> Head(q)]} BY <3>1 DEF TakeNext
      <4> QED BY <1>t, <4>2, <4>3, <4>4 DEF PubSubData
    <3>2. CASE PostFails(l) BY <1>t, <3>2 DEF PubSubData, PostFails
    <3>3. CASE PostTimesOut(l) BY <1>t, <3>3 DEF PubSubData, PostTimesOut
    <3> QED BY <1>1, <3>1, <3>2, <3>3
  <2>3. PubSubData' BY <1>t, <2>1, <2>2 DEF PubSubData
  <2>4. HeldAtHome' /\ OneOwner' BY <2>1, OwnersStay DEF WholeInv
  <2>5. NothingMissed' /\ StuckOverflowed' BY <2>1, MissedNothing DEF WholeInv
  <2> QED BY <2>3, <2>4, <2>5 DEF WholeInv
<1>2. ASSUME NEW r \in requests, Handle(r) PROVE WholeInv'
  <2>1. r.link \in Links /\ r.ev \in Events BY <1>t DEF PubSubData
  <2>2. r.link[2] \in Nodes BY <2>1 DEF Links
  <2>3. deliveries' = deliveries \cup {Delivery(r.link, r.link[2], r.ev)} /\ Promise(r.link[2], r.ev)
    BY <1>2 DEF Handle
  <2>4. UNCHANGED <<viewing, shown, queued, onBus, listed, shut, overflowed, outbox, issued, closing>>
    BY <1>2 DEF Handle, viewerVars, tableVars, queueVars, publisherVars
  <2>5. issued' \in [BusPublishers -> Nat] /\ requests' \subseteq requests BY <1>2, <1>t, <2>4 DEF PubSubData, Handle
  <2>6. r.link \in BusPublishers \cup Links BY <2>1
  <2> QED BY <2>1, <2>2, <2>3, <2>4, <2>5, <2>6, DeliveryWhole
<1> QED BY <1>1, <1>2 DEF MeshStep

\* Time, and steps of the rest of the system.
LEMMA StutterWhole ==
    ASSUME WholeInv, PassTime \/ UNCHANGED pubsubVars
    PROVE  WholeInv'
<1>1. UNCHANGED <<viewing, shown, queued, onBus, listed, shut, overflowed, promised, issued, outbox, requests, deliveries, closing>>
  BY DEF PassTime, pubsubVars, viewerVars, tableVars, queueVars, publisherVars, meshVars
<1>2. PubSubData' BY <1>1 DEF WholeInv, PubSubData
<1>3. HeldAtHome' /\ OneOwner' BY <1>1, OwnersStay DEF WholeInv
<1>4. NothingMissed' /\ StuckOverflowed' BY <1>1, MissedNothing DEF WholeInv
<1> QED BY <1>2, <1>3, <1>4 DEF WholeInv

\* WholeInv is an invariant.
LEMMA WholeInvHolds == PubSubSpec => []WholeInv
<1>1. WholeInv /\ [PubSubNext]_pubsubVars => WholeInv'
  <2> SUFFICES ASSUME WholeInv, [PubSubNext]_pubsubVars PROVE WholeInv' OBVIOUS
  <2> QED BY ViewerWhole, PublisherWhole, DeliveryStepWhole, MeshWhole, CloseWhole, StutterWhole DEF PubSubNext
<1> QED BY InitWhole, <1>1, PTL DEF PubSubSpec

(***************************************************************************)
(* A subscription of gat ends once, and only after the bus let go of it,   *)
(* whichever of its own cancel and Gateway.Close comes first; while it     *)
(* lasts, and its queue does not overflow, it gets or will get every event *)
(* that LocalBus.Publish took it as a target of.                           *)
(***************************************************************************)
THEOREM SubscriptionsWholeHolds == PubSubSpec => []SubscriptionsWhole
<1>1. WholeInv => SubscriptionsWhole
  <2> SUFFICES ASSUME WholeInv, NEW v \in Viewers
               PROVE  /\ shut[v] <= 1
                      /\ shut[v] = 1 => v \notin onBus[ViewerAt[v]]
                      /\ shut[v] = 0 /\ ~overflowed[v] => promised[v] \subseteq ToSet(Arrived(v)) \cup Undelivered(v)
    BY DEF SubscriptionsWhole
  <2>1. shut[v] \in Nat BY DEF WholeInv, PubSubData
  <2> QED BY <2>1 DEF WholeInv, OneOwner, NothingMissed
<1> QED BY <1>1, WholeInvHolds, PTL
-----------------------------------------------------------------------------
(* The inductive invariant of EventsOnce.  An event is published under the *)
(* next number of its publisher, waits in the queue of a link, is POSTed,  *)
(* delivered, and arrives; whatever is further on is older, and nothing is *)
(* at two places of one way.                                               *)

Before(x, y) == x.by = y.by => x.seq < y.seq
Apart(x, y) == x.by = y.by => x.seq # y.seq
Local(d) == d.who \in BusPublishers

OnceData ==
    /\ publishing \in [BusPublishers -> {"idle", "delivering", "panicked"}]
    /\ sender \in [Links -> [at : {"range", "posting"}, ev : Events \cup {NoEvent}]]
    /\ late \in BOOLEAN
    /\ tokenOf \in [Viewers -> {<<>>} \cup ({Wants[v] : v \in Viewers} \X Nat)]
    /\ clock \in Nat

\* An event goes from its publisher to the clients of its own gateway, and over
\* one link to those of another.
Travels(d) ==
    /\ \/ d.who \in BusPublishers /\ d.ev.by = d.who /\ d.node = PublishedAt(d.ev)
       \/ d.who \in Links /\ d.who = <<PublishedAt(d.ev), d.node>>
    /\ \A v \in d.todo \cup d.to : ViewerAt[v] = d.node
OneHop ==
    /\ \A n \in Nodes : \A v \in onBus[n] : ViewerAt[v] = n
    /\ \A d \in deliveries : Travels(d)
    /\ \A l \in Links : \A i \in DOMAIN outbox[l] : PublishedAt(outbox[l][i]) = l[1]
    /\ \A r \in requests : PublishedAt(r.ev) = r.link[1]

HasArrived(v, x) == \E i \in DOMAIN Arrived(v) : Arrived(v)[i] = x

\* Only who was let in is on the bus, and gets what it asked for.
Covered ==
    \A v \in Viewers :
        /\ ViewerAt[v] \in Guarded /\ viewing[v] \notin {"away", "refused"} => tokenOf[v] # <<>> /\ tokenOf[v][1] = Wants[v]
        /\ viewing[v] \in {"away", "refused"} =>
              (\A x \in Events : ~HasArrived(v, x)) /\ \A d \in deliveries : v \notin d.todo \cup d.to
        /\ \A x \in Events : HasArrived(v, x) => MatchChannel(Wants[v], x.channel)
        /\ \A d \in deliveries : v \in d.todo \cup d.to => MatchChannel(Wants[v], d.ev.channel)

\* The event is in a POST over the link, in a delivery, or with a client there.
HasLeft(l, x) ==
    \/ \E r \in requests : r.link = l /\ r.ev = x
    \/ \E d \in deliveries : d.who = l /\ d.ev = x
    \/ \E v \in Viewers : ViewerAt[v] = l[2] /\ HasArrived(v, x) /\ PublishedAt(x) = l[1]
Queued(l, x) == \E i \in DOMAIN outbox[l] : outbox[l][i] = x

\* The event that a publisher is delivering is the last one it issued, and no
\* other is ahead of it.
LastIssued ==
    /\ \A d \in deliveries : Local(d) => publishing[d.who] = "delivering" /\ d.ev.seq = issued[d.who]
    /\ \A v \in Viewers : \A x \in Events : HasArrived(v, x) => x.seq <= issued[x.by]
    /\ \A l \in Links : \A x \in Events : HasLeft(l, x) \/ Queued(l, x) =>
          /\ x.seq <= issued[x.by]
          /\ \A d \in deliveries : Local(d) => Before(x, d.ev)

\* A queue holds events in the order of their publishers, after what has left it.
QueueOrder ==
    \A l \in Links :
        /\ \A i, j \in DOMAIN outbox[l] : i < j => Before(outbox[l][i], outbox[l][j])
        /\ \A x \in Events, y \in Events : HasLeft(l, x) /\ Queued(l, y) => Before(x, y)

\* No two requests or deliveries of a link, or of a publisher, have one event.
AllApart ==
    /\ \A d, e \in deliveries : d # e /\ d.who = e.who => Apart(d.ev, e.ev)
    /\ \A r \in requests, d \in deliveries : r.link = d.who => Apart(r.ev, d.ev)
    /\ \A r, q \in requests : r # q /\ r.link = q.link => Apart(r.ev, q.ev)

\* While no sender gave up, it waits for whatever is under way on its link.
SenderWaits ==
    ~late => /\ \A r \in requests : sender[r.link] = [at |-> "posting", ev |-> r.ev]
             /\ \A d \in deliveries : d.who \in Links => sender[d.who] = [at |-> "posting", ev |-> d.ev]

\* What is under way to a client has not arrived there, nor has anything after it.
NotArrived ==
    \A v \in Viewers : \A a \in Events : HasArrived(v, a) =>
        /\ \A d \in deliveries : v \in d.todo \cup d.to => Apart(a, d.ev) /\ (Local(d) \/ ~late => Before(a, d.ev))
        /\ \A r \in requests : r.link[2] = ViewerAt[v] => Apart(a, r.ev) /\ (~late => Before(a, r.ev))

\* What EventsOnce says of a client's events.
InOrder ==
    \A v \in Viewers : \A i, j \in DOMAIN Arrived(v) : i < j =>
        /\ Apart(Arrived(v)[i], Arrived(v)[j])
        /\ PublishedAt(Arrived(v)[i]) = ViewerAt[v] \/ ~late => Before(Arrived(v)[i], Arrived(v)[j])

OrderInv == LastIssued /\ QueueOrder /\ AllApart /\ SenderWaits /\ NotArrived /\ InOrder
OnceInv == WholeInv /\ OnceData /\ OneHop /\ Covered /\ OrderInv

\* Links lead to another gateway, and are no publishers.
LEMMA LinkFacts ==
    \A l \in Links : l[1] \in Nodes /\ l[2] \in Nodes /\ l = <<l[1], l[2]>> /\ l[1] # l[2] /\ l \notin BusPublishers
BY GatPubSubAssumption DEF Links

\* What has arrived is a sequence of events.
LEMMA ArrivedData ==
    ASSUME PubSubData, NEW v \in Viewers
    PROVE  /\ Arrived(v) \in Seq(Events)
           /\ \A x : HasArrived(v, x) => x \in Events
<1> DEFINE s == shown[v]
           q == queued[v]
<1>1. s \in Seq(Events) /\ q \in Seq(Events) BY DEF PubSubData
<1> HIDE DEF s, q
<1>2. s \o q \in Seq(Events) BY <1>1, ConcatProperties
<1>3. Arrived(v) = s \o q BY DEF Arrived, s, q
<1>4. Arrived(v) \in Seq(Events) BY <1>2, <1>3
<1> HIDE DEF Arrived
<1>5. \A i \in DOMAIN Arrived(v) : Arrived(v)[i] \in Events BY <1>4
<1> QED BY <1>4, <1>5 DEF HasArrived

\* Nothing that the order of events is about changes.
LEMMA OrderStays ==
    ASSUME OrderInv, UNCHANGED <<deliveries, outbox, requests, sender, late, issued, publishing>>,
           \A v \in Viewers : Arrived(v)' = Arrived(v)
    PROVE  OrderInv'
<1>1. \A v \in Viewers : \A x : HasArrived(v, x)' <=> HasArrived(v, x) BY DEF HasArrived
<1>2. \A l, x : (HasLeft(l, x)' <=> HasLeft(l, x)) /\ (Queued(l, x)' <=> Queued(l, x)) BY <1>1 DEF HasLeft, Queued
<1>3. LastIssued' BY <1>1, <1>2 DEF OrderInv, LastIssued
<1>4. QueueOrder' BY <1>2 DEF OrderInv, QueueOrder
<1>5. AllApart' BY DEF OrderInv, AllApart
<1>6. SenderWaits' BY DEF OrderInv, SenderWaits
<1>7. NotArrived' BY <1>1 DEF OrderInv, NotArrived
<1>8. InOrder' BY DEF OrderInv, InOrder
<1> QED BY <1>3, <1>4, <1>5, <1>6, <1>7, <1>8 DEF OrderInv

\* Nothing is under way at first.
LEMMA InitOnce == PubSubInit => OnceInv
<1> SUFFICES ASSUME PubSubInit PROVE OnceInv OBVIOUS
<1>1. WholeInv BY InitWhole
<1>0. /\ deliveries = {} /\ requests = {}
      /\ \A l \in Links : outbox[l] = <<>>
      /\ \A v \in Viewers : shown[v] = <<>> /\ queued[v] = <<>>
  BY DEF PubSubInit
<1>2. OnceData BY DEF PubSubInit, OnceData
<1>3. OneHop BY <1>0, GatPubSubAssumption DEF PubSubInit, OneHop
<1>4. \A v \in Viewers : Arrived(v) = <<>> BY <1>0 DEF Arrived
<1>6. \A v \in Viewers : \A x : ~HasArrived(v, x) BY <1>4 DEF HasArrived
<1>5. Covered BY <1>0, <1>6 DEF PubSubInit, Covered
<1>7. \A l \in Links : \A x : ~HasLeft(l, x) /\ ~Queued(l, x) BY <1>0, <1>6 DEF HasLeft, Queued
<1>8. LastIssued BY <1>0, <1>6, <1>7 DEF LastIssued
<1>9. QueueOrder BY <1>0, <1>7 DEF QueueOrder
<1>10. AllApart /\ SenderWaits BY <1>0 DEF AllApart, SenderWaits
<1>11. NotArrived BY <1>6 DEF NotArrived
<1>12. InOrder BY <1>4 DEF InOrder
<1> QED BY <1>1, <1>2, <1>3, <1>5, <1>8, <1>9, <1>10, <1>11, <1>12 DEF OnceInv, OrderInv

-----------------------------------------------------------------------------
\* A step of a client.
LEMMA ViewerOnce ==
    ASSUME OnceInv, NEW v \in Viewers, ViewerStep(v)
    PROVE  OnceInv'
<1> USE GatPubSubAssumption
<1>t. PubSubData /\ OneOwner BY DEF OnceInv, WholeInv
<1>0. UNCHANGED <<deliveries, outbox, requests, sender, late, issued, publishing, clock>>
  BY DEF ViewerStep, SignSubscribeToken, Refuse, SubscribeBus, SubscribeList, Show, Depart, CancelUnsubscribes,
         CancelCloses, publisherVars, meshVars
<1>1. WholeInv' BY ViewerWhole DEF OnceInv
<1>2. \A w \in Viewers : Arrived(w)' = Arrived(w)
  <2> SUFFICES ASSUME NEW w \in Viewers PROVE shown'[w] \o queued'[w] = shown[w] \o queued[w] BY DEF Arrived
  <2>1. CASE Show(v) /\ w = v
    <3>1. queued[v] # <<>> BY <2>1 DEF Show
    <3> DEFINE s == shown[v]
               q == queued[v]
    <3>2. s \in Seq(Events) /\ q \in Seq(Events) BY <1>t DEF PubSubData
    <3>3. shown'[v] = Append(s, Head(q)) /\ queued'[v] = Tail(q) BY <1>t, <2>1 DEF Show, PubSubData
    <3> HIDE DEF s, q
    <3>4. Append(s, Head(q)) \o Tail(q) = s \o q BY <3>1, <3>2, ShowKeepsArrived DEF q
    <3> QED BY <2>1, <3>3, <3>4 DEF s, q
  <2>2. CASE Show(v) /\ w # v BY <1>t, <2>2 DEF Show, PubSubData
  <2>3. CASE ~Show(v)
    BY <2>3 DEF ViewerStep, SignSubscribeToken, Refuse, SubscribeBus, SubscribeList, Depart, CancelUnsubscribes,
         CancelCloses, queueVars
  <2> QED BY <2>1, <2>2, <2>3
<1>3. OrderInv' BY <1>0, <1>2, OrderStays DEF OnceInv
<1>4. tokenOf' \in [Viewers -> {<<>>} \cup ({Wants[w] : w \in Viewers} \X Nat)]
  <2>1. CASE SignSubscribeToken(v)
    <3>1. PICK w \in Viewers : tokenOf' = [tokenOf EXCEPT ![v] = <<Wants[w], clock>>] BY <2>1 DEF SignSubscribeToken
    <3>2. <<Wants[w], clock>> \in {Wants[u] : u \in Viewers} \X Nat BY DEF OnceInv, OnceData
    <3> QED BY <3>1, <3>2 DEF OnceInv, OnceData
  <2>2. CASE ~SignSubscribeToken(v)
    BY <2>2 DEF OnceInv, OnceData, ViewerStep, Refuse, SubscribeBus, SubscribeList, Show, Depart, CancelUnsubscribes, CancelCloses
  <2> QED BY <2>1, <2>2
<1>5. OnceData' BY <1>0, <1>4 DEF OnceInv, OnceData
<1>6. OneHop'
  <2>1. \A n \in Nodes : \A w \in onBus'[n] : ViewerAt[w] = n
    <3>0. \A n \in Nodes : \A w \in onBus[n] : ViewerAt[w] = n BY DEF OnceInv, OneHop
    <3>1. CASE SubscribeBus(v) BY <1>t, <3>0, <3>1 DEF SubscribeBus, PubSubData
    <3>2. CASE CancelUnsubscribes(v) BY <1>t, <3>0, <3>2 DEF CancelUnsubscribes, Unsubscribe, PubSubData
    <3>3. CASE ~SubscribeBus(v) /\ ~CancelUnsubscribes(v)
      BY <3>0, <3>3 DEF ViewerStep, SignSubscribeToken, Refuse, SubscribeList, Show, Depart, CancelCloses, tableVars
    <3> QED BY <3>1, <3>2, <3>3
  <2> QED BY <1>0, <2>1 DEF OnceInv, OneHop
<1>7. Covered'
  <2> SUFFICES ASSUME NEW w \in Viewers
               PROVE  /\ ViewerAt[w] \in Guarded /\ viewing'[w] \notin {"away", "refused"} => tokenOf'[w] # <<>> /\ tokenOf'[w][1] = Wants[w]
                      /\ viewing'[w] \in {"away", "refused"} => viewing[w] \in {"away", "refused"}
    <3>1. \A u \in Viewers : \A x : HasArrived(u, x)' <=> HasArrived(u, x) BY <1>2 DEF HasArrived
    <3> QED BY <1>0, <3>1 DEF OnceInv, Covered
  <2>0. viewing[w] \notin {"away", "refused"} /\ ViewerAt[w] \in Guarded => tokenOf[w] # <<>> /\ tokenOf[w][1] = Wants[w]
    BY DEF OnceInv, Covered
  <2> USE DEF PubSubData, OnceInv, OnceData
  <2>1. CASE SignSubscribeToken(v) BY <1>t, <2>0, <2>1 DEF SignSubscribeToken
  <2>2. CASE Refuse(v) BY <1>t, <2>0, <2>2 DEF Refuse, View
  <2>3. CASE SubscribeBus(v) BY <1>t, <2>0, <2>3 DEF SubscribeBus, View, verifySubscribeRequest
  <2>4. CASE SubscribeList(v) BY <1>t, <2>0, <2>4 DEF SubscribeList, View
  <2>5. CASE Depart(v) BY <1>t, <2>0, <2>5 DEF Depart, View
  <2>6. CASE CancelUnsubscribes(v) \/ CancelCloses(v) BY <1>t, <2>0, <2>6 DEF CancelUnsubscribes, CancelCloses, View
  <2>7. CASE Show(v) BY <2>0, <2>7 DEF Show
  <2> QED BY <2>1, <2>2, <2>3, <2>4, <2>5, <2>6, <2>7 DEF ViewerStep
<1> QED BY <1>1, <1>3, <1>5, <1>6, <1>7 DEF OnceInv

\* Steps that leave clients, events and links alone.
LEMMA QuietOnce ==
    ASSUME OnceInv, WholeInv',
           UNCHANGED <<viewing, tokenOf, shown, queued, deliveries, outbox, requests, sender, late, issued, publishing>>,
           \A n \in Nodes : onBus'[n] \subseteq onBus[n], clock' \in Nat
    PROVE  OnceInv'
<1>1. \A w \in Viewers : Arrived(w)' = Arrived(w) BY DEF Arrived
<1>2. OrderInv' BY <1>1, OrderStays DEF OnceInv
<1>3. OnceData' BY DEF OnceInv, OnceData
<1>4. OneHop' BY DEF OnceInv, OneHop
<1>6. \A u \in Viewers : \A x : HasArrived(u, x)' <=> HasArrived(u, x) BY <1>1 DEF HasArrived
<1>5. Covered' BY <1>6 DEF OnceInv, Covered
<1> QED BY <1>2, <1>3, <1>4, <1>5 DEF OnceInv

\* A step of Close.
LEMMA CloseOnce ==
    ASSUME OnceInv, NEW n \in Nodes, CloseStep(n)
    PROVE  OnceInv'
<1>1. WholeInv' BY CloseWhole DEF OnceInv
<1>2. UNCHANGED <<clock, viewing, tokenOf, shown, queued, deliveries, outbox, requests, sender, late, issued, publishing>>
  BY DEF CloseStep, StopMesh, CloseAll, CloseAllUnsubscribes, CloseAllCloses, queueVars, viewerVars, publisherVars, meshVars
<1>3. \A m \in Nodes : onBus'[m] \subseteq onBus[m]
  <2>1. CASE CloseAllUnsubscribes(n)
    <3>1. PICK v \in closing[n].taken \cap onBus[n] : Unsubscribe(v) BY <2>1 DEF CloseAllUnsubscribes
    <3>2. onBus \in [Nodes -> SUBSET Viewers] BY DEF OnceInv, WholeInv, PubSubData
    <3> QED BY <3>1, <3>2 DEF Unsubscribe
  <2>2. CASE ~CloseAllUnsubscribes(n) BY <2>2 DEF CloseStep, StopMesh, CloseAll, CloseAllCloses, tableVars
  <2> QED BY <2>1, <2>2
<1>4. clock' \in Nat BY <1>2 DEF OnceInv, OnceData
<1> QED BY <1>1, <1>2, <1>3, <1>4, QuietOnce

\* Time, and steps of the rest of the system.
LEMMA StutterOnce ==
    ASSUME OnceInv, PassTime \/ UNCHANGED pubsubVars
    PROVE  OnceInv'
<1>1. WholeInv' BY StutterWhole DEF OnceInv
<1>2. UNCHANGED <<viewing, tokenOf, onBus, shown, queued, deliveries, outbox, requests, sender, late, issued, publishing>>
  BY DEF PassTime, pubsubVars, queueVars, viewerVars, tableVars, publisherVars, meshVars
<1>3. clock' \in Nat
  <2>1. clock \in Nat BY DEF OnceInv, OnceData
  <2> QED BY <2>1 DEF PassTime, pubsubVars
<1> QED BY <1>1, <1>2, <1>3, QuietOnce

-----------------------------------------------------------------------------
(* Deliveries.                                                             *)

\* Two deliveries to a client of one publisher's events come the same way, and
\* a request to its gateway the way of neither a publisher nor another link.
LEMMA OneWay ==
    ASSUME PubSubData, OneHop, NEW d \in deliveries, NEW v \in d.todo \cup d.to
    PROVE  /\ v \in Viewers /\ d \in DeliveryStates /\ d.ev \in Events /\ ViewerAt[v] = d.node
           /\ Local(d) <=> PublishedAt(d.ev) = ViewerAt[v]
           /\ \A e \in deliveries : v \in e.todo \cup e.to /\ e.ev.by = d.ev.by => e.who = d.who
           /\ \A l \in Links : l[2] = ViewerAt[v] /\ PublishedAt(d.ev) = l[1] => d.who = l
<1>1. v \in Viewers /\ d \in DeliveryStates /\ d.ev \in Events BY DEF PubSubData, DeliveryStates
<1>2. \A e \in deliveries : v \in e.todo \cup e.to =>
        /\ ViewerAt[v] = e.node
        /\ \/ e.who \in BusPublishers /\ e.ev.by = e.who /\ e.node = PublishedAt(e.ev)
           \/ e.who \in Links /\ e.who = <<PublishedAt(e.ev), e.node>>
  BY DEF OneHop, Travels
<1>3. \A e \in deliveries : v \in e.todo \cup e.to /\ e.who \in Links => PublishedAt(e.ev) # e.node /\ e.who \notin BusPublishers
  <2> SUFFICES ASSUME NEW e \in deliveries, v \in e.todo \cup e.to, e.who \in Links
               PROVE  PublishedAt(e.ev) # e.node /\ e.who \notin BusPublishers
    OBVIOUS
  <2>1. e.who \notin BusPublishers /\ e.who[1] # e.who[2] BY LinkFacts
  <2>2. e.who = <<PublishedAt(e.ev), e.node>> BY <1>2, <2>1
  <2> QED BY <2>1, <2>2
<1>4. Local(d) <=> PublishedAt(d.ev) = ViewerAt[v] BY <1>2, <1>3 DEF Local
<1>5. ASSUME NEW e \in deliveries, v \in e.todo \cup e.to, e.ev.by = d.ev.by PROVE e.who = d.who
  <2>1. PublishedAt(e.ev) = PublishedAt(d.ev) /\ e.node = d.node BY <1>2, <1>5 DEF PublishedAt
  <2> QED BY <1>2, <1>3, <1>5, <2>1
<1>6. ASSUME NEW l \in Links, l[2] = ViewerAt[v], PublishedAt(d.ev) = l[1] PROVE d.who = l
  <2>1. l = <<l[1], l[2]>> /\ l[1] # l[2] BY LinkFacts
  <2>2. PublishedAt(d.ev) # d.node BY <1>2, <1>6, <2>1
  <2> QED BY <1>2, <1>6, <2>1, <2>2
<1> QED BY <1>1, <1>2, <1>4, <1>5, <1>6

\* A delivery turns from one client to the next; the client may have got it.
LEMMA TurnOnce ==
    ASSUME OnceInv, NEW d \in deliveries, NEW v \in d.todo \cup d.to, NEW e \in DeliveryStates,
           deliveries' = (deliveries \ {d}) \cup {e},
           e.ev = d.ev, e.who = d.who, e.node = d.node, e.todo \cup e.to \subseteq d.todo \cup d.to,
           UNCHANGED <<viewing, tokenOf, clock, onBus, outbox, requests, sender, late, issued, publishing>>,
           \A w \in Viewers, x \in Events : HasArrived(w, x)' =>
               HasArrived(w, x) \/ (w = v /\ x = d.ev /\ v \notin e.todo \cup e.to)
    PROVE  OnceData' /\ OneHop' /\ Covered' /\ LastIssued' /\ QueueOrder' /\ AllApart' /\ SenderWaits' /\ NotArrived'
<1>t. PubSubData /\ OneHop /\ Covered BY DEF OnceInv, WholeInv
<1>o. LastIssued /\ QueueOrder /\ AllApart /\ SenderWaits /\ NotArrived BY DEF OnceInv, OrderInv
<1>v. v \in Viewers /\ d.ev \in Events /\ ViewerAt[v] = d.node BY <1>t, OneWay
<1>1. OnceData' BY DEF OnceInv, OnceData
<1>2. OneHop'
  <2>1. Travels(d) BY <1>t DEF OneHop
  <2>2. Travels(e) BY <2>1 DEF Travels, PublishedAt
  <2> QED BY <1>t, <2>2 DEF OneHop, Travels
<1>3. Covered'
  <2> SUFFICES ASSUME NEW w \in Viewers
               PROVE  /\ viewing[w] \in {"away", "refused"} =>
                            (\A x \in Events : ~HasArrived(w, x)') /\ \A y \in deliveries' : w \notin y.todo \cup y.to
                      /\ \A x \in Events : HasArrived(w, x)' => MatchChannel(Wants[w], x.channel)
                      /\ \A y \in deliveries' : w \in y.todo \cup y.to => MatchChannel(Wants[w], y.ev.channel)
    BY <1>t DEF Covered
  <2> QED BY <1>t DEF Covered
<1>4. \A l \in Links, x \in Events : (HasLeft(l, x)' => HasLeft(l, x)) /\ (Queued(l, x)' <=> Queued(l, x))
  <2> SUFFICES ASSUME NEW l \in Links, NEW x \in Events, HasLeft(l, x)' PROVE HasLeft(l, x)
    BY DEF Queued
  <2>1. CASE \E r \in requests' : r.link = l /\ r.ev = x BY <2>1 DEF HasLeft
  <2>2. CASE \E y \in deliveries' : y.who = l /\ y.ev = x BY <2>2 DEF HasLeft
  <2>3. CASE \E w \in Viewers : ViewerAt[w] = l[2] /\ HasArrived(w, x)' /\ PublishedAt(x) = l[1]
    <3>1. PICK w \in Viewers : ViewerAt[w] = l[2] /\ HasArrived(w, x)' /\ PublishedAt(x) = l[1] BY <2>3
    <3>2. CASE HasArrived(w, x) BY <3>1, <3>2 DEF HasLeft
    <3>3. CASE w = v /\ x = d.ev
      <4>1. d.who = l BY <1>t, <3>1, <3>3, OneWay
      <4> QED BY <3>3, <4>1 DEF HasLeft
    <3> QED BY <3>1, <3>2, <3>3
  <2> QED BY <2>1, <2>2, <2>3 DEF HasLeft
<1>5. LastIssued'
  <2>1. \A y \in deliveries' : Local(y) => publishing[y.who] = "delivering" /\ y.ev.seq = issued[y.who]
    BY <1>o DEF LastIssued, Local
  <2>2. \A w \in Viewers, x \in Events : HasArrived(w, x)' => x.seq <= issued[x.by]
    <3>1. d.ev.seq <= issued[d.ev.by]
      <4>1. CASE Local(d)
        <5>1. d.ev.by = d.who /\ d.ev.seq = issued[d.who]
          <6>1. d.who \notin Links BY <4>1, LinkFacts DEF Local
          <6> QED BY <1>t, <1>o, <4>1, <6>1 DEF OneHop, Travels, LastIssued
        <5>2. d.ev.seq \in Nat BY <1>v DEF Events
        <5> QED BY <5>1, <5>2
      <4>2. CASE ~Local(d)
        <5>1. d.who \in Links BY <1>t, <4>2 DEF OneHop, Travels, Local
        <5>2. HasLeft(d.who, d.ev) BY DEF HasLeft
        <5> QED BY <1>o, <1>v, <5>1, <5>2 DEF LastIssued
      <4> QED BY <4>1, <4>2
    <3> QED BY <1>o, <3>1 DEF LastIssued
  <2>3. ASSUME NEW l \in Links, NEW x \in Events, HasLeft(l, x)' \/ Queued(l, x)'
        PROVE  x.seq <= issued[x.by] /\ \A y \in deliveries' : Local(y) => Before(x, y.ev)
    <3>1. HasLeft(l, x) \/ Queued(l, x) BY <1>4, <2>3
    <3>2. x.seq <= issued[x.by] /\ \A y \in deliveries : Local(y) => Before(x, y.ev) BY <1>o, <3>1 DEF LastIssued
    <3> QED BY <3>2 DEF Local
  <2> QED BY <2>1, <2>2, <2>3 DEF LastIssued, Local
<1>6. QueueOrder' BY <1>o, <1>4 DEF QueueOrder
<1>7. AllApart'
  <2>1. \A x, y \in deliveries' : x # y /\ x.who = y.who => Apart(x.ev, y.ev)
    <3> SUFFICES ASSUME NEW x \in deliveries', NEW y \in deliveries', x # y, x.who = y.who PROVE Apart(x.ev, y.ev)
      OBVIOUS
    <3>1. CASE x = e BY <1>o, <3>1 DEF AllApart, Apart
    <3>2. CASE y = e BY <1>o, <3>2 DEF AllApart, Apart
    <3>3. CASE x # e /\ y # e BY <1>o, <3>3 DEF AllApart
    <3> QED BY <3>1, <3>2, <3>3
  <2>2. \A r \in requests, y \in deliveries' : r.link = y.who => Apart(r.ev, y.ev) BY <1>o DEF AllApart
  <2> QED BY <1>o, <2>1, <2>2 DEF AllApart
<1>8. SenderWaits' BY <1>o DEF SenderWaits
<1>9. NotArrived'
  <2> SUFFICES ASSUME NEW w \in Viewers, NEW a \in Events, HasArrived(w, a)'
               PROVE  /\ \A y \in deliveries' : w \in y.todo \cup y.to => Apart(a, y.ev) /\ (Local(y) \/ ~late => Before(a, y.ev))
                      /\ \A r \in requests : r.link[2] = ViewerAt[w] => Apart(a, r.ev) /\ (~late => Before(a, r.ev))
    BY DEF NotArrived, Local
  <2>1. CASE HasArrived(w, a) BY <1>o, <2>1 DEF NotArrived, Local
  <2>2. CASE w = v /\ a = d.ev /\ v \notin e.todo \cup e.to
    <3>1. ASSUME NEW y \in deliveries', v \in y.todo \cup y.to
          PROVE  Apart(d.ev, y.ev) /\ (Local(y) \/ ~late => Before(d.ev, y.ev))
      <4>1. y \in deliveries /\ y # d BY <2>2, <3>1
      <4>2. y.ev.by = d.ev.by => y.who = d.who BY <1>t, <3>1, <4>1, OneWay
      <4>3. Apart(d.ev, y.ev) BY <1>o, <4>1, <4>2 DEF AllApart, Apart
      <4>4. ASSUME y.ev.by = d.ev.by PROVE ~Local(y) /\ late
        <5>1. Local(y) => y.ev.seq = d.ev.seq BY <1>o, <4>1, <4>2, <4>4 DEF LastIssued, Local
        <5>2. ~Local(y) BY <4>3, <4>4, <5>1 DEF Apart
        <5>3. y.who \in Links BY <1>t, <4>1, <5>2 DEF OneHop, Travels, Local
        <5>4. ASSUME ~late PROVE y.ev = d.ev
          <6>1. sender[d.who] = [at |-> "posting", ev |-> y.ev] /\ sender[d.who] = [at |-> "posting", ev |-> d.ev]
            BY <1>o, <4>1, <4>2, <4>4, <5>3, <5>4 DEF SenderWaits
          <6>2. sender[d.who].ev = y.ev /\ sender[d.who].ev = d.ev BY <6>1
          <6> QED BY <6>2
        <5> QED BY <4>3, <4>4, <5>2, <5>4 DEF Apart
      <4> QED BY <4>3, <4>4 DEF Before
    <3>2. ASSUME NEW r \in requests, r.link[2] = ViewerAt[v]
          PROVE  Apart(d.ev, r.ev) /\ (~late => Before(d.ev, r.ev))
      <4>1. r.link \in Links BY <1>t DEF PubSubData
      <4>2. ASSUME r.ev.by = d.ev.by PROVE d.ev.seq # r.ev.seq /\ late
        <5>1. PublishedAt(d.ev) = r.link[1] BY <1>t, <4>2 DEF OneHop, PublishedAt
        <5>2. d.who = r.link BY <1>t, <3>2, <4>1, <5>1, OneWay
        <5>3. r.ev.seq # d.ev.seq BY <1>o, <4>2, <5>2 DEF AllApart, Apart
        <5>4. ASSUME ~late PROVE r.ev = d.ev
          <6>1. sender[d.who] = [at |-> "posting", ev |-> r.ev] /\ sender[d.who] = [at |-> "posting", ev |-> d.ev]
            BY <1>o, <4>1, <5>2, <5>4 DEF SenderWaits
          <6>2. sender[d.who].ev = r.ev /\ sender[d.who].ev = d.ev BY <6>1
          <6> QED BY <6>2
        <5> QED BY <5>3, <5>4
      <4> QED BY <4>2 DEF Apart, Before
    <3> QED BY <2>2, <3>1, <3>2
  <2> QED BY <2>1, <2>2
<1> QED BY <1>1, <1>2, <1>3, <1>5, <1>6, <1>7, <1>8, <1>9

\* The send, first or second.
LEMMA TrySendOnce ==
    ASSUME OnceInv, WholeInv', NEW d \in deliveries, NEW v \in d.todo \cup d.to, NEW otherwise \in {"next", "drop"},
           TrySend(d, v, otherwise),
           UNCHANGED <<viewing, tokenOf, clock, shown, onBus, outbox, requests, sender, late, issued, publishing>>
    PROVE  OnceInv'
<1>t. PubSubData /\ OneHop BY DEF OnceInv, WholeInv
<1>v. v \in Viewers /\ d.ev \in Events /\ d \in DeliveryStates /\ ViewerAt[v] = d.node BY <1>t, OneWay
<1>1. PICK at \in {"next", "drop"} :
        /\ Became(d, at, v)
        /\ \/ queued' = queued
           \/ queued' = [queued EXCEPT ![v] = Append(queued[v], d.ev)] /\ at = "next"
  <2>1. \/ Became(d, "next", v) /\ queued' = queued
        \/ Became(d, otherwise, v) /\ queued' = queued
        \/ Became(d, "next", v) /\ queued' = [queued EXCEPT ![v] = Append(@, d.ev)]
    BY DEF TrySend
  <2>2. [queued EXCEPT ![v] = Append(@, d.ev)] = [queued EXCEPT ![v] = Append(queued[v], d.ev)]
    BY <1>t, <1>v DEF PubSubData
  <2> HIDE DEF Became
  <2> QED BY <2>1, <2>2
<1> DEFINE e == Turned(d, at, v)
<1>2. /\ deliveries' = (deliveries \ {d}) \cup {e}
      /\ e \in DeliveryStates
      /\ e.ev = d.ev /\ e.who = d.who /\ e.node = d.node
      /\ e.todo = d.todo \ {v} /\ (at = "next" => e.to = {}) /\ (at # "next" => e.to = {v})
  <2>1. deliveries' = (deliveries \ {d}) \cup {e} BY <1>1 DEF Became, Turned
  <2>2. at \in {"next", "drop", "again"} OBVIOUS
  <2> QED BY <1>v, <2>1, <2>2, TurnedFacts
<1> HIDE DEF e
<1>3. e.todo \cup e.to \subseteq d.todo \cup d.to BY <1>2
<1>4. at = "next" => v \notin e.todo \cup e.to BY <1>2
<1>5. \A w \in Viewers : \/ Arrived(w)' = Arrived(w)
                         \/ w = v /\ at = "next" /\ Arrived(w)' = Append(Arrived(w), d.ev)
  <2> SUFFICES ASSUME NEW w \in Viewers
               PROVE  \/ shown[w] \o queued'[w] = shown[w] \o queued[w]
                      \/ w = v /\ at = "next" /\ shown[w] \o queued'[w] = Append(shown[w] \o queued[w], d.ev)
    BY DEF Arrived
  <2>1. CASE queued' = queued BY <2>1
  <2>2. CASE queued' = [queued EXCEPT ![v] = Append(queued[v], d.ev)] /\ at = "next" /\ w = v
    <3> DEFINE s == shown[v]
               q == queued[v]
               x == d.ev
    <3>1. s \in Seq(Events) /\ q \in Seq(Events) /\ x \in Events BY <1>t, <1>v DEF PubSubData
    <3>2. queued'[v] = Append(q, x) BY <1>t, <1>v, <2>2 DEF PubSubData
    <3> HIDE DEF s, q, x
    <3>3. s \o Append(q, x) = Append(s \o q, x) BY <3>1, SendAppends
    <3> QED BY <2>2, <3>2, <3>3 DEF s, q, x
  <2>3. CASE queued' = [queued EXCEPT ![v] = Append(queued[v], d.ev)] /\ w # v BY <1>t, <2>3 DEF PubSubData
  <2> QED BY <1>1, <2>1, <2>2, <2>3
<1>6. \A w \in Viewers : Arrived(w) \in Seq(Events) BY <1>t, ArrivedData
<1>7. ASSUME NEW w \in Viewers, NEW x \in Events, HasArrived(w, x)'
      PROVE  HasArrived(w, x) \/ (w = v /\ x = d.ev /\ v \notin e.todo \cup e.to)
  <2>1. CASE Arrived(w)' = Arrived(w) BY <1>7, <2>1 DEF HasArrived
  <2>2. CASE w = v /\ at = "next" /\ Arrived(w)' = Append(Arrived(w), d.ev)
    <3> DEFINE s == Arrived(v)
               y == d.ev
    <3>1. s \in Seq(Events) /\ y \in Events BY <1>6, <1>v
    <3>2. PICK i \in DOMAIN Append(s, y) : Append(s, y)[i] = x BY <1>7, <2>2 DEF HasArrived
    <3> HIDE DEF s, y
    <3>3. (i \in DOMAIN s /\ s[i] = x) \/ x = y BY <3>1, <3>2
    <3> QED BY <1>4, <2>2, <3>3 DEF HasArrived, s, y
  <2> QED BY <1>5, <2>1, <2>2
<1>8. OnceData' /\ OneHop' /\ Covered' /\ LastIssued' /\ QueueOrder' /\ AllApart' /\ SenderWaits' /\ NotArrived'
  BY <1>2, <1>3, <1>7, TurnOnce
<1>9. InOrder'
  <2> SUFFICES ASSUME NEW w \in Viewers
               PROVE  (\A i, j \in DOMAIN Arrived(w) : i < j =>
                        /\ Apart(Arrived(w)[i], Arrived(w)[j])
                        /\ PublishedAt(Arrived(w)[i]) = ViewerAt[w] \/ ~late => Before(Arrived(w)[i], Arrived(w)[j]))'
    BY DEF InOrder
  <2>0. \A i, j \in DOMAIN Arrived(w) : i < j =>
            /\ Apart(Arrived(w)[i], Arrived(w)[j])
            /\ PublishedAt(Arrived(w)[i]) = ViewerAt[w] \/ ~late => Before(Arrived(w)[i], Arrived(w)[j])
    BY DEF OnceInv, OrderInv, InOrder
  <2>1. CASE Arrived(w)' = Arrived(w) BY <2>0, <2>1
  <2>2. CASE w = v /\ at = "next" /\ Arrived(w)' = Append(Arrived(w), d.ev)
    <3> DEFINE s == Arrived(w)
               x == d.ev
               t == Append(s, x)
    <3>1. s \in Seq(Events) /\ x \in Events BY <1>6, <1>v
    <3>2. \A k \in DOMAIN s : s[k] \in Events /\ Apart(s[k], x) /\ (PublishedAt(s[k]) = ViewerAt[w] \/ ~late => Before(s[k], x))
      <4> SUFFICES ASSUME NEW k \in DOMAIN s
                   PROVE  s[k] \in Events /\ Apart(s[k], x) /\ (PublishedAt(s[k]) = ViewerAt[w] \/ ~late => Before(s[k], x))
        OBVIOUS
      <4>1. s[k] \in Events
        <5> HIDE DEF s
        <5> QED BY <3>1
      <4>2. HasArrived(w, s[k]) BY DEF HasArrived
      <4>3. Apart(s[k], x) /\ (Local(d) \/ ~late => Before(s[k], x))
        BY <2>2, <4>1, <4>2 DEF OnceInv, OrderInv, NotArrived
      <4>4. s[k].by = x.by /\ PublishedAt(s[k]) = ViewerAt[w] => Local(d)
        BY <1>t, <2>2, OneWay DEF PublishedAt
      <4> QED BY <4>1, <4>3, <4>4 DEF Before
    <3> HIDE DEF s, x
    <3>3. /\ DOMAIN t = 1 .. Len(s) + 1 /\ DOMAIN s = 1 .. Len(s) /\ Len(s) \in Nat
          /\ \A k \in 1 .. Len(s) + 1 : t[k] = IF k <= Len(s) THEN s[k] ELSE x
      BY <3>1
    <3> HIDE DEF t
    <3>4. \A i, j \in DOMAIN t : i < j =>
             /\ Apart(t[i], t[j])
             /\ PublishedAt(t[i]) = ViewerAt[w] \/ ~late => Before(t[i], t[j])
      <4> SUFFICES ASSUME NEW i \in DOMAIN t, NEW j \in DOMAIN t, i < j
                   PROVE  /\ Apart(t[i], t[j])
                          /\ PublishedAt(t[i]) = ViewerAt[w] \/ ~late => Before(t[i], t[j])
        OBVIOUS
      <4>1. i \in 1 .. Len(s) /\ t[i] = s[i] BY <3>3
      <4>2. CASE j <= Len(s)
        <5>1. j \in 1 .. Len(s) /\ t[j] = s[j] BY <3>3, <4>2
        <5> QED BY <2>0, <3>3, <4>1, <5>1 DEF s
      <4>3. CASE ~(j <= Len(s))
        <5>1. t[j] = x BY <3>3, <4>3
        <5> QED BY <3>2, <3>3, <4>1, <5>1
      <4> QED BY <4>2, <4>3
    <3>5. Arrived(w)' = t BY <2>2 DEF s, x, t
    <3> QED BY <3>4, <3>5
  <2> QED BY <1>5, <2>1, <2>2
<1> QED BY <1>8, <1>9 DEF OnceInv, OrderInv

\* The elements of t are among those of u, in their order there.
Within(t, u) ==
    /\ \A i \in DOMAIN t : \E k \in DOMAIN u : t[i] = u[k]
    /\ \A i, j \in DOMAIN t : i < j => \E k, m \in DOMAIN u : k < m /\ t[i] = u[k] /\ t[j] = u[m]

\* What is left of two sequences when the second loses its first element.
LEMMA DropKeepsOrder ==
    ASSUME NEW S, NEW s \in Seq(S), NEW q \in Seq(S), q # <<>>
    PROVE  Within(s \o Tail(q), s \o q)
<1> DEFINE t == s \o Tail(q)
           u == s \o q
           f(i) == IF i <= Len(s) THEN i ELSE i + 1
<1>1. /\ Len(s) \in Nat /\ Len(q) \in Nat \ {0} /\ Tail(q) \in Seq(S) /\ Len(Tail(q)) = Len(q) - 1
      /\ \A i \in 1 .. Len(q) - 1 : Tail(q)[i] = q[i + 1]
  BY HeadTailProperties
<1>2. /\ DOMAIN u = 1 .. Len(s) + Len(q)
      /\ \A i \in 1 .. Len(s) + Len(q) : u[i] = IF i <= Len(s) THEN s[i] ELSE q[i - Len(s)]
  OBVIOUS
<1>3. /\ DOMAIN t = 1 .. Len(s) + (Len(q) - 1)
      /\ \A i \in 1 .. Len(s) + (Len(q) - 1) : t[i] = IF i <= Len(s) THEN s[i] ELSE Tail(q)[i - Len(s)]
  BY <1>1
<1> HIDE DEF t, u
<1>4. ASSUME NEW i \in DOMAIN t PROVE f(i) \in DOMAIN u /\ t[i] = u[f(i)]
  <2>1. i \in Nat /\ 1 <= i /\ i <= Len(s) + (Len(q) - 1) BY <1>1, <1>3
  <2>2. CASE i <= Len(s) BY <1>1, <1>2, <1>3, <2>1, <2>2
  <2>3. CASE ~(i <= Len(s))
    <3>1. i - Len(s) \in 1 .. Len(q) - 1 BY <1>1, <2>1, <2>3
    <3> DEFINE k == i + 1
    <3>2. k \in 1 .. Len(s) + Len(q) /\ ~(k <= Len(s)) /\ k - Len(s) = i - Len(s) + 1 BY <1>1, <2>1, <2>3
    <3>3. t[i] = q[i - Len(s) + 1] BY <1>1, <1>3, <2>3, <3>1
    <3>4. f(i) = k BY <2>3
    <3> HIDE DEF k, f
    <3>5. u[k] = q[k - Len(s)] BY <1>2, <3>2
    <3> QED BY <1>2, <3>2, <3>3, <3>4, <3>5
  <2> QED BY <2>2, <2>3
<1>5. \A i, j \in DOMAIN t : i < j => f(i) < f(j) BY <1>1, <1>3
<1>6. \A i, j \in DOMAIN t : i < j => \E k, m \in DOMAIN u : k < m /\ t[i] = u[k] /\ t[j] = u[m]
  <2> HIDE DEF f
  <2> QED BY <1>4, <1>5
<1>7. \A i \in DOMAIN t : \E k \in DOMAIN u : t[i] = u[k]
  <2> HIDE DEF f
  <2> QED BY <1>4
<1>8. Within(t, u) BY <1>6, <1>7 DEF Within
<1> QED BY <1>8 DEF t, u

\* The oldest goes for it.
LEMMA DropOnce ==
    ASSUME OnceInv, NEW d \in deliveries, DropOldest(d)
    PROVE  OnceInv'
<1>t. PubSubData /\ OneHop BY DEF OnceInv, WholeInv
<1>w. WholeInv' BY DropWhole DEF OnceInv
<1>0. UNCHANGED <<viewing, tokenOf, clock, shown, onBus, outbox, requests, sender, late, issued, publishing>>
  BY DEF DropOldest, viewerVars, tableVars, publisherVars, meshVars
<1>1. PICK v \in d.to : /\ queued' = [queued EXCEPT ![v] = IF @ = <<>> THEN @ ELSE Tail(@)]
                        /\ Became(d, "again", v)
  BY DEF DropOldest
<1>v. v \in Viewers /\ d.ev \in Events /\ d \in DeliveryStates /\ ViewerAt[v] = d.node BY <1>t, OneWay
<1> DEFINE e == Turned(d, "again", v)
<1>2. /\ deliveries' = (deliveries \ {d}) \cup {e}
      /\ e \in DeliveryStates
      /\ e.ev = d.ev /\ e.who = d.who /\ e.node = d.node
      /\ e.todo = d.todo \ {v} /\ e.to = {v}
  <2>1. deliveries' = (deliveries \ {d}) \cup {e} BY <1>1 DEF Became, Turned
  <2> QED BY <1>v, <2>1, TurnedFacts
<1> HIDE DEF e
<1>3. e.todo \cup e.to \subseteq d.todo \cup d.to BY <1>2
<1>4. ASSUME NEW w \in Viewers
      PROVE  \/ Arrived(w)' = Arrived(w)
             \/ \A i, j \in DOMAIN Arrived(w)' : i < j =>
                  \E k, m \in DOMAIN Arrived(w) : k < m /\ Arrived(w)'[i] = Arrived(w)[k] /\ Arrived(w)'[j] = Arrived(w)[m]
  <2>1. CASE w # v \/ queued[v] = <<>> BY <1>t, <1>0, <1>1, <1>v, <2>1 DEF Arrived, PubSubData
  <2>2. CASE w = v /\ queued[v] # <<>>
    <3> DEFINE s == shown[v]
               q == queued[v]
    <3>1. s \in Seq(Events) /\ q \in Seq(Events) BY <1>t, <1>v DEF PubSubData
    <3>2. Arrived(v)' = s \o Tail(q) /\ Arrived(v) = s \o q BY <1>t, <1>0, <1>1, <1>v, <2>2 DEF Arrived, PubSubData
    <3>3. q # <<>> BY <2>2
    <3> HIDE DEF s, q
    <3> DEFINE t == s \o Tail(q)
               u == s \o q
    <3>4. Within(t, u) BY <3>1, <3>3, DropKeepsOrder
    <3>5. Arrived(v)' = t /\ Arrived(v) = u BY <3>2
    <3> HIDE DEF t, u, Arrived
    <3> QED BY <2>2, <3>4, <3>5 DEF Within
  <2> QED BY <2>1, <2>2
<1>5. ASSUME NEW w \in Viewers, NEW x \in Events, HasArrived(w, x)' PROVE HasArrived(w, x)
  <2>1. CASE w # v \/ queued[v] = <<>>
    <3>1. Arrived(w)' = Arrived(w) BY <1>t, <1>0, <1>1, <1>v, <2>1 DEF Arrived, PubSubData
    <3> QED BY <1>5, <3>1 DEF HasArrived
  <2>2. CASE w = v /\ queued[v] # <<>>
    <3> DEFINE s == shown[v]
               q == queued[v]
    <3>1. s \in Seq(Events) /\ q \in Seq(Events) BY <1>t, <1>v DEF PubSubData
    <3>2. Arrived(v)' = s \o Tail(q) /\ Arrived(v) = s \o q BY <1>t, <1>0, <1>1, <1>v, <2>2 DEF Arrived, PubSubData
    <3>3. q # <<>> BY <2>2
    <3> HIDE DEF s, q
    <3> DEFINE t == s \o Tail(q)
               u == s \o q
    <3>4. Within(t, u) BY <3>1, <3>3, DropKeepsOrder
    <3>5. Arrived(v)' = t /\ Arrived(v) = u BY <3>2
    <3> HIDE DEF t, u, Arrived
    <3> QED BY <1>5, <2>2, <3>4, <3>5 DEF HasArrived, Within
  <2> QED BY <2>1, <2>2
<1>6. OnceData' /\ OneHop' /\ Covered' /\ LastIssued' /\ QueueOrder' /\ AllApart' /\ SenderWaits' /\ NotArrived'
  BY <1>0, <1>2, <1>3, <1>5, TurnOnce
<1>7. InOrder'
  <2> SUFFICES ASSUME NEW w \in Viewers
               PROVE  (\A i, j \in DOMAIN Arrived(w) : i < j =>
                        /\ Apart(Arrived(w)[i], Arrived(w)[j])
                        /\ PublishedAt(Arrived(w)[i]) = ViewerAt[w] \/ ~late => Before(Arrived(w)[i], Arrived(w)[j]))'
    BY DEF InOrder
  <2>1. \A i, j \in DOMAIN Arrived(w) : i < j =>
            /\ Apart(Arrived(w)[i], Arrived(w)[j])
            /\ PublishedAt(Arrived(w)[i]) = ViewerAt[w] \/ ~late => Before(Arrived(w)[i], Arrived(w)[j])
    BY DEF OnceInv, OrderInv, InOrder
  <2> QED BY <1>0, <1>4, <2>1
<1> QED BY <1>w, <1>6, <1>7 DEF OnceInv, OrderInv

\* A delivery that has served everyone.
LEMMA ServedOnce ==
    ASSUME OnceInv, NEW d \in deliveries, deliveries' = deliveries \ {d},
           UNCHANGED <<shown, queued, requests, late, issued>>
    PROVE  /\ \A w \in Viewers, x \in Events : HasArrived(w, x)' <=> HasArrived(w, x)
           /\ \A l \in Links, x \in Events : HasLeft(l, x)' => HasLeft(l, x)
           /\ AllApart' /\ NotArrived' /\ InOrder'
<1>1. \A w \in Viewers : Arrived(w)' = Arrived(w) BY DEF Arrived
<1>2. \A w \in Viewers, x \in Events : HasArrived(w, x)' <=> HasArrived(w, x) BY <1>1 DEF HasArrived
<1>3. \A l \in Links, x \in Events : HasLeft(l, x)' => HasLeft(l, x) BY <1>2 DEF HasLeft
<1>4. AllApart' BY DEF OnceInv, OrderInv, AllApart
<1>5. NotArrived' BY <1>2 DEF OnceInv, OrderInv, NotArrived, Local
<1>6. InOrder' BY <1>1 DEF OnceInv, OrderInv, InOrder
<1> QED BY <1>2, <1>3, <1>4, <1>5, <1>6

\* The answer to a POST.
LEMMA HandledOnce ==
    ASSUME OnceInv, NEW d \in deliveries, Handled(d)
    PROVE  OnceInv'
<1>t. PubSubData /\ OneHop /\ OnceData BY DEF OnceInv, WholeInv
<1>o. LastIssued /\ QueueOrder /\ AllApart /\ SenderWaits BY DEF OnceInv, OrderInv
<1>w. WholeInv' BY DeliveryStepWhole DEF OnceInv, DeliveryStep
<1>0. UNCHANGED <<viewing, tokenOf, clock, shown, queued, onBus, outbox, requests, late, issued, publishing>>
  BY DEF Handled, viewerVars, tableVars, queueVars, publisherVars
<1>1. d.who \in Links /\ deliveries' = deliveries \ {d} BY DEF Handled
<1>2. /\ \A w \in Viewers, x \in Events : HasArrived(w, x)' <=> HasArrived(w, x)
      /\ \A l \in Links, x \in Events : HasLeft(l, x)' => HasLeft(l, x)
      /\ AllApart' /\ NotArrived' /\ InOrder'
  BY <1>0, <1>1, ServedOnce
<1>3. sender' = sender \/ sender' = [sender EXCEPT ![d.who] = [at |-> "range", ev |-> NoEvent]]
  BY DEF Handled, Posted, At
<1>4. OnceData' BY <1>t, <1>0, <1>1, <1>3 DEF OnceData
<1>5. OneHop' BY <1>t, <1>0, <1>1 DEF OneHop, Travels
<1>6. Covered' BY <1>0, <1>1, <1>2 DEF OnceInv, Covered
<1>7. LastIssued' BY <1>o, <1>0, <1>1, <1>2 DEF LastIssued, Queued, Local
<1>8. QueueOrder' BY <1>o, <1>0, <1>2 DEF QueueOrder, Queued
<1>9. SenderWaits'
  <2> SUFFICES ASSUME ~late
               PROVE  /\ \A r \in requests : sender'[r.link] = [at |-> "posting", ev |-> r.ev]
                      /\ \A y \in deliveries' : y.who \in Links => sender'[y.who] = [at |-> "posting", ev |-> y.ev]
    BY <1>0 DEF SenderWaits
  <2>1. \A l \in Links : l # d.who => sender'[l] = sender[l] BY <1>t, <1>3 DEF OnceData
  <2>2. sender[d.who] = [at |-> "posting", ev |-> d.ev] BY <1>o, <1>1 DEF SenderWaits
  <2>3. sender[d.who].ev = d.ev BY <2>2
  <2>4. ASSUME NEW r \in requests PROVE sender'[r.link] = [at |-> "posting", ev |-> r.ev]
    <3>1. sender[r.link] = [at |-> "posting", ev |-> r.ev] BY <1>o DEF SenderWaits
    <3>2. r.link # d.who
      <4> SUFFICES ASSUME r.link = d.who PROVE FALSE OBVIOUS
      <4>1. sender[r.link].ev = r.ev BY <3>1
      <4>2. r.ev = d.ev BY <2>3, <4>1
      <4> QED BY <1>o, <4>2 DEF AllApart, Apart
    <3>3. r.link \in Links BY <1>t DEF PubSubData
    <3> QED BY <2>1, <3>1, <3>2, <3>3
  <2>5. ASSUME NEW y \in deliveries', y.who \in Links PROVE sender'[y.who] = [at |-> "posting", ev |-> y.ev]
    <3>1. y \in deliveries /\ y # d BY <1>1
    <3>2. sender[y.who] = [at |-> "posting", ev |-> y.ev] BY <1>o, <2>5, <3>1 DEF SenderWaits
    <3>3. y.who # d.who
      <4> SUFFICES ASSUME y.who = d.who PROVE FALSE OBVIOUS
      <4>1. sender[y.who].ev = y.ev BY <3>2
      <4>2. y.ev = d.ev BY <2>3, <4>1
      <4> QED BY <1>o, <3>1, <4>2 DEF AllApart, Apart
    <3> QED BY <2>1, <2>5, <3>2, <3>3
  <2> QED BY <2>4, <2>5
<1> QED BY <1>w, <1>2, <1>4, <1>5, <1>6, <1>7, <1>8, <1>9 DEF OnceInv, OrderInv

\* A step of a delivery.
LEMMA DeliveryStepOnce ==
    ASSUME OnceInv, NEW d \in deliveries, DeliveryStep(d)
    PROVE  OnceInv'
<1>w. WholeInv' BY DeliveryStepWhole DEF OnceInv
<1>1. CASE Send(d)
  <2>1. PICK v \in d.todo : TrySend(d, v, "drop") BY <1>1 DEF Send
  <2>2. UNCHANGED <<viewing, tokenOf, clock, shown, onBus, outbox, requests, sender, late, issued, publishing>>
    BY <1>1 DEF Send, viewerVars, tableVars, publisherVars, meshVars
  <2>3. v \in d.todo \cup d.to /\ "drop" \in {"next", "drop"} OBVIOUS
  <2> QED BY <1>w, <2>1, <2>2, <2>3, TrySendOnce
<1>2. CASE DropOldest(d) BY <1>2, DropOnce
<1>3. CASE SendAgain(d)
  <2>1. PICK v \in d.to : TrySend(d, v, "next") BY <1>3 DEF SendAgain
  <2>2. UNCHANGED <<viewing, tokenOf, clock, shown, onBus, outbox, requests, sender, late, issued, publishing>>
    BY <1>3 DEF SendAgain, viewerVars, tableVars, publisherVars, meshVars
  <2>3. v \in d.todo \cup d.to /\ "next" \in {"next", "drop"} OBVIOUS
  <2> QED BY <1>w, <2>1, <2>2, <2>3, TrySendOnce
<1>4. CASE Handled(d) BY <1>4, HandledOnce
<1> QED BY <1>1, <1>2, <1>3, <1>4 DEF DeliveryStep

-----------------------------------------------------------------------------
(* Publishers.                                                             *)

\* A delivery is made: it is to the clients on the bus whose pattern matches.
LEMMA NewDelivery ==
    ASSUME OnceInv, NEW who \in BusPublishers \cup Links, NEW n \in Nodes, NEW x \in Events,
           deliveries' = deliveries \cup {Delivery(who, n, x)},
           \/ who \in BusPublishers /\ x.by = who /\ n = PublishedAt(x)
           \/ who \in Links /\ who = <<PublishedAt(x), n>>,
           UNCHANGED <<viewing, tokenOf, onBus, shown, queued, outbox>>, requests' \subseteq requests
    PROVE  /\ OneHop' /\ Covered'
           /\ \E d \in DeliveryStates :
                /\ deliveries' = deliveries \cup {d} /\ d.who = who /\ d.node = n /\ d.ev = x
                /\ \A v \in d.todo \cup d.to : v \in Viewers /\ ViewerAt[v] = n
<1> DEFINE M == Matching(n, x.channel)
           d == Delivery(who, n, x)
<1>t. PubSubData /\ OneHop /\ Covered /\ OneOwner BY DEF OnceInv, WholeInv
<1>1. M \subseteq Viewers BY <1>t DEF PubSubData, Matching
<1>2. \A v \in M : ViewerAt[v] = n /\ MatchChannel(Wants[v], x.channel) /\ viewing[v] \notin {"away", "refused"}
  BY <1>t, <1>1 DEF OneHop, OneOwner, Matching
<1> HIDE DEF M
<1>3. d \in DeliveryStates BY <1>1 DEF Delivery, DeliveryStates, M
<1>4. d.todo = M /\ d.to = {} /\ d.ev = x /\ d.who = who /\ d.node = n BY DEF Delivery, M
<1> HIDE DEF d
<1>5. deliveries' = deliveries \cup {d} BY DEF d
<1>6. \A w \in Viewers : Arrived(w)' = Arrived(w) BY DEF Arrived
<1>7. \A w \in Viewers, y \in Events : HasArrived(w, y)' <=> HasArrived(w, y) BY <1>6 DEF HasArrived
<1>8. OneHop'
  <2>1. Travels(d)
    <3>1. \/ d.who \in BusPublishers /\ d.ev.by = d.who /\ d.node = PublishedAt(d.ev)
          \/ d.who \in Links /\ d.who = <<PublishedAt(d.ev), d.node>>
      BY <1>4
    <3> QED BY <1>2, <1>4, <3>1 DEF Travels
  <2> QED BY <1>t, <1>5, <2>1 DEF OneHop, Travels
<1>9. Covered' BY <1>t, <1>2, <1>4, <1>5, <1>7 DEF Covered
<1> QED BY <1>1, <1>2, <1>3, <1>4, <1>5, <1>8, <1>9

\* Publish.
LEMMA PublishOnce ==
    ASSUME OnceInv, NEW p \in BusPublishers, PubSubPublish(p)
    PROVE  OnceInv'
<1> USE GatPubSubAssumption
<1>t. PubSubData /\ OneHop /\ OnceData BY DEF OnceInv, WholeInv
<1>o. LastIssued /\ QueueOrder /\ AllApart /\ SenderWaits /\ NotArrived /\ InOrder BY DEF OnceInv, OrderInv
<1>w. WholeInv' BY PublisherWhole DEF OnceInv
<1> DEFINE ev(note) == [by |-> p, seq |-> issued[p] + 1, channel |-> note.channel, big |-> note.big]
<1>0. UNCHANGED <<viewing, tokenOf, clock, shown, queued, onBus, outbox, requests, sender, late>>
  BY DEF PubSubPublish, viewerVars, tableVars, queueVars, meshVars
<1>1. PICK note \in Notices :
        /\ issued' = [issued EXCEPT ![p] = @ + 1]
        /\ IF note.channel = <<>> THEN UNCHANGED <<publishing, deliveries, promised>>
           ELSE /\ publishing' = [publishing EXCEPT ![p] = "delivering"]
                /\ deliveries' = deliveries \cup {Delivery(p, PublisherAt[p], ev(note))}
  BY DEF PubSubPublish
<1>2. issued[p] \in Nat /\ issued'[p] = issued[p] + 1 /\ \A q \in BusPublishers : q # p => issued'[q] = issued[q]
  BY <1>t, <1>1 DEF PubSubData
<1>3. \A q \in BusPublishers : issued[q] \in Nat /\ issued'[q] \in Nat /\ issued[q] <= issued'[q]
  BY <1>t, <1>2 DEF PubSubData
<1>4. \A d \in deliveries : Local(d) => d.who # p
  BY <1>o DEF LastIssued, PubSubPublish
<1>5. \A w \in Viewers : Arrived(w)' = Arrived(w) BY <1>0 DEF Arrived
<1>6. \A w \in Viewers, y \in Events : HasArrived(w, y)' <=> HasArrived(w, y) BY <1>5 DEF HasArrived
<1>7. \A l \in Links, y \in Events : Queued(l, y)' <=> Queued(l, y) BY <1>0 DEF Queued
<1>8. \A y \in Events : y.by \in BusPublishers /\ y.seq \in Nat BY DEF Events
<1>9. CASE note.channel = <<>>
  <2>1. deliveries' = deliveries /\ publishing' = publishing BY <1>1, <1>9
  <2>2. OnceData' BY <1>t, <1>0, <2>1 DEF OnceData
  <2>3. OneHop' BY <1>t, <1>0, <2>1 DEF OneHop
  <2>4. Covered' BY <1>0, <1>6, <2>1 DEF OnceInv, Covered
  <2>5. \A l \in Links, y \in Events : HasLeft(l, y)' <=> HasLeft(l, y) BY <1>0, <1>6, <2>1 DEF HasLeft
  <2>6. LastIssued'
    <3>1. \A d \in deliveries : Local(d) => publishing[d.who] = "delivering" /\ d.ev.seq = issued'[d.who]
      BY <1>o, <1>2, <1>4 DEF LastIssued, Local
    <3>2. \A y \in Events : y.seq <= issued[y.by] => y.seq <= issued'[y.by] BY <1>3, <1>8
    <3> QED BY <1>o, <1>6, <1>7, <2>1, <2>5, <3>1, <3>2 DEF LastIssued, Local
  <2>7. QueueOrder' BY <1>o, <1>0, <1>7, <2>5 DEF QueueOrder
  <2>8. AllApart' /\ SenderWaits' BY <1>o, <1>0, <2>1 DEF AllApart, SenderWaits
  <2>9. NotArrived' BY <1>o, <1>0, <1>6, <2>1 DEF NotArrived, Local
  <2>10. InOrder' BY <1>o, <1>0, <1>5 DEF InOrder
  <2> QED BY <1>w, <2>2, <2>3, <2>4, <2>6, <2>7, <2>8, <2>9, <2>10 DEF OnceInv, OrderInv
<1>10. CASE note.channel # <<>>
  <2> DEFINE x == ev(note)
             n == PublisherAt[p]
  <2>1. x \in Events /\ x.by = p /\ x.seq = issued[p] + 1 /\ n = PublishedAt(x) BY <1>2 DEF Events, PublishedAt
  <2>2. publishing' = [publishing EXCEPT ![p] = "delivering"] /\ deliveries' = deliveries \cup {Delivery(p, n, x)}
    BY <1>1, <1>10
  <2>3. n \in Nodes /\ p \in BusPublishers \cup Links /\ requests' \subseteq requests BY <1>0
  <2> HIDE DEF x, n
  <2>4. /\ OneHop' /\ Covered'
        /\ \E d \in DeliveryStates :
             /\ deliveries' = deliveries \cup {d} /\ d.who = p /\ d.node = n /\ d.ev = x
             /\ \A v \in d.todo \cup d.to : v \in Viewers /\ ViewerAt[v] = n
    BY <1>0, <2>1, <2>2, <2>3, NewDelivery
  <2>5. PICK d \in DeliveryStates :
             /\ deliveries' = deliveries \cup {d} /\ d.who = p /\ d.node = n /\ d.ev = x
             /\ \A v \in d.todo \cup d.to : v \in Viewers /\ ViewerAt[v] = n
    BY <2>4
  <2>6. p \notin Links BY LinkFacts
  <2>7. OnceData' BY <1>t, <1>0, <2>2 DEF OnceData
  <2>8. \A l \in Links, y \in Events : HasLeft(l, y)' <=> HasLeft(l, y)
    BY <1>0, <1>6, <2>5, <2>6 DEF HasLeft
  <2>9. LastIssued'
    <3>1. \A e \in deliveries' : Local(e) => publishing'[e.who] = "delivering" /\ e.ev.seq = issued'[e.who]
      <4>1. publishing'[p] = "delivering" /\ \A q \in BusPublishers : q # p => publishing'[q] = publishing[q]
        BY <1>t, <2>2 DEF OnceData
      <4> QED BY <1>o, <1>2, <1>4, <2>1, <2>5, <4>1 DEF LastIssued, Local
    <3>2. \A y \in Events : y.seq <= issued[y.by] => y.seq <= issued'[y.by] /\ Before(y, x)
      BY <1>2, <1>3, <1>8, <2>1 DEF Before
    <3>3. ASSUME NEW l \in Links, NEW y \in Events, HasLeft(l, y)' \/ Queued(l, y)'
          PROVE  y.seq <= issued'[y.by] /\ \A e \in deliveries' : Local(e) => Before(y, e.ev)
      <4>1. y.seq <= issued[y.by] /\ \A e \in deliveries : Local(e) => Before(y, e.ev)
        BY <1>o, <1>7, <2>8, <3>3 DEF LastIssued
      <4> QED BY <2>5, <3>2, <4>1
    <3>4. \A v \in Viewers, y \in Events : HasArrived(v, y)' => y.seq <= issued'[y.by]
      BY <1>o, <1>6, <3>2 DEF LastIssued
    <3> QED BY <3>1, <3>3, <3>4 DEF LastIssued, Local
  <2>10. QueueOrder' BY <1>o, <1>0, <1>7, <2>8 DEF QueueOrder
  <2>11. AllApart'
    <3>1. \A e \in deliveries : e.who # p BY <1>4, <2>6 DEF Local
    <3>2. \A r \in requests : r.link # p BY <1>t, <2>6 DEF PubSubData
    <3> QED BY <1>o, <1>0, <2>5, <3>1, <3>2 DEF AllApart
  <2>12. SenderWaits' BY <1>o, <1>0, <2>5, <2>6 DEF SenderWaits
  <2>13. NotArrived'
    <3> SUFFICES ASSUME NEW v \in Viewers, NEW a \in Events, HasArrived(v, a), v \in d.todo \cup d.to
                 PROVE  Apart(a, x) /\ Before(a, x)
      BY <1>o, <1>0, <1>6, <2>5 DEF NotArrived, Local
    <3>1. a.seq <= issued[a.by] BY <1>o DEF LastIssued
    <3> QED BY <1>2, <1>8, <2>1, <3>1 DEF Apart, Before
  <2>14. InOrder' BY <1>o, <1>0, <1>5 DEF InOrder
  <2> QED BY <1>w, <2>4, <2>7, <2>9, <2>10, <2>11, <2>12, <2>13, <2>14 DEF OnceInv, OrderInv
<1> QED BY <1>9, <1>10

\* An event gets its place at the end of a queue.
LEMMA QueuedLast ==
    ASSUME NEW s \in Seq(Events), NEW x \in Events, \A i, j \in DOMAIN s : i < j => Before(s[i], s[j]),
           \A i \in DOMAIN s : Before(s[i], x)
    PROVE  /\ \A i, j \in DOMAIN Append(s, x) : i < j => Before(Append(s, x)[i], Append(s, x)[j])
           /\ \A i \in DOMAIN Append(s, x) : Append(s, x)[i] = x \/ \E k \in DOMAIN s : Append(s, x)[i] = s[k]
<1> DEFINE t == Append(s, x)
<1>1. /\ DOMAIN t = 1 .. Len(s) + 1 /\ DOMAIN s = 1 .. Len(s) /\ Len(s) \in Nat
      /\ \A k \in 1 .. Len(s) + 1 : t[k] = IF k <= Len(s) THEN s[k] ELSE x
  OBVIOUS
<1> HIDE DEF t
<1>2. \A i \in DOMAIN t : (i \in DOMAIN s /\ t[i] = s[i]) \/ (i = Len(s) + 1 /\ t[i] = x) BY <1>1
<1>3. \A i, j \in DOMAIN t : i < j => Before(t[i], t[j])
  <2> SUFFICES ASSUME NEW i \in DOMAIN t, NEW j \in DOMAIN t, i < j PROVE Before(t[i], t[j]) OBVIOUS
  <2>1. i \in DOMAIN s /\ t[i] = s[i] BY <1>1
  <2>2. CASE j \in DOMAIN s /\ t[j] = s[j] BY <2>1, <2>2
  <2>3. CASE t[j] = x BY <2>1, <2>3
  <2> QED BY <1>2, <2>2, <2>3
<1> QED BY <1>2, <1>3 DEF t

\* Publish returns.
LEMMA ReturnOnce ==
    ASSUME OnceInv, NEW p \in BusPublishers, PublishReturns(p)
    PROVE  OnceInv'
<1> USE GatPubSubAssumption
<1>t. PubSubData /\ OneHop /\ OnceData BY DEF OnceInv, WholeInv
<1>o. LastIssued /\ QueueOrder /\ AllApart /\ SenderWaits BY DEF OnceInv, OrderInv
<1>w. WholeInv' BY PublisherWhole DEF OnceInv
<1>0. UNCHANGED <<viewing, tokenOf, clock, shown, queued, onBus, requests, sender, late, issued>>
  BY DEF PublishReturns, viewerVars, tableVars, queueVars
<1>1. PICK d \in deliveries :
        /\ d.who = p /\ deliveries' = deliveries \ {d}
        /\ publishing' = [publishing EXCEPT ![p] = "idle"] \/ publishing' = [publishing EXCEPT ![p] = "panicked"]
        /\ fanout(d.node, d.ev) \/ outbox' = outbox
  BY DEF PublishReturns
<1> DEFINE x == d.ev
<1>2. x \in Events /\ x.by = p /\ d.node = PublisherAt[p] /\ x.seq = issued[p] /\ issued[p] \in Nat
  <2>1. p \notin Links BY LinkFacts
  <2>2. d.ev \in Events BY <1>t DEF PubSubData, DeliveryStates
  <2>3. d.ev.by = p /\ d.node = PublisherAt[p] BY <1>t, <1>1, <2>1 DEF OneHop, Travels, PublishedAt
  <2>4. d.ev.seq = issued[p] BY <1>o, <1>1 DEF LastIssued, Local
  <2> QED BY <1>t, <2>2, <2>3, <2>4 DEF PubSubData
<1>3. /\ \A w \in Viewers, y \in Events : HasArrived(w, y)' <=> HasArrived(w, y)
      /\ \A l \in Links, y \in Events : HasLeft(l, y)' => HasLeft(l, y)
      /\ AllApart' /\ NotArrived' /\ InOrder'
  BY <1>0, <1>1, ServedOnce
<1>4. OnceData' BY <1>t, <1>0, <1>1 DEF OnceData
<1>5. Covered' BY <1>0, <1>1, <1>3 DEF OnceInv, Covered
<1>6. SenderWaits' BY <1>o, <1>0, <1>1 DEF SenderWaits
<1>7. \A l \in Links, y \in Events : HasLeft(l, y) \/ Queued(l, y) => Before(y, x)
  BY <1>o, <1>1 DEF LastIssued, Local
<1>8. \A l \in Links : outbox'[l] = outbox[l] \/ (l[1] = d.node /\ outbox'[l] = Append(outbox[l], x))
  BY <1>1 DEF fanout
<1>9. ASSUME NEW l \in Links
      PROVE  /\ \A i, j \in DOMAIN outbox'[l] : i < j => Before(outbox'[l][i], outbox'[l][j])
             /\ \A i \in DOMAIN outbox'[l] : \/ l[1] = d.node /\ outbox'[l][i] = x
                                             \/ \E k \in DOMAIN outbox[l] : outbox'[l][i] = outbox[l][k]
  <2>1. \A i, j \in DOMAIN outbox[l] : i < j => Before(outbox[l][i], outbox[l][j]) BY <1>o DEF QueueOrder
  <2>2. CASE outbox'[l] = outbox[l] BY <2>1, <2>2
  <2>3. CASE l[1] = d.node /\ outbox'[l] = Append(outbox[l], x)
    <3> DEFINE s == outbox[l]
    <3>1. s \in Seq(Events) BY <1>t DEF PubSubData
    <3>2. \A i \in DOMAIN s : s[i] \in Events
      <4> HIDE DEF s
      <4> QED BY <3>1
    <3>3. \A i \in DOMAIN s : Before(s[i], x) BY <1>7, <3>2 DEF Queued
    <3> HIDE DEF s, x
    <3>4. /\ \A i, j \in DOMAIN Append(s, x) : i < j => Before(Append(s, x)[i], Append(s, x)[j])
          /\ \A i \in DOMAIN Append(s, x) : Append(s, x)[i] = x \/ \E k \in DOMAIN s : Append(s, x)[i] = s[k]
      <4>1. \A i, j \in DOMAIN s : i < j => Before(s[i], s[j]) BY <2>1 DEF s
      <4>2. x \in Events BY <1>2
      <4> QED BY <3>1, <3>3, <4>1, <4>2, QueuedLast
    <3>5. outbox'[l] = Append(s, x) BY <2>3 DEF s
    <3> QED BY <2>3, <3>4, <3>5 DEF s
  <2> QED BY <1>8, <2>2, <2>3
<1>10. \A l \in Links, y \in Events : Queued(l, y)' => Queued(l, y) \/ (l[1] = d.node /\ y = x)
  BY <1>9 DEF Queued
<1>11. OneHop'
  <2>1. PublishedAt(x) = d.node BY <1>2 DEF PublishedAt
  <2>2. \A l \in Links : \A i \in DOMAIN outbox'[l] : PublishedAt(outbox'[l][i]) = l[1]
    BY <1>t, <1>9, <2>1 DEF OneHop
  <2> QED BY <1>t, <1>0, <1>1, <2>2 DEF OneHop, Travels
<1>12. LastIssued'
  <2>1. ASSUME NEW e \in deliveries', Local(e) PROVE e.who # p /\ publishing'[e.who] = "delivering" /\ e.ev.seq = issued[e.who]
    <3>1. e \in deliveries /\ e # d BY <1>1
    <3>2. publishing[e.who] = "delivering" /\ e.ev.seq = issued[e.who] BY <1>o, <2>1, <3>1 DEF LastIssued
    <3>3. e.ev.by = e.who
      <4>1. e.who \notin Links BY <2>1, LinkFacts DEF Local
      <4> QED BY <1>t, <3>1, <4>1 DEF OneHop, Travels
    <3>4. e.who # p
      <4> SUFFICES ASSUME e.who = p PROVE FALSE OBVIOUS
      <4>1. Apart(d.ev, e.ev) BY <1>o, <1>1, <3>1 DEF AllApart
      <4> QED BY <1>2, <3>2, <3>3, <4>1 DEF Apart
    <3>5. publishing'[e.who] = publishing[e.who] BY <1>t, <1>1, <2>1, <3>4 DEF OnceData, Local
    <3> QED BY <3>2, <3>4, <3>5
  <2>2. ASSUME NEW l \in Links, NEW y \in Events, HasLeft(l, y)' \/ Queued(l, y)'
        PROVE  y.seq <= issued[y.by] /\ \A e \in deliveries' : Local(e) => Before(y, e.ev)
    <3>1. CASE HasLeft(l, y) \/ Queued(l, y) BY <1>o, <1>1, <3>1 DEF LastIssued
    <3>2. CASE y = x
      <4>1. \A e \in deliveries' : Local(e) => e.ev.by # p
        <5> SUFFICES ASSUME NEW e \in deliveries', Local(e) PROVE e.ev.by # p OBVIOUS
        <5>1. e.who \notin Links BY LinkFacts DEF Local
        <5>2. e.ev.by = e.who BY <1>t, <1>1, <5>1 DEF OneHop, Travels
        <5> QED BY <2>1, <5>2
      <4>2. x.seq <= issued[x.by] BY <1>2
      <4> QED BY <1>2, <3>2, <4>1, <4>2 DEF Before
    <3> QED BY <1>3, <1>10, <2>2, <3>1, <3>2
  <2>3. \A v \in Viewers, y \in Events : HasArrived(v, y)' => y.seq <= issued[y.by]
    BY <1>o, <1>3 DEF LastIssued
  <2> QED BY <1>0, <2>1, <2>2, <2>3 DEF LastIssued, Local
<1>13. QueueOrder'
  <2>1. ASSUME NEW l \in Links, NEW y \in Events, NEW z \in Events, HasLeft(l, y)', Queued(l, z)'
        PROVE  Before(y, z)
    <3>1. HasLeft(l, y) BY <1>3, <2>1
    <3>2. CASE Queued(l, z) BY <1>o, <3>1, <3>2 DEF QueueOrder
    <3>3. CASE z = x BY <1>7, <3>1, <3>3
    <3> QED BY <1>10, <2>1, <3>2, <3>3
  <2> QED BY <1>9, <2>1 DEF QueueOrder
<1> QED BY <1>w, <1>3, <1>4, <1>5, <1>6, <1>11, <1>12, <1>13 DEF OnceInv, OrderInv

-----------------------------------------------------------------------------
(* The mesh.                                                               *)

\* A sender takes the first of its queue.
LEMMA TakeOnce ==
    ASSUME OnceInv, NEW l \in Links, TakeNext(l)
    PROVE  OnceInv'
<1>t. PubSubData /\ OneHop /\ OnceData BY DEF OnceInv, WholeInv
<1>o. LastIssued /\ QueueOrder /\ AllApart /\ SenderWaits /\ NotArrived /\ InOrder BY DEF OnceInv, OrderInv
<1>w. WholeInv' BY MeshWhole DEF OnceInv, MeshStep
<1>0. UNCHANGED <<viewing, tokenOf, clock, shown, queued, onBus, deliveries, late, issued, publishing>>
  BY DEF TakeNext, viewerVars, tableVars, queueVars, publisherVars
<1> DEFINE q == outbox[l]
           h == Head(q)
           r == [link |-> l, ev |-> h]
<1>1. /\ sender[l].at = "range" /\ q # <<>> /\ outbox' = [outbox EXCEPT ![l] = Tail(q)]
      /\ \/ sender' = [sender EXCEPT ![l] = [at |-> "posting", ev |-> h]] /\ requests' = requests \cup {r}
         \/ sender' = sender /\ requests' = requests
  BY <1>t DEF TakeNext, At, PubSubData
<1>2. q \in Seq(Events) BY <1>t DEF PubSubData
<1>3. /\ h \in Events /\ Len(q) \in Nat \ {0} /\ DOMAIN q = 1 .. Len(q) /\ h = q[1] /\ Tail(q) \in Seq(Events)
      /\ DOMAIN Tail(q) = 1 .. Len(q) - 1 /\ \A i \in 1 .. Len(q) - 1 : Tail(q)[i] = q[i + 1]
  <2> HIDE DEF q
  <2> QED BY <1>1, <1>2, HeadTailProperties
<1>4. Queued(l, h)
  <2>1. 1 \in DOMAIN q BY <1>3
  <2> QED BY <1>3, <2>1 DEF Queued
<1>5. \A m \in Links : m # l => outbox'[m] = outbox[m] BY <1>t, <1>1 DEF PubSubData
<1>6. outbox'[l] = Tail(q) BY <1>t, <1>1 DEF PubSubData
<1>7. \A m \in Links, y \in Events : Queued(m, y)' => Queued(m, y) /\ (m = l => Before(h, y))
  <2> SUFFICES ASSUME NEW m \in Links, NEW y \in Events, Queued(m, y)' PROVE Queued(m, y) /\ (m = l => Before(h, y)) OBVIOUS
  <2>1. CASE m # l BY <1>5, <2>1 DEF Queued
  <2>2. CASE m = l
    <3>1. PICK i \in 1 .. Len(q) - 1 : Tail(q)[i] = y BY <1>3, <1>6, <2>2 DEF Queued
    <3> DEFINE k == i + 1
    <3>2. k \in 1 .. Len(q) /\ 1 \in 1 .. Len(q) /\ 1 < k /\ q[k] = y BY <1>3, <3>1
    <3> HIDE DEF k
    <3>3. Before(q[1], q[k]) BY <1>o, <1>3, <3>2 DEF QueueOrder
    <3> QED BY <1>3, <2>2, <3>2, <3>3 DEF Queued
  <2> QED BY <2>1, <2>2
<1>8. \A w \in Viewers : Arrived(w)' = Arrived(w) BY <1>0 DEF Arrived
<1>9. \A w \in Viewers, y \in Events : HasArrived(w, y)' <=> HasArrived(w, y) BY <1>8 DEF HasArrived
<1>10. \A m \in Links, y \in Events : HasLeft(m, y)' => HasLeft(m, y) \/ (m = l /\ y = h)
  <2>1. \A c \in requests' : c \in requests \/ (c.link = l /\ c.ev = h) BY <1>1
  <2> QED BY <1>0, <1>9, <2>1 DEF HasLeft
<1>11. \A y \in Events : HasLeft(l, y) => Before(y, h) BY <1>o, <1>3, <1>4 DEF QueueOrder
<1>12. OnceData'
  <2>1. [at |-> "posting", ev |-> h] \in [at : {"range", "posting"}, ev : Events \cup {NoEvent}] BY <1>3
  <2>2. sender' \in [Links -> [at : {"range", "posting"}, ev : Events \cup {NoEvent}]] BY <1>t, <1>1, <2>1 DEF OnceData
  <2> QED BY <1>t, <1>0, <2>2 DEF OnceData
<1>13. OneHop'
  <2>1. PublishedAt(h) = l[1] BY <1>t, <1>4 DEF OneHop, Queued
  <2>2. \A c \in requests' : PublishedAt(c.ev) = c.link[1] BY <1>t, <1>1, <2>1 DEF OneHop
  <2>3. \A m \in Links : \A i \in DOMAIN outbox'[m] : PublishedAt(outbox'[m][i]) = m[1]
    <3> SUFFICES ASSUME NEW m \in Links, NEW i \in DOMAIN outbox'[m] PROVE PublishedAt(outbox'[m][i]) = m[1] OBVIOUS
    <3>1. outbox'[m][i] \in Events BY <1>w DEF WholeInv, PubSubData
    <3>2. Queued(m, outbox'[m][i]) BY <1>7, <3>1 DEF Queued
    <3> QED BY <1>t, <3>2 DEF OneHop, Queued
  <2> QED BY <1>t, <1>0, <2>2, <2>3 DEF OneHop, Travels
<1>14. Covered' BY <1>0, <1>9 DEF OnceInv, Covered
<1>15. LastIssued'
  <2>1. ASSUME NEW m \in Links, NEW y \in Events, HasLeft(m, y)' \/ Queued(m, y)' PROVE HasLeft(m, y) \/ Queued(m, y)
    BY <1>4, <1>7, <1>10, <2>1
  <2> QED BY <1>o, <1>0, <1>9, <2>1 DEF LastIssued, Local
<1>16. QueueOrder'
  <2>1. ASSUME NEW m \in Links, NEW i \in DOMAIN outbox'[m], NEW j \in DOMAIN outbox'[m], i < j
        PROVE  Before(outbox'[m][i], outbox'[m][j])
    <3>1. CASE m # l BY <1>o, <1>5, <2>1, <3>1 DEF QueueOrder
    <3>2. CASE m = l
      <4> DEFINE a == i + 1
                 b == j + 1
      <4>1. i \in 1 .. Len(q) - 1 /\ j \in 1 .. Len(q) - 1 BY <1>3, <1>6, <3>2
      <4>2. a \in 1 .. Len(q) /\ b \in 1 .. Len(q) /\ a < b BY <1>3, <2>1, <4>1
      <4>3. Tail(q)[i] = q[a] /\ Tail(q)[j] = q[b] BY <1>3, <4>1
      <4> HIDE DEF a, b
      <4>4. Before(q[a], q[b]) BY <1>o, <1>3, <4>2 DEF QueueOrder
      <4> QED BY <1>6, <3>2, <4>3, <4>4
    <3> QED BY <3>1, <3>2
  <2>2. \A m \in Links, y \in Events, z \in Events : HasLeft(m, y)' /\ Queued(m, z)' => Before(y, z)
    BY <1>o, <1>7, <1>10 DEF QueueOrder
  <2> QED BY <2>1, <2>2 DEF QueueOrder
<1>17. AllApart'
  <2>0. \A y \in Events : HasLeft(l, y) => Apart(h, y) /\ Apart(y, h)
    <3>1. \A y \in Events : y.seq \in Nat BY DEF Events
    <3> QED BY <1>3, <1>11, <3>1 DEF Before, Apart
  <2>1. \A d \in deliveries : d.who = l => d.ev \in Events /\ HasLeft(l, d.ev)
    BY <1>t DEF HasLeft, PubSubData, DeliveryStates
  <2>2. \A c \in requests : c.link = l => c.ev \in Events /\ HasLeft(l, c.ev)
    BY <1>t DEF HasLeft, PubSubData
  <2>3. \A c \in requests' : c \in requests \/ (c.link = l /\ c.ev = h /\ c = r) BY <1>1
  <2>4. \A c \in requests', d \in deliveries : c.link = d.who => Apart(c.ev, d.ev)
    BY <1>o, <2>0, <2>1, <2>3 DEF AllApart
  <2>5. \A c, e \in requests' : c # e /\ c.link = e.link => Apart(c.ev, e.ev)
    <3> SUFFICES ASSUME NEW c \in requests', NEW e \in requests', c # e, c.link = e.link PROVE Apart(c.ev, e.ev) OBVIOUS
    <3>0. r.link = l /\ r.ev = h OBVIOUS
    <3> HIDE DEF r, h
    <3>1. CASE c \in requests /\ e \in requests BY <1>o, <3>1 DEF AllApart
    <3>2. CASE c = r /\ e \in requests BY <2>0, <2>2, <3>0, <3>2
    <3>3. CASE e = r /\ c \in requests BY <2>0, <2>2, <3>0, <3>3
    <3> QED BY <2>3, <3>1, <3>2, <3>3
  <2> QED BY <1>o, <1>0, <2>4, <2>5 DEF AllApart
<1>18. SenderWaits'
  <2> SUFFICES ASSUME ~late
               PROVE  /\ \A c \in requests' : sender'[c.link] = [at |-> "posting", ev |-> c.ev]
                      /\ \A d \in deliveries : d.who \in Links => sender'[d.who] = [at |-> "posting", ev |-> d.ev]
    BY <1>0 DEF SenderWaits
  <2>1. CASE sender' = sender /\ requests' = requests BY <1>o, <2>1 DEF SenderWaits
  <2>2. CASE sender' = [sender EXCEPT ![l] = [at |-> "posting", ev |-> h]] /\ requests' = requests \cup {r}
    <3>1. sender'[l] = [at |-> "posting", ev |-> h] /\ \A m \in Links : m # l => sender'[m] = sender[m]
      BY <1>t, <2>2 DEF OnceData
    <3>2. \A c \in requests : c.link \in Links /\ c.link # l
      <4> SUFFICES ASSUME NEW c \in requests PROVE c.link \in Links /\ c.link # l OBVIOUS
      <4>1. sender[c.link] = [at |-> "posting", ev |-> c.ev] BY <1>o DEF SenderWaits
      <4>2. sender[c.link].at = "posting" BY <4>1
      <4> QED BY <1>t, <1>1, <4>2 DEF PubSubData
    <3>3. \A d \in deliveries : d.who \in Links => d.who # l
      <4> SUFFICES ASSUME NEW d \in deliveries, d.who \in Links PROVE d.who # l OBVIOUS
      <4>1. sender[d.who] = [at |-> "posting", ev |-> d.ev] BY <1>o DEF SenderWaits
      <4>2. sender[d.who].at = "posting" BY <4>1
      <4> QED BY <1>1, <4>2
    <3>4. ASSUME NEW c \in requests' PROVE sender'[c.link] = [at |-> "posting", ev |-> c.ev]
      <4>1. CASE c \in requests BY <1>o, <3>1, <3>2, <4>1 DEF SenderWaits
      <4>2. CASE c = r BY <3>1, <4>2
      <4> QED BY <2>2, <4>1, <4>2
    <3> QED BY <1>o, <3>1, <3>3, <3>4 DEF SenderWaits
  <2> QED BY <1>1, <2>1, <2>2
<1>19. NotArrived'
  <2>1. ASSUME NEW v \in Viewers, NEW a \in Events, HasArrived(v, a), l[2] = ViewerAt[v]
        PROVE  Apart(a, h) /\ Before(a, h)
    <3>1. ASSUME a.by = h.by PROVE HasLeft(l, a)
      <4>1. PublishedAt(h) = l[1] BY <1>t, <1>4 DEF OneHop, Queued
      <4>2. PublishedAt(a) = l[1] BY <3>1, <4>1 DEF PublishedAt
      <4> QED BY <2>1, <4>2 DEF HasLeft
    <3>2. a.seq \in Nat /\ h.seq \in Nat BY <1>3 DEF Events
    <3> QED BY <1>11, <3>1, <3>2 DEF Before, Apart
  <2>2. \A c \in requests' : c \in requests \/ (c.link = l /\ c.ev = h) BY <1>1
  <2> QED BY <1>o, <1>0, <1>9, <2>1, <2>2 DEF NotArrived, Local
<1>20. InOrder' BY <1>o, <1>0, <1>8 DEF InOrder
<1> QED BY <1>w, <1>12, <1>13, <1>14, <1>15, <1>16, <1>17, <1>18, <1>19, <1>20 DEF OnceInv, OrderInv

\* A POST fails, or its sender gives up.
LEMMA PostOnce ==
    ASSUME OnceInv, NEW l \in Links, PostFails(l) \/ PostTimesOut(l)
    PROVE  OnceInv'
<1>t. PubSubData /\ OneHop /\ OnceData BY DEF OnceInv, WholeInv
<1>o. LastIssued /\ QueueOrder /\ AllApart /\ SenderWaits /\ NotArrived /\ InOrder BY DEF OnceInv, OrderInv
<1>w. WholeInv' BY MeshWhole DEF OnceInv, MeshStep
<1>0. /\ UNCHANGED <<viewing, tokenOf, clock, shown, queued, onBus, deliveries, outbox, issued, publishing>>
      /\ requests' \subseteq requests /\ late' \in BOOLEAN /\ (late => late')
      /\ sender' = [sender EXCEPT ![l] = [at |-> "range", ev |-> NoEvent]]
  BY <1>t DEF PostFails, PostTimesOut, Posted, At, viewerVars, tableVars, queueVars, publisherVars, OnceData
<1>1. \A w \in Viewers : Arrived(w)' = Arrived(w) BY <1>0 DEF Arrived
<1>2. \A w \in Viewers, y \in Events : HasArrived(w, y)' <=> HasArrived(w, y) BY <1>1 DEF HasArrived
<1>3. \A m \in Links, y \in Events : (HasLeft(m, y)' => HasLeft(m, y)) /\ (Queued(m, y)' <=> Queued(m, y))
  BY <1>0, <1>2 DEF HasLeft, Queued
<1>4. OnceData' BY <1>t, <1>0 DEF OnceData
<1>5. OneHop' BY <1>t, <1>0 DEF OneHop
<1>6. Covered' BY <1>0, <1>2 DEF OnceInv, Covered
<1>7. LastIssued' BY <1>o, <1>0, <1>2, <1>3 DEF LastIssued, Local
<1>8. QueueOrder' BY <1>o, <1>0, <1>3 DEF QueueOrder
<1>9. AllApart' BY <1>o, <1>0 DEF AllApart
<1>10. SenderWaits'
  <2> SUFFICES ASSUME ~late'
               PROVE  /\ \A c \in requests' : sender'[c.link] = [at |-> "posting", ev |-> c.ev]
                      /\ \A d \in deliveries : d.who \in Links => sender'[d.who] = [at |-> "posting", ev |-> d.ev]
    BY <1>0 DEF SenderWaits
  <2> DEFINE r == [link |-> l, ev |-> sender[l].ev]
  <2>1. ~late /\ r \in requests /\ requests' = requests \ {r} BY <1>0 DEF PostFails, PostTimesOut
  <2>2. \A m \in Links : m # l => sender'[m] = sender[m] BY <1>t, <1>0 DEF OnceData
  <2>3. r.link = l /\ r.ev = sender[l].ev OBVIOUS
  <2> HIDE DEF r
  <2>4. ASSUME NEW c \in requests' PROVE c.link \in Links /\ c.link # l
    <3>1. c \in requests /\ c # r BY <2>1
    <3>2. ASSUME c.link = l PROVE FALSE
      <4>1. sender[l] = [at |-> "posting", ev |-> c.ev] BY <1>o, <2>1, <3>1, <3>2 DEF SenderWaits
      <4>2. sender[l].ev = c.ev BY <4>1
      <4> QED BY <1>o, <2>1, <2>3, <3>1, <3>2, <4>2 DEF AllApart, Apart
    <3> QED BY <1>t, <3>1, <3>2 DEF PubSubData
  <2>5. ASSUME NEW d \in deliveries, d.who \in Links PROVE d.who # l
    <3>1. sender[d.who] = [at |-> "posting", ev |-> d.ev] BY <1>o, <2>1, <2>5 DEF SenderWaits
    <3>2. sender[d.who].ev = d.ev BY <3>1
    <3> QED BY <1>o, <2>1, <2>3, <3>2 DEF AllApart, Apart
  <2> QED BY <1>o, <1>0, <2>1, <2>2, <2>4, <2>5 DEF SenderWaits
<1>11. NotArrived' BY <1>o, <1>0, <1>2 DEF NotArrived, Local
<1>12. InOrder' BY <1>o, <1>0, <1>1 DEF InOrder
<1> QED BY <1>w, <1>4, <1>5, <1>6, <1>7, <1>8, <1>9, <1>10, <1>11, <1>12 DEF OnceInv, OrderInv

\* A peer takes an event in.
LEMMA HandleOnce ==
    ASSUME OnceInv, NEW r \in requests, Handle(r)
    PROVE  OnceInv'
<1>t. PubSubData /\ OneHop /\ OnceData BY DEF OnceInv, WholeInv
<1>o. LastIssued /\ QueueOrder /\ AllApart /\ SenderWaits /\ NotArrived /\ InOrder BY DEF OnceInv, OrderInv
<1>w. WholeInv' BY MeshWhole DEF OnceInv, MeshStep
<1>0. UNCHANGED <<viewing, tokenOf, clock, shown, queued, onBus, outbox, sender, late, issued, publishing>>
  BY DEF Handle, viewerVars, tableVars, queueVars, publisherVars
<1> DEFINE l == r.link
           n == l[2]
           x == r.ev
<1>1. l \in Links /\ x \in Events BY <1>t DEF PubSubData
<1>2. n \in Nodes /\ l = <<PublishedAt(x), n>> /\ l \notin BusPublishers
  <2>1. PublishedAt(x) = l[1] BY <1>t DEF OneHop
  <2> QED BY <1>1, <2>1, LinkFacts
<1>3. deliveries' = deliveries \cup {Delivery(l, n, x)} /\ requests' = requests \ {r} BY DEF Handle
<1>4. l \in BusPublishers \cup Links /\ requests' \subseteq requests BY <1>1, <1>3
<1> HIDE DEF l, n, x
<1>5. /\ OneHop' /\ Covered'
      /\ \E d \in DeliveryStates :
           /\ deliveries' = deliveries \cup {d} /\ d.who = l /\ d.node = n /\ d.ev = x
           /\ \A v \in d.todo \cup d.to : v \in Viewers /\ ViewerAt[v] = n
  BY <1>0, <1>1, <1>2, <1>3, <1>4, NewDelivery
<1>6. PICK d \in DeliveryStates :
           /\ deliveries' = deliveries \cup {d} /\ d.who = l /\ d.node = n /\ d.ev = x
           /\ \A v \in d.todo \cup d.to : v \in Viewers /\ ViewerAt[v] = n
  BY <1>5
<1>7. r.link = l /\ r.ev = x /\ r.link[2] = n BY DEF l, n, x
<1>8. ~Local(d) BY <1>2, <1>6 DEF Local
<1>9. \A w \in Viewers : Arrived(w)' = Arrived(w) BY <1>0 DEF Arrived
<1>10. \A w \in Viewers, y \in Events : HasArrived(w, y)' <=> HasArrived(w, y) BY <1>9 DEF HasArrived
<1>11. \A m \in Links, y \in Events : (HasLeft(m, y)' => HasLeft(m, y)) /\ (Queued(m, y)' <=> Queued(m, y))
  BY <1>0, <1>3, <1>6, <1>7, <1>10 DEF HasLeft, Queued
<1>12. OnceData' BY <1>t, <1>0 DEF OnceData
<1>13. LastIssued' BY <1>o, <1>0, <1>6, <1>8, <1>10, <1>11 DEF LastIssued, Local
<1>14. QueueOrder' BY <1>o, <1>0, <1>11 DEF QueueOrder
<1>15. AllApart'
  <2>1. \A e \in deliveries : e.who = l => Apart(d.ev, e.ev) /\ Apart(e.ev, d.ev)
    BY <1>o, <1>6, <1>7 DEF AllApart, Apart
  <2>2. \A c \in requests' : c.link = l => Apart(c.ev, d.ev) BY <1>o, <1>3, <1>6, <1>7 DEF AllApart
  <2>3. \A c \in requests' : c \in requests BY <1>3
  <2> QED BY <1>o, <1>6, <2>1, <2>2, <2>3 DEF AllApart
<1>16. SenderWaits'
  <2>1. ~late => sender[l] = [at |-> "posting", ev |-> x] BY <1>o, <1>7 DEF SenderWaits
  <2> QED BY <1>o, <1>0, <1>3, <1>6, <2>1 DEF SenderWaits
<1>17. NotArrived'
  <2>1. ASSUME NEW v \in Viewers, NEW a \in Events, HasArrived(v, a), v \in d.todo \cup d.to
        PROVE  Apart(a, d.ev) /\ (Local(d) \/ ~late => Before(a, d.ev))
    BY <1>o, <1>6, <1>7, <1>8, <2>1 DEF NotArrived
  <2>2. \A c \in requests' : c \in requests BY <1>3
  <2> QED BY <1>o, <1>0, <1>6, <1>10, <2>1, <2>2 DEF NotArrived, Local
<1>18. InOrder' BY <1>o, <1>0, <1>9 DEF InOrder
<1> QED BY <1>w, <1>5, <1>12, <1>13, <1>14, <1>15, <1>16, <1>17, <1>18 DEF OnceInv, OrderInv

\* OnceInv is an invariant.
LEMMA OnceInvHolds == PubSubSpec => []OnceInv
<1>1. OnceInv /\ [PubSubNext]_pubsubVars => OnceInv'
  <2> SUFFICES ASSUME OnceInv, [PubSubNext]_pubsubVars PROVE OnceInv' OBVIOUS
  <2>1. MeshStep => OnceInv' BY TakeOnce, PostOnce, HandleOnce DEF MeshStep
  <2> QED BY <2>1, ViewerOnce, PublishOnce, ReturnOnce, DeliveryStepOnce, CloseOnce, StutterOnce DEF PubSubNext
<1> QED BY InitOnce, <1>1, PTL DEF PubSubSpec

(***************************************************************************)
(* Over any mesh of gat gateways, whichever of them point at each other,   *)
(* a subscriber gets no event twice, and a publisher's events in the order *)
(* of its Publish calls: always on the publisher's own gateway, and over   *)
(* PeerMesh as long as no postPeerEvent timed out; and a WebSocket client  *)
(* of a guarded gateway gets only what the channel of its token covers.    *)
(***************************************************************************)
THEOREM EventsOnceHolds == PubSubSpec => []EventsOnce
<1>1. OnceInv => EventsOnce
  <2> SUFFICES ASSUME OnceInv, NEW v \in Viewers
               PROVE  /\ \A i, j \in DOMAIN Arrived(v) :
                           i < j /\ Arrived(v)[i].by = Arrived(v)[j].by =>
                             /\ Arrived(v)[i].seq # Arrived(v)[j].seq
                             /\ PublishedAt(Arrived(v)[i]) = ViewerAt[v] \/ ~late => Arrived(v)[i].seq < Arrived(v)[j].seq
                      /\ ViewerAt[v] \in Guarded =>
                           \A i \in DOMAIN Arrived(v) : tokenOf[v] # <<>> /\ MatchChannel(tokenOf[v][1], Arrived(v)[i].channel)
    BY DEF EventsOnce
  <2>1. \A i, j \in DOMAIN Arrived(v) : i < j =>
           /\ Apart(Arrived(v)[i], Arrived(v)[j])
           /\ PublishedAt(Arrived(v)[i]) = ViewerAt[v] \/ ~late => Before(Arrived(v)[i], Arrived(v)[j])
    BY DEF OnceInv, OrderInv, InOrder
  <2>2. ASSUME ViewerAt[v] \in Guarded, NEW i \in DOMAIN Arrived(v)
        PROVE  tokenOf[v] # <<>> /\ MatchChannel(tokenOf[v][1], Arrived(v)[i].channel)
    <3>1. HasArrived(v, Arrived(v)[i]) BY <2>2 DEF HasArrived
    <3>2. Arrived(v)[i] \in Events BY <3>1, ArrivedData DEF OnceInv, WholeInv
    <3> QED BY <2>2, <3>1, <3>2 DEF OnceInv, Covered
  <2> QED BY <2>1, <2>2 DEF Apart, Before
<1> QED BY <1>1, OnceInvHolds, PTL
=============================================================================
