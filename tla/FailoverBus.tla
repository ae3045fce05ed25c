---------------------------- MODULE FailoverBus -----------------------------
(***************************************************************************)
(* The pub/sub transport of a cluster gateway (gw/pubsub_bus.go) under the *)
(* subscription broker of SubBroker: a publish goes to NATS while the      *)
(* connection is up and to the node's LocalBus while it is down, a         *)
(* subscription is opened on both, and a watcher goroutine moves the       *)
(* degraded flag after the connection's status.                            *)
(*                                                                         *)
(* A fanout of the broker is a subscription of this bus.  Publish reads    *)
(* the flag without the mutex and then publishes; refresh reads the status *)
(* without it too, and binds and stores under it.  NATS is the             *)
(* environment: it may drop and come back, lose what was on the wire, and  *)
(* close for good; its status events are dropped when nobody takes them.   *)
(* Nothing drains the connection of a gateway (Cluster.Close closes it),   *)
(* so the draining statuses do not occur.  A bus without a connection is   *)
(* one whose connection was closed before it was made.                     *)
(***************************************************************************)
EXTENDS SubBroker, Sequences

CONSTANTS
    MaxDrops,    \* bound: times the connection drops
    SignalCap    \* of the status listener's channel (10 in nats.go)

ASSUME FailoverAssumption == MaxDrops \in Nat /\ SignalCap \in Nat \ {0}

Status == {"connected", "reconnecting", "closed"}

VARIABLES
    status,    \* nc.Status()
    signals,   \* status events in the listener's channel
    degraded,  \* b.degraded
    watcher,   \* the watcher goroutine: where newFailoverBus or refresh is
    deg,       \* what refresh has read
    nats,      \* per fanout: NATS subscriptions that are open
    route,     \* per publisher: what Publish has decided, where the event is
    got,       \* history: per publisher and fanout, callbacks that were started
    owed,      \* history: per publisher, fanouts subscribed ever since Publish
    removed,   \* Close has removed the status listener
    drops

linkVars == <<status, signals, removed, drops>>
watchVars == <<degraded, watcher, deg>>
eventVars == <<route, got, owed>>
fvars == <<vars, linkVars, watchVars, nats, eventVars>>

Route == {"none", "nats", "local", "wire", "lost", "failed", "over"}

FTypeOK ==
    /\ status \in Status
    /\ signals \in Seq(Status) /\ Len(signals) <= SignalCap
    /\ degraded \in BOOLEAN /\ deg \in BOOLEAN /\ removed \in BOOLEAN
    /\ watcher \in {"listen", "read", "idle", "bind", "store", "off"}
    /\ nats \in [Fanouts -> 0..1]
    /\ route \in [Publishers -> Route]
    /\ got \in [Publishers -> [Fanouts -> Nat]]
    /\ owed \in [Publishers -> SUBSET Fanouts]
    /\ drops \in 0..MaxDrops

FInit ==
    /\ Init
    /\ \/ status \in {"connected", "reconnecting"} /\ degraded = FALSE /\ watcher = "listen"
       \/ status = "closed" /\ degraded = TRUE /\ watcher = "off"
    /\ signals = <<>> /\ drops = 0 /\ removed = FALSE
    /\ deg = FALSE
    /\ nats = [f \in Fanouts |-> 0]
    /\ route = [p \in Publishers |-> "none"]
    /\ got = [p \in Publishers |-> [f \in Fanouts |-> 0]]
    /\ owed = [p \in Publishers |-> {}]

natsDegraded(st) == st # "connected"

-----------------------------------------------------------------------------
(* The connection (external).                                              *)

\* A status event, dropped when the listener's channel is full.
Signal(st) ==
    signals' = IF watcher # "listen" /\ ~removed /\ Len(signals) < SignalCap
               THEN Append(signals, st) ELSE signals

\* The connection drops: anything on the wire may be lost.
Disconnect ==
    /\ status = "connected" /\ drops < MaxDrops
    /\ status' = "reconnecting" /\ drops' = drops + 1
    /\ Signal("reconnecting")
    /\ \E L \in SUBSET {p \in Publishers : route[p] = "wire"} :
          route' = [p \in Publishers |-> IF p \in L THEN "lost" ELSE route[p]]
    /\ UNCHANGED <<vars, removed, watchVars, nats, got, owed>>

Reconnect ==
    /\ status = "reconnecting"
    /\ status' = "connected"
    /\ Signal("connected")
    /\ UNCHANGED <<vars, removed, drops, watchVars, nats, eventVars>>

\* nats.go gives up, or the cluster is closed: buffered events are lost,
\* subscriptions are gone.
Closes ==
    /\ status # "closed"
    /\ status' = "closed"
    /\ Signal("closed")
    /\ route' = [p \in Publishers |-> IF route[p] = "wire" THEN "lost" ELSE route[p]]
    /\ nats' = [f \in Fanouts |-> 0]
    /\ UNCHANGED <<vars, removed, drops, watchVars, got, owed>>

-----------------------------------------------------------------------------
(* newFailoverBus and the watcher.                                         *)

Listen ==
    /\ watcher = "listen"
    /\ watcher' = "read"
    /\ UNCHANGED <<vars, linkVars, degraded, deg, nats, eventVars>>

StartRead ==
    /\ watcher = "read"
    /\ degraded' = natsDegraded(status)
    /\ watcher' = "idle"
    /\ UNCHANGED <<vars, linkVars, deg, nats, eventVars>>

\* An event wakes the watcher, which reads the status again.
RefreshRead ==
    /\ watcher = "idle" /\ signals # <<>>
    /\ signals' = Tail(signals)
    /\ deg' = natsDegraded(status)
    /\ watcher' = "bind"
    /\ UNCHANGED <<vars, status, removed, drops, degraded, nats, eventVars>>

\* Takes the mutex; back on NATS, opens the subscriptions without a NATS side.
RefreshBind ==
    /\ watcher = "bind"
    /\ \/ deg = degraded /\ watcher' = "idle" /\ UNCHANGED nats
       \/ /\ deg # degraded /\ watcher' = "store"
          /\ nats' = [f \in Fanouts |-> IF ~deg /\ f \in subscribed /\ status # "closed"
                                        THEN 1 ELSE nats[f]]
    /\ UNCHANGED <<vars, linkVars, degraded, deg, eventVars>>

\* Stores the flag and lets go of the mutex.
RefreshStore ==
    /\ watcher = "store"
    /\ degraded' = deg
    /\ watcher' = "idle"
    /\ UNCHANGED <<vars, linkVars, deg, nats, eventVars>>

\* Close: the listener goes, the watcher ends with what is in its channel.  The
\* flag stays as it is from then on.
CloseBus ==
    /\ ~removed /\ watcher \notin {"listen", "read"}
    /\ removed' = TRUE
    /\ UNCHANGED <<vars, status, signals, drops, watchVars, nats, eventVars>>

WatchEnds ==
    /\ removed /\ watcher = "idle" /\ signals = <<>>
    /\ watcher' = "off"
    /\ UNCHANGED <<vars, linkVars, degraded, deg, nats, eventVars>>

mutexFree == watcher \in {"idle", "bind", "off"}

-----------------------------------------------------------------------------
(* Subscribe and unsubscribe, called by the broker.                        *)

\* Opens both sides; a closed connection refuses, which counts when healthy.
Subscribe(f) ==
    /\ mutexFree
    /\ status # "closed" \/ degraded
    /\ nats' = [nats EXCEPT ![f] = IF status = "closed" THEN 0 ELSE 1]

SubscribeRefused == mutexFree /\ status = "closed" /\ ~degraded

Acquire(c) ==
    /\ AcquireFanout(c)
    /\ \/ subs # 0 /\ watcher \notin {"listen", "read"} /\ UNCHANGED nats
       \/ subs = 0 /\ Subscribe(made + 1)
    /\ UNCHANGED <<linkVars, watchVars, eventVars>>

AcquireRefused(c) ==
    /\ SubscribeRefused
    /\ AcquireFails(c)
    /\ UNCHANGED <<linkVars, watchVars, nats, eventVars>>

Attach(c) == AcquireAttach(c) /\ UNCHANGED <<linkVars, watchVars, nats, eventVars>>
Leave(c) == ReleaseTarget(c) /\ UNCHANGED <<linkVars, watchVars, nats, eventVars>>

\* The broker unsubscribes: the entry goes under the mutex, then both sides.
Release(c) ==
    /\ ReleaseFanout(c)
    /\ subs = fan[c] => mutexFree
    /\ nats' = [f \in Fanouts |-> IF f \in subscribed' THEN nats[f] ELSE 0]
    /\ owed' = [p \in Publishers |-> owed[p] \cap subscribed']
    /\ UNCHANGED <<linkVars, watchVars, route, got>>

-----------------------------------------------------------------------------
(* Publish.                                                                *)

\* Reads the flag.
PublishStart(p) ==
    /\ route[p] = "none" /\ watcher \notin {"listen", "read"}
    /\ route' = [route EXCEPT ![p] = IF degraded THEN "local" ELSE "nats"]
    /\ owed' = [owed EXCEPT ![p] = subscribed]
    /\ UNCHANGED <<vars, linkVars, watchVars, nats, got>>

\* Mutation: a publish that NATS has taken goes to the local bus too.
PublishNatsBoth(p) ==
    /\ route[p] = "nats"
    /\ route' = [route EXCEPT ![p] = IF status = "closed" THEN "local" ELSE "wire"]
    /\ got' = [got EXCEPT ![p] = [f \in Fanouts |-> IF f \in subscribed THEN 1 ELSE 0]]
    /\ UNCHANGED <<vars, linkVars, watchVars, nats, owed>>

\* nc.Publish: taken, buffered while the connection is away, or refused when
\* it is closed or the buffer is full; what was refused is published locally.
\* Any other error (a payload too large) is the caller's.
PublishNats(p) ==
    /\ route[p] = "nats"
    /\ \/ status # "closed" /\ route' = [route EXCEPT ![p] = "wire"]
       \/ status # "connected" /\ route' = [route EXCEPT ![p] = "local"]
       \/ status # "closed" /\ route' = [route EXCEPT ![p] = "failed"]
    /\ UNCHANGED <<vars, linkVars, watchVars, nats, got, owed>>

\* The local bus calls back every subscription.
PublishLocal(p) ==
    /\ route[p] = "local"
    /\ Publish(p)
    /\ route' = [route EXCEPT ![p] = "over"]
    /\ got' = [got EXCEPT ![p] = [f \in Fanouts |-> @[f] + IF f \in subscribed THEN 1 ELSE 0]]
    /\ UNCHANGED <<linkVars, watchVars, nats, owed>>

\* The event comes back from the server, once for every NATS subscription.
Echo(p) ==
    /\ route[p] = "wire" /\ status = "connected"
    /\ pub[p].state = "new"
    /\ pub' = [pub EXCEPT ![p].state = "running", ![p].todo = {f \in Fanouts : nats[f] > 0}]
    /\ route' = [route EXCEPT ![p] = "over"]
    /\ got' = [got EXCEPT ![p] = [f \in Fanouts |-> @[f] + nats[f]]]
    /\ UNCHANGED <<brokerVars, panicked, buffer, linkVars, watchVars, nats, owed>>

Callback(p) ==
    /\ \/ \E f \in Fanouts : Deliver(p, f)
       \/ \E c \in Consumers : DeliverSend(p, c)
    /\ UNCHANGED <<linkVars, watchVars, nats, eventVars>>

Take(c) == Receive(c) /\ UNCHANGED <<linkVars, watchVars, nats, eventVars>>

-----------------------------------------------------------------------------
FNext ==
    \/ Disconnect \/ Reconnect \/ Closes
    \/ Listen \/ StartRead \/ RefreshRead \/ RefreshBind \/ RefreshStore
    \/ CloseBus \/ WatchEnds
    \/ \E c \in Consumers : \/ Acquire(c) \/ AcquireRefused(c) \/ Attach(c)
                            \/ Leave(c) \/ Release(c) \/ Take(c)
    \/ \E p \in Publishers : \/ PublishStart(p) \/ PublishNats(p) \/ PublishLocal(p)
                             \/ Echo(p) \/ Callback(p)

FSpec == FInit /\ [][FNext]_fvars

-----------------------------------------------------------------------------
(* Properties.                                                             *)

(***************************************************************************)
(* A subscriber gets an event once (failoverBus says each publish goes to  *)
(* exactly one of the two buses), whatever the connection does meanwhile;  *)
(* and an event that NATS did not lose reaches every subscription that was *)
(* open when it was published and still is.                                *)
(***************************************************************************)
PublishedOnce ==
    \A p \in Publishers :
        /\ \A f \in Fanouts : got[p][f] <= 1
        /\ route[p] = "over" => \A f \in owed[p] : got[p][f] = 1

=============================================================================
