----------------------------- MODULE GatPubSub ------------------------------
(***************************************************************************)
(* Publish/subscribe of the embedded gateway: the in-process bus           *)
(* (gw/gat/bus.go), the drop-oldest queues over it (gw/gat/pubsub.go), the *)
(* peer mesh that carries events one hop to other gateways                 *)
(* (gw/gat/pubsub_peers.go), and the WebSocket stream a client reads them  *)
(* from (gw/gat/pubsub_ws.go, gw/gat/pubsub_auth.go).                      *)
(*                                                                         *)
(* Publishers, the mesh's senders, its receive handlers, subscribers'      *)
(* cancels and Gateway.Close run concurrently; each step below is one of   *)
(* theirs between two points where another can get in.  The network may    *)
(* refuse a POST, and a sender may give up on one that is still served.    *)
(***************************************************************************)
EXTENDS Naturals, Sequences, FiniteSets, SequencesExt

CONSTANTS
    Nodes,            \* gateways
    PeersOf,          \* per gateway: PeerMesh.Peers
    MeshKey,          \* per gateway: PeerMesh.Auth, NoKey when empty
    NoKey,
    BusPublishers,    \* goroutines that call Publish
    PublisherAt,      \* per publisher: its gateway
    Notices,          \* what may be published: [channel, big]
    Viewers,          \* WebSocket clients
    ViewerAt, Wants,  \* per client: its gateway, the pattern it asks for
    Guarded,          \* the gateways with EnableSubscribeAuth
    Closers,          \* the gateways that Close is called on
    QueueDepth,       \* subscriberQueueDepth
    PeerQueueDepth,   \* peerQueueDepth
    FailThresh,       \* breakerFailThresh
    Cooldown, Skew,   \* breakerCooldown and subscribeTokenSkew, in ticks
    MaxPublished,     \* bound: what one publisher publishes
    MaxClock          \* bound: ticks

ASSUME GatPubSubAssumption ==
    /\ PeersOf \in [Nodes -> SUBSET Nodes] /\ \A n \in Nodes : n \notin PeersOf[n]
    /\ BusPublishers \cap (Nodes \X Nodes) = {}
    /\ PublisherAt \in [BusPublishers -> Nodes] /\ ViewerAt \in [Viewers -> Nodes]
    /\ {QueueDepth, PeerQueueDepth, FailThresh} \subseteq Nat \ {0}
    /\ {Cooldown, Skew, MaxPublished, MaxClock} \subseteq Nat

VARIABLES
    clock,
    tokenOf,       \* per client: the token it was given, <<>> before
    viewing,       \* per client: where its handler is
    onBus,         \* per gateway: LocalBus.subs
    listed,        \* per gateway: pubSub.subs
    queued,        \* per client: its event channel
    shut,          \* per client: times the channel was closed
    overflowed,    \* history: per client, a delivery found the channel full
    shown,         \* history: per client, the frames it was sent
    promised,      \* history: per client, the events whose snapshot held it
    issued,        \* per publisher: events published so far
    publishing,    \* per publisher: where Publish is
    deliveries,    \* LocalBus.Publish calls under way
    outbox,        \* per gateway and peer: peerConn.queue
    sender,        \* per gateway and peer: where peerConn.run is
    breaker,       \* per gateway and peer: circuitBreaker
    requests,      \* POSTs that a peer has not served yet
    late,          \* history: some sender gave up on a POST
    closing        \* per gateway: where Close is

tableVars == <<onBus, listed>>
queueVars == <<queued, shut, overflowed>>
viewerVars == <<tokenOf, viewing, shown>>
publisherVars == <<issued, publishing>>
meshVars == <<outbox, sender, breaker, requests, late>>
pubsubVars == <<clock, viewerVars, tableVars, queueVars, promised, publisherVars, deliveries, meshVars, closing>>

NoEvent == [by |-> "", seq |-> 0, channel |-> <<>>, big |-> FALSE]
Links == {l \in Nodes \X Nodes : l[2] \in PeersOf[l[1]]}

PubSubInit ==
    /\ clock = 0
    /\ tokenOf = [v \in Viewers |-> <<>>]
    /\ viewing = [v \in Viewers |-> "away"]
    /\ onBus = [n \in Nodes |-> {}] /\ listed = [n \in Nodes |-> {}]
    /\ queued = [v \in Viewers |-> <<>>] /\ shut = [v \in Viewers |-> 0]
    /\ overflowed = [v \in Viewers |-> FALSE]
    /\ shown = [v \in Viewers |-> <<>>] /\ promised = [v \in Viewers |-> {}]
    /\ issued = [p \in BusPublishers |-> 0] /\ publishing = [p \in BusPublishers |-> "idle"]
    /\ deliveries = {}
    /\ outbox = [l \in Links |-> <<>>]
    /\ sender = [l \in Links |-> [at |-> "range", ev |-> NoEvent]]
    /\ breaker = [l \in Links |-> [streak |-> 0, open |-> FALSE, openedAt |-> 0, probing |-> FALSE]]
    /\ requests = {} /\ late = FALSE
    /\ closing = [n \in Nodes |-> [at |-> "open", taken |-> {}]]

-----------------------------------------------------------------------------
(* Channels and patterns are sequences of segments. *)

\* MatchChannel: "*" is one segment, ">" one or more and only at the end.
MatchChannel(pattern, channel) ==
    /\ pattern # <<>> /\ channel # <<>>
    /\ \A i \in DOMAIN pattern :
        \/ pattern[i] = ">" /\ i = Len(pattern) /\ i <= Len(channel)
        \/ pattern[i] # ">" /\ i <= Len(channel) /\ pattern[i] \in {"*", channel[i]}
    /\ Last(pattern) # ">" => Len(channel) = Len(pattern)

-----------------------------------------------------------------------------
(* A client of the WebSocket stream. *)

View(v, to) == viewing' = [viewing EXCEPT ![v] = to]

\* SignSubscribeToken: the HMAC of a channel and the time it was minted.
SignSubscribeToken(v) ==
    /\ ViewerAt[v] \in Guarded
    /\ viewing[v] = "away" /\ tokenOf[v] = <<>>
    /\ \E w \in Viewers : tokenOf' = [tokenOf EXCEPT ![v] = <<Wants[w], clock>>]
    /\ UNCHANGED <<clock, viewing, shown, tableVars, queueVars, promised, publisherVars, deliveries, meshVars, closing>>

verifySubscribeRequest(v) ==
    \/ ViewerAt[v] \notin Guarded
    \/ tokenOf[v] # <<>> /\ clock - tokenOf[v][2] <= Skew /\ tokenOf[v][1] = Wants[v]

\* subscribeWSHandler refuses the request ...
Refuse(v) ==
    /\ viewing[v] = "away"
    /\ Wants[v] = <<>> \/ ~verifySubscribeRequest(v)
    /\ View(v, "refused")
    /\ UNCHANGED <<clock, tokenOf, shown, tableVars, queueVars, promised, publisherVars, deliveries, meshVars, closing>>

\* ... or upgrades it and subscribes: the bus first ...
SubscribeBus(v) ==
    /\ viewing[v] = "away"
    /\ Wants[v] # <<>> /\ verifySubscribeRequest(v)
    /\ View(v, "listing")
    /\ onBus' = [onBus EXCEPT ![ViewerAt[v]] = @ \cup {v}]
    /\ UNCHANGED <<clock, tokenOf, shown, listed, queueVars, promised, publisherVars, deliveries, meshVars, closing>>

\* ... then the table that cancel and Close take it from.
SubscribeList(v) ==
    /\ viewing[v] = "listing"
    /\ View(v, "streaming")
    /\ listed' = [listed EXCEPT ![ViewerAt[v]] = @ \cup {v}]
    /\ UNCHANGED <<clock, tokenOf, shown, onBus, queueVars, promised, publisherVars, deliveries, meshVars, closing>>

\* An event is taken off the channel and written as a frame.
Show(v) ==
    /\ viewing[v] = "streaming" /\ queued[v] # <<>>
    /\ queued' = [queued EXCEPT ![v] = Tail(@)]
    /\ shown' = [shown EXCEPT ![v] = Append(@, Head(queued[v]))]
    /\ UNCHANGED <<clock, tokenOf, viewing, tableVars, shut, overflowed, promised, publisherVars, deliveries, meshVars, closing>>

\* The client went away, a write failed, or the channel was closed: the handler
\* returns and its deferred cancel takes the subscription out of the table.
Depart(v) ==
    /\ viewing[v] = "streaming"
    /\ View(v, IF v \in listed[ViewerAt[v]] THEN "cancelling" ELSE "gone")
    /\ listed' = [listed EXCEPT ![ViewerAt[v]] = @ \ {v}]
    /\ UNCHANGED <<clock, tokenOf, shown, onBus, queueVars, promised, publisherVars, deliveries, meshVars, closing>>

\* cancel, and closeAll for what it took: unsubscribe, then close the channel.
Unsubscribe(v) == onBus' = [onBus EXCEPT ![ViewerAt[v]] = @ \ {v}]
CloseChannel(v) == shut' = [shut EXCEPT ![v] = @ + 1]

CancelUnsubscribes(v) ==
    /\ viewing[v] = "cancelling"
    /\ View(v, "closing")
    /\ Unsubscribe(v)
    /\ UNCHANGED <<clock, tokenOf, shown, listed, queueVars, promised, publisherVars, deliveries, meshVars, closing>>

CancelCloses(v) ==
    /\ viewing[v] = "closing"
    /\ View(v, "gone")
    /\ CloseChannel(v)
    /\ UNCHANGED <<clock, tokenOf, shown, tableVars, queued, overflowed, promised, publisherVars, deliveries, meshVars, closing>>

-----------------------------------------------------------------------------
(* Publish. *)

Matching(n, channel) == {v \in onBus[n] : MatchChannel(Wants[v], channel)}

\* LocalBus.Publish: the targets are taken in one go and served one by one.
\* who is the publisher, or the link the event came over.
Delivery(who, n, ev) == [who |-> who, node |-> n, ev |-> ev, todo |-> Matching(n, ev.channel), at |-> "next", to |-> {}]
Promise(n, ev) ==
    promised' = [v \in Viewers |-> IF v \in Matching(n, ev.channel) THEN promised[v] \cup {ev} ELSE promised[v]]

\* An empty channel is refused before anything happens.
PubSubPublish(p) ==
    /\ publishing[p] = "idle" /\ issued[p] < MaxPublished
    /\ \E note \in Notices :
        LET ev == [by |-> p, seq |-> issued[p] + 1, channel |-> note.channel, big |-> note.big]
        IN  /\ issued' = [issued EXCEPT ![p] = @ + 1]
            /\ IF note.channel = <<>> THEN UNCHANGED <<publishing, deliveries, promised>>
               ELSE /\ publishing' = [publishing EXCEPT ![p] = "delivering"]
                    /\ deliveries' = deliveries \cup {Delivery(p, PublisherAt[p], ev)}
                    /\ Promise(PublisherAt[p], ev)
    /\ UNCHANGED <<clock, viewerVars, tableVars, queueVars, meshVars, closing>>

\* at is "next" between targets; to holds the target while its queue is full.
Became(d, at, v) ==
    deliveries' = (deliveries \ {d}) \cup {[d EXCEPT !.at = at, !.todo = @ \ {v}, !.to = IF at = "next" THEN {} ELSE {v}]}
FullQueue(v) == Len(queued[v]) >= QueueDepth

\* deliver: a send, or, when the channel is full, the oldest goes and the send is
\* tried once more.  A send on a closed channel panics and is recovered.
TrySend(d, v, otherwise) ==
    \/ shut[v] > 0 /\ Became(d, "next", v) /\ UNCHANGED <<queued, overflowed>>
    \/ /\ shut[v] = 0 /\ ~FullQueue(v)
       /\ queued' = [queued EXCEPT ![v] = Append(@, d.ev)]
       /\ Became(d, "next", v) /\ UNCHANGED overflowed
    \/ /\ shut[v] = 0 /\ FullQueue(v)
       /\ overflowed' = [overflowed EXCEPT ![v] = TRUE]
       /\ Became(d, otherwise, v) /\ UNCHANGED queued

Send(d) ==
    /\ d.at = "next" /\ \E v \in d.todo : TrySend(d, v, "drop")
    /\ UNCHANGED <<clock, viewerVars, tableVars, shut, promised, publisherVars, meshVars, closing>>

DropOldest(d) ==
    /\ d.at = "drop"
    /\ \E v \in d.to : /\ queued' = [queued EXCEPT ![v] = IF @ = <<>> THEN @ ELSE Tail(@)]
                       /\ Became(d, "again", v)
    /\ UNCHANGED <<clock, viewerVars, tableVars, shut, overflowed, promised, publisherVars, meshVars, closing>>

SendAgain(d) ==
    /\ d.at = "again" /\ \E v \in d.to : TrySend(d, v, "next")
    /\ UNCHANGED <<clock, viewerVars, tableVars, shut, promised, publisherVars, meshVars, closing>>

Delivered(d) == d.at = "next" /\ d.todo = {}

\* fanout: a place in every peer's queue or none; the send panics on queues that
\* Close has closed.
fanout(n, ev) ==
    outbox' = [l \in Links |-> IF l[1] = n /\ Len(outbox[l]) < PeerQueueDepth
                               THEN Append(outbox[l], ev) ELSE outbox[l]]

PublishReturns(p) ==
    /\ publishing[p] = "delivering"
    /\ \E d \in deliveries :
        /\ d.who = p /\ Delivered(d)
        /\ deliveries' = deliveries \ {d}
        /\ \/ /\ closing[d.node].at = "open" \/ PeersOf[d.node] = {}
              /\ publishing' = [publishing EXCEPT ![p] = "idle"]
              /\ fanout(d.node, d.ev)
           \/ /\ closing[d.node].at # "open" /\ PeersOf[d.node] # {}
              /\ publishing' = [publishing EXCEPT ![p] = "panicked"]
              /\ UNCHANGED outbox
    /\ UNCHANGED <<clock, viewerVars, tableVars, queueVars, promised, issued, sender, breaker, requests, late, closing>>

-----------------------------------------------------------------------------
(* The mesh: one sender per peer. *)

At(l, at, ev) == sender' = [sender EXCEPT ![l] = [at |-> at, ev |-> ev]]

\* circuitBreaker.allow.
Cooled(b) == clock - b.openedAt >= Cooldown
Allows(b) == ~b.open \/ (~b.probing /\ Cooled(b))

\* circuitBreaker.record; failures past the threshold count no further here.
record(b, ok) ==
    IF ok THEN [b EXCEPT !.probing = FALSE, !.streak = 0, !.open = FALSE]
    ELSE LET n == IF b.streak < FailThresh THEN b.streak + 1 ELSE b.streak
         IN  [b EXCEPT !.probing = FALSE, !.streak = n,
                       !.open = n >= FailThresh, !.openedAt = IF n >= FailThresh THEN clock ELSE @]

\* run takes the next event, and drops it while the breaker is open.
TakeNext(l) ==
    /\ sender[l].at = "range" /\ outbox[l] # <<>>
    /\ outbox' = [outbox EXCEPT ![l] = Tail(@)]
    /\ IF Allows(breaker[l])
       THEN /\ At(l, "posting", Head(outbox[l]))
            /\ breaker' = [breaker EXCEPT ![l].probing = breaker[l].open]
            /\ requests' = requests \cup {[link |-> l, ev |-> Head(outbox[l])]}
       ELSE UNCHANGED <<sender, breaker, requests>>
    /\ UNCHANGED <<clock, viewerVars, tableVars, queueVars, promised, publisherVars, deliveries, late, closing>>

\* The outcome of postPeerEvent.
Posted(l, ok) ==
    /\ At(l, "range", NoEvent)
    /\ breaker' = [breaker EXCEPT ![l] = record(@, ok)]

verifyPeerBody(l) == MeshKey[l[2]] \in {NoKey, MeshKey[l[1]]}

\* The peer cannot be reached, or its handler refuses the body or its signature.
PostFails(l) ==
    /\ sender[l].at = "posting"
    /\ [link |-> l, ev |-> sender[l].ev] \in requests
    /\ requests' = requests \ {[link |-> l, ev |-> sender[l].ev]}
    /\ Posted(l, FALSE)
    /\ UNCHANGED <<clock, viewerVars, tableVars, queueVars, promised, publisherVars, deliveries, outbox, late, closing>>

\* Mutation: what a peer sends is published like anything else.
HandleRebroadcasts(r) ==
    /\ ~r.ev.big /\ verifyPeerBody(r.link)
    /\ requests' = requests \ {r}
    /\ deliveries' = deliveries \cup {Delivery(r.link, r.link[2], r.ev)}
    /\ Promise(r.link[2], r.ev)
    /\ fanout(r.link[2], r.ev)
    /\ UNCHANGED <<clock, viewerVars, tableVars, queueVars, publisherVars, sender, breaker, late, closing>>

\* Handler delivers to the peer's own subscribers only.
Handle(r) ==
    /\ ~r.ev.big /\ verifyPeerBody(r.link)
    /\ requests' = requests \ {r}
    /\ deliveries' = deliveries \cup {Delivery(r.link, r.link[2], r.ev)}
    /\ Promise(r.link[2], r.ev)
    /\ UNCHANGED <<clock, viewerVars, tableVars, queueVars, publisherVars, outbox, sender, breaker, late, closing>>

\* The handler is done: 204, if its sender still waits for it.
Handled(d) ==
    /\ d.who \in Links /\ Delivered(d)
    /\ deliveries' = deliveries \ {d}
    /\ IF sender[d.who] = [at |-> "posting", ev |-> d.ev] THEN Posted(d.who, TRUE)
       ELSE UNCHANGED <<sender, breaker>>
    /\ UNCHANGED <<clock, viewerVars, tableVars, queueVars, promised, publisherVars, outbox, requests, late, closing>>

\* peerPublishTimeout: the sender goes on; the peer may serve the POST yet.
PostTimesOut(l) ==
    /\ sender[l].at = "posting"
    /\ Posted(l, FALSE)
    /\ late' = TRUE
    /\ UNCHANGED <<clock, viewerVars, tableVars, queueVars, promised, publisherVars, deliveries, outbox, requests, closing>>

-----------------------------------------------------------------------------
(* Gateway.Close: the mesh first, which drains its queues, then closeAll.  *)

CloseAt(n, at, taken) == closing' = [closing EXCEPT ![n] = [at |-> at, taken |-> taken]]

StopMesh(n) ==
    /\ n \in Closers /\ closing[n].at = "open"
    /\ CloseAt(n, "draining", {})
    /\ UNCHANGED <<clock, viewerVars, tableVars, queueVars, promised, publisherVars, deliveries, meshVars>>

\* Mutation: the table is read, not taken.
CloseAllCopies(n) ==
    /\ closing[n].at = "draining"
    /\ \A l \in Links : l[1] = n => outbox[l] = <<>> /\ sender[l].at = "range"
    /\ CloseAt(n, "unsubscribing", listed[n])
    /\ UNCHANGED <<clock, viewerVars, tableVars, queueVars, promised, publisherVars, deliveries, meshVars>>

CloseAll(n) ==
    /\ closing[n].at = "draining"
    /\ \A l \in Links : l[1] = n => outbox[l] = <<>> /\ sender[l].at = "range"
    /\ CloseAt(n, "unsubscribing", listed[n])
    /\ listed' = [listed EXCEPT ![n] = {}]
    /\ UNCHANGED <<clock, viewerVars, onBus, queueVars, promised, publisherVars, deliveries, meshVars>>

CloseAllUnsubscribes(n) ==
    /\ closing[n].at = "unsubscribing"
    /\ \E v \in closing[n].taken \cap onBus[n] : Unsubscribe(v)
    /\ UNCHANGED <<clock, viewerVars, listed, queueVars, promised, publisherVars, deliveries, meshVars, closing>>

CloseAllCloses(n) ==
    /\ closing[n].at = "unsubscribing"
    /\ \E v \in closing[n].taken \ onBus[n] : CloseChannel(v) /\ CloseAt(n, "unsubscribing", closing[n].taken \ {v})
    /\ UNCHANGED <<clock, viewerVars, tableVars, queued, overflowed, promised, publisherVars, deliveries, meshVars>>

PassTime ==
    /\ clock < MaxClock /\ clock' = clock + 1
    /\ UNCHANGED <<viewerVars, tableVars, queueVars, promised, publisherVars, deliveries, meshVars, closing>>

ViewerStep(v) ==
    \/ SignSubscribeToken(v) \/ Refuse(v) \/ SubscribeBus(v) \/ SubscribeList(v)
    \/ Show(v) \/ Depart(v) \/ CancelUnsubscribes(v) \/ CancelCloses(v)
DeliveryStep(d) == Send(d) \/ DropOldest(d) \/ SendAgain(d) \/ Handled(d)
MeshStep == \/ \E l \in Links : TakeNext(l) \/ PostFails(l) \/ PostTimesOut(l)
            \/ \E r \in requests : Handle(r)
CloseStep(n) == StopMesh(n) \/ CloseAll(n) \/ CloseAllUnsubscribes(n) \/ CloseAllCloses(n)

PubSubNext ==
    \/ \E v \in Viewers : ViewerStep(v)
    \/ \E p \in BusPublishers : PubSubPublish(p) \/ PublishReturns(p)
    \/ \E d \in deliveries : DeliveryStep(d)
    \/ MeshStep
    \/ \E n \in Nodes : CloseStep(n)
    \/ PassTime

PubSubSpec == PubSubInit /\ [][PubSubNext]_pubsubVars

-----------------------------------------------------------------------------
Arrived(v) == shown[v] \o queued[v]
PublishedAt(ev) == PublisherAt[ev.by]

(***************************************************************************)
(* What a subscriber gets of the mesh: no event twice, however the         *)
(* gateways point at each other, and the events of one publisher in the    *)
(* order it published them, unless a sender gave up on a POST that was     *)
(* served later; and a WebSocket client sees only channels that the        *)
(* pattern of its token covers.                                            *)
(***************************************************************************)
EventsOnce ==
    \A v \in Viewers :
        /\ \A i, j \in DOMAIN Arrived(v) :
            LET a == Arrived(v)[i]
                b == Arrived(v)[j]
            IN  i < j /\ a.by = b.by => a.seq # b.seq /\ (PublishedAt(a) = ViewerAt[v] \/ ~late => a.seq < b.seq)
        /\ ViewerAt[v] \in Guarded =>
            \A i \in DOMAIN Arrived(v) : tokenOf[v] # <<>> /\ MatchChannel(tokenOf[v][1], Arrived(v)[i].channel)

(***************************************************************************)
(* A subscription's end is one end: its channel is closed once, whether    *)
(* its own cancel, Gateway.Close or both came first, and only after the    *)
(* bus let go of it; and while it lasts it misses nothing that was         *)
(* published under it unless its queue overflowed.                         *)
(***************************************************************************)
Undelivered(v) == {d.ev : d \in {e \in deliveries : v \in e.todo \cup e.to}}
SubscriptionsWhole ==
    \A v \in Viewers :
        /\ shut[v] <= 1
        /\ shut[v] = 1 => v \notin onBus[ViewerAt[v]]
        /\ shut[v] = 0 /\ ~overflowed[v] => promised[v] \subseteq ToSet(Arrived(v)) \cup Undelivered(v)

(***************************************************************************)
(* "after it runs, Publish reaches no existing subscriber" (closeAll): a   *)
(* publisher survives Close.                                               *)
(***************************************************************************)
PublisherSurvives == \A p \in BusPublishers : publishing[p] # "panicked"
=============================================================================
