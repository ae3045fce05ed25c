# gwag: verification project

gwag is a gateway: services register a schema (protobuf, OpenAPI, GraphQL or MCP)
under a namespace and a version, and the gateway serves all of them as one
GraphQL, HTTP, gRPC and MCP API. It runs alone or as a cluster of gateways that
share their state through NATS JetStream key-value (KV) buckets. `gw/gat` is a
small gateway of its own that a program embeds. This directory holds TLA+ models
of both, the TLC configurations that check them, and proofs that TLAPS checks.
Paths below are relative to `src/`.

`PROJECT.json` lists every component, run, mutant, hazard and theorem, and maps
every definition to the lines it models.

## 1. Inventory

Each entry: the state it keeps, its operations, what makes it hard, and what
must hold.

### The gateway's services

**Slot index** (`gw/slot.go`, `gw/pools.go`, `gw/channel_bindings.go`). State:
`g.slots`, `g.stableVN`, `g.deprecation`, `g.rejectedJoins`, all under `g.mu`.
`registerSlotLocked` decides whether a registration joins a slot, creates it,
swaps it (the `unstable` version) or is refused (a `vN` slot is locked to its
first schema, kind and caps; a channel pattern belongs to one slot). Slots are
released with their last replica. Hard: sequences of join, swap, release and
re-join. Right when the vN lock holds, no slot is unbacked, channel claims are
disjoint, and the served schema is the one the index renders to.

**Control plane** (`gw/control.go`). State: `cp.regs`, `cp.conns` under `cp.mu`.
`Register` (several bindings, with rollback), `Heartbeat`, `Deregister`, the
`janitor`, `RetractStable`, `ForgetPeer`, `Deprecate`. It calls the slot index
directly (standalone) or writes the registry bucket (cluster). Hard: failure
halfway through a multi-binding `Register`; the janitor, which acts after an
unlock; heartbeats and deregistrations that write KV after an unlock.

**Control client** (`gw/controlclient`). State: the registration id. Registers,
heartbeats, registers again when it is refused, deregisters on `Close`. Hard: a
call or a reply that gets lost, a gateway that restarts, `Close` in the middle.
Right when a service that is answered Ok is served, one that is up is registered
again and again, and what nobody holds is evicted.

**Registry reconciler** (`gw/reconciler.go`, `gw/registry.go`). State per
gateway: the slot index and `reconciler.conns`. It applies the registry bucket's
watch. Hard: repeated, skipped, replayed and late events, restarts, gateways
that see keys in different orders. Right when it serves what the bucket holds,
with exact connection counts, and what is gone is in the end not served.

**Stable alias** (`gw/stable.go`). State: `g.stableVN` per gateway, the
`gwag-stable` bucket. A goroutine per advance writes back with compare and set; a
retract forces a put; a watch loop overwrites the local value. Hard: all three at
once on several gateways, restarts, failed writes that landed.

**Cluster peers** (`gw/peers.go`). State per gateway: `t.live`, `t.currentR`; the
`gwag-peers` bucket; the replica count of every bucket. Hard: a gateway's idea of
the replica count against that of the others and the real one; `ForgetPeer`
against a peer that comes back.

**Deprecation** (`gw/deprecate.go`). A value in memory, a bucket and a watch loop.

### Calls, streams and events

**Unary dispatch** (`gw/upstream.go`, `gw/proto_dispatcher.go`,
`gw/openapi_dispatcher.go`, `gw/graphql_ingest.go`) and **backpressure**
(`gw/backpressure.go`). State: semaphores, in-flight counters and health atomics
per replica, a replica slice that is swapped. Hard: calls share all of it without
a lock; a retry must never deliver a request twice; slots must come back on every
way out.

**Admission**: caller identity (`gw/caller_id*.go`), quota (`gw/quota.go`) and
token exchange (`gw/token_exchange.go`). State: three caches with lifetimes, each
filled by one request for all that wait. Hard: a leader that is cancelled, an
answer that is stale when it is stored, a block that is empty again when the
waiters wake up.

**Sessions**: WebSocket limiter (`gw/ws_limit.go`), GraphQL subscriptions
(`gw/graphql_handler.go`, `gw/gat/graphql_ws.go`), stream slots (the stream
dispatchers) and `Drain` (`gw/health.go`). State: counts and token buckets per
address, the cancel of every subscription, semaphores. Hard: everything must be
given back on every way out.

**Subscription broker** (`gw/broker.go`), over the **failover bus**
(`gw/pubsub_bus.go`, `gw/pubsub.go`, `gw/gat/bus.go`, `gw/gat/gatnats`). State: one
fanout per subject with the channels of its consumers; whether the bus is
degraded. Hard: two mutexes taken one after the other; sends outside the lock;
NATS goes and comes back in the middle of a publish.

**Downstream GraphQL subscription broker** (`gw/graphql_sub_broker.go`). One
upstream WebSocket, a fanout per operation, a reader goroutine per connection.
Hard: the same, plus a connection that is shut down, breaks or is dialed anew
while all this is under way.

**Uploads** (`gw/upload*.go`): resumable uploads on disk; body and metadata are
two writes, with no lock per upload.

**Channel authorization** (`gw/auth_channel*.go`, `gw/auth_subscribe.go`,
`gw/auth_signer.go`): rules by pattern, tokens, a delegate, payload types. **Admin
surface** (`gw/auth_admin*.go`, `gw/mcp_config.go`, `gw/mcp_server.go`,
`gw/mcp_tools.go`): the admin token in its file; the MCP allowlist in a KV bucket,
mirrored by every gateway, and what the tools let through.

### Translation

**IR** (`gw/ir`): ingest and renderers for OpenAPI 3.0 to 3.2, protobuf, GraphQL
and MCP. **Ingress and relay**: HTTP (`gw/http_ingress.go`, `gw/openapi.go`), gRPC
(`gw/grpc_ingress.go`, `gw/internal/protocodec`), GraphQL (`gw/graphql_mirror.go`,
`gw/graphql_dispatcher.go`). No state; hard because a gateway may be the service
of another one, so that every translation meets the output of every other.

### gat

**Requests** (`gw/gat/gat.go`, `staging.go`, `export.go`, `parallel.go`,
`headers.go`, `attrs.go`, `gw/internal/gqlguard`): batches, stages that hand values
on, operations side by side, one answer with one set of headers, while the schema
is swapped. **Connect codec** (`gw/gat/connect_*.go`): a bound plan and a wire
emitter that stand in for the path through maps and JSON. **Pub/sub and peer
mesh** (`gw/gat/pubsub*.go`): subscriptions, and events forwarded to peers over
HTTP. **Streams** (`gw/gat/stream.go`, `sse.go`, `subscribe.go`): one handler
served over GraphQL, SSE and gRPC.

### How they interact

Ingress looks a service up in the schema and calls dispatch, past admission;
dispatch picks a replica of a slot and calls it over a connection that the control
plane or the reconciler keeps; the control plane writes the registry, stable,
deprecated and peers buckets, and each gateway's watch loops apply them to its own
slot index; subscriptions go through one of the two brokers and hold a slot.

## 2. Modules

| Module | Models | State and actions |
|---|---|---|
| `Registry` | `gw/slot.go` policy, `gw/stable.go` advance, `gw/schema.go` render | operators only: `Rejected`, `Join`, `RemoveReplicas`, `AdvanceStable`, `Render` |
| `ControlPlane` | `gw/control.go` standalone, `gw/deprecate.go`, `AddProto` | `slots` … `schema` are the gateway's maps; `regs`, `conns` the control plane's; `call` the `Register` that holds the mutexes; `stale` the janitor's list |
| `Membership` | what `Register` and `Deregister` promise | `live`: the keys a member is served under; a member comes and goes as a whole |
| `ControlClient` | `gw/controlclient`, composed with `ControlPlane` | `cst`, `rid` of each client; the calls and replies that get lost; `GatewayRestart` |
| `Reconciler` | `gw/control.go` in cluster mode, `gw/registry.go`, `gw/reconciler.go` | `kv` and `queue` the bucket and its watches; per gateway `slots`, `conns`; `beats`, `deletes` the KV writes made after the unlock |
| `StableAlias` | `gw/stable.go`, `RetractStable` | `kv`, `rev`, `queue`; per gateway `has`, `stable`, `served`; `writers` the write-back goroutines |
| `Peers` | `gw/peers.go`, `ForgetPeer` | `keys`, `queue`; per gateway `live`, `currentR`; `raising`, `forgetting` the two `setReplicas` calls |
| `SubBroker` | `gw/broker.go` | `subs`, `targets`, `subscribed`; `pc` of each consumer; `pub` the deliveries under way |
| `FailoverBus` | `gw/pubsub_bus.go`, extends `SubBroker` | `status` of NATS, `degraded`, `watcher`, the `nats` side of each subscription; `route` of each publish |
| `GraphQLSubBroker` | `gw/graphql_sub_broker.go` | `conn`, `fanouts`, `closing`; `open`, `reading` connections; `work` what each goroutine is in the middle of |
| `Dispatch` | `gw/upstream.go`, the dispatchers, `gw/backpressure.go` | `pool`, semaphores, `inflight`, `fails`, `until`; `call` the calls under way |
| `CallerIdentity`, `Quota`, `TokenExchange`, `Admission` | the three gates before a dispatch | one module per cache with its singleflight; `Admission` composes them in the order in which the middleware runs |
| `Sessions` | `gw/ws_limit.go`, `gw/graphql_handler.go`, the stream dispatchers, `Drain` | the limiter; `cpc` of connections and `spc` of streams; `holds`, `counted` their slots |
| `Uploads` | `gw/upload*.go` | `dir`, `meta`, `body` on disk; `patch` the requests; `evictor`, `resolver` |
| `ChannelAuth`, `AdminSurface` | authorization, MCP allowlist | rules, tokens, calls and events; token files, boots, revisions of the allowlist |
| `SchemaIR`, `OpenAPISchema`, `OpenAPIVersions`, `ProtoSchema`, `GraphQLSchema`, `MCPSchema` | `gw/ir` | operators: a document to an IR service and back |
| `HTTPRelay`, `GRPCRelay`, `GraphQLRelay` | ingress and dispatchers | operators: a call in one format to one in another, and its answer back |
| `Translate` | all of these | a service passes from gateway to gateway (`Hop`); the properties compare what comes out with what went in |
| `GatRequests` | requests of `gw/gat` | `snap` the schema, `cache` plans and stages, `requests` those under way; what a schema makes of a document, and the algorithms on data, are constants |
| `GatDocuments` | `staging.go`, `export.go`, `gqlguard.go` on documents and data | operators for these constants: `Analysis`, `Executed`, `CollectExports`, `MergeStageResults` |
| `ConnectCodec` | `gw/gat/connect_*.go` | one call at a time through both paths |
| `GatPubSub`, `GatStreams` | pub/sub, mesh, streams | subscriptions, queues, POSTs under way, breakers; goroutines of one stream and their channels |

`ControlPlane` and `Reconciler` extend `Registry`, so both apply the same join and
release. `MCPubSub`, `MCSessions`, `MCAdmission` and `MCGatRequests` give constants
their values and check components that share no state side by side: a behaviour
is one of one component (`part`). The other modules end with a small instance of
their own. `*Proofs` hold the proofs (section 4). `GatDocuments` is recursive, and
apart from `GatRequests` for that reason: the proofs are about `GatRequests`, for
any functions in the place of its algorithms that meet the assumptions there; the
run `gat` has the constants stand for the algorithms of `GatDocuments`.

Definitions whose comment starts with *Mutation* are plausible bugs. They are used
by no action: each shows that a property notices the bug it stands for, when it
replaces the definition below it (`mutants` in `PROJECT.json`).

### What a step is

A step is a critical section, or one call to a KV store, a socket, a file or an
atomic made outside of one. `Register` in `ControlPlane` holds both mutexes for its
whole loop; it is still one step per binding, so that its error paths are actions
of their own, and every other action that needs a mutex waits for it. `Heartbeat`
and `Deregister` in cluster mode are a step under `cp.mu` and then one per key.
Clocks are a `Tick`. Health counters in `Dispatch` are one step per atomic.

### The environment

*KV buckets.* History 1: the bucket keeps the last revision of every key,
deletes included. A watch replays it in revision order and then gets new
revisions; one that was overwritten before it was read may be dropped (`Skip`).
A key that runs into its TTL is observed as a delete, which is what the comment
at `gw/peers.go:267` relies on; that the server really sends a marker for it is
outside this repository. A KV call that returns an error may have landed. Watches
that break and are opened anew are modelled in `Reconciler`, `StableAlias` and
`AdminSurface`, not in `Peers`.

*NATS.* `FailoverBus`: there is no connection, or it drops, comes back or closes at
any time; its status events go through a channel that drops them when it is full;
an event that was sent while the connection dropped may be lost; a publish may fail
for another reason, which its caller is told; the bus may be closed. Nothing in the
gateway drains the connection, so the draining statuses do not occur.

*Upstreams and delegates.* In `Dispatch` an attempt may fail before or after it got
a transport stream; a replica may leave the pool at any time. In
`GraphQLSubBroker` the upstream may complete a subscription or break the connection
at any time. The delegates of `Admission` answer, deny or fail, within the timeout
of the call.

*Libraries.* gqlparser, the GraphQL executor, kin-openapi, protobuf reflection and
`encoding/json` are modelled from how the code uses them and marked external.

*Data.* In the registry a schema source is a record of kind, hash and caps; the
hash stands for the file, so channel patterns are a function of it, and two
patterns conflict when they are equal. In the translation modules a schema is a
tree of the constructs that the code tells apart; names and payloads are model
values.

## 3. Runs

Twelve runs, one for each question. A bound that a cfg sets is a constant whose
comment starts with *bound*.

| Run | Properties | Shows |
|---|---|---|
| `control_vn` | `SlotsBacked` `ConnRefsExact` `ServedSchemaFresh` `ChannelClaimsDisjoint` `AllOrNothing` `VersionLocked` | However a `Register` fails halfway, slots, connection references, channel claims and schema stay consistent; a vN slot keeps its schema; `ControlPlane` implements `Membership` |
| `control_client` | `OkMeansServed` `Recovers` `OrphansEvicted` | Through lost calls, lost replies, restarts and swaps: Ok means served, a service that stays up gets back in, what nobody holds goes |
| `reconciler` | `IndexMirrorsBucket` `GoneIsUnserved` | A gateway serves what the bucket holds, with exact connection counts, through failed puts, lost deletes, late heartbeats, expiry, a restart or a re-opened watch; what is gone is in the end not served |
| `stable` | `GatewaysFollowBucket` `AliasCatchesUp` | When everything is handled the gateway has the bucket's alias; a version that stays registered is in the end covered |
| `peers` | `LiveFollowsUp` `ReplicasCatchUp` | Gateways that stay up see each other, and their buckets get the replicas |
| `pubsub` | `OneSubscription` `PublishedOnce` `EventsOnce` `SubscriptionsWhole` | One bus subscription per subject, one transport per event, whatever NATS does; in gat's mesh no event twice or out of order, and one end per subscription |
| `graphql_sub` | `NoLostSocket` `TerminatedSeesEnd` | No upstream socket is lost, every consumer sees the end |
| `dispatch` | `SlotsExact` `DeliveredOnce` | Slots are accounted for; a request is delivered once, attempts are on new replicas |
| `gat` | `StagedAsOne` `ExportsSeen` `LimitsKept` `HeadersCombined` `PathsAgree` | A request run in stages, in parallel and beside a schema swap answers as if it were run alone; the codec's fast paths agree with the slow ones |
| `admission` | `StaleIdentityBounded` `PermitsAccounted` `AccessGuarded` `Settles` | Staleness is bounded, permits are accounted for, every request is answered; nobody gets past a channel rule, the admin token or the MCP allowlist |
| `sessions` | `CapsKept` `UploadIntact` `StreamFrames` `SlotsReturned` `StreamsEnd` | Places and slots are exact and come back; an upload is never mixed up; a stream's frames are the handler's, and a client that leaves frees everything |
| `translate` | `SchemasKept` `CallsKept` `Relayed` | Documents, calls and answers come out as they went in, through up to three further gateways and in every format |

### Bounds

**Control plane.** Two versions of one namespace, three registration ids, two
addresses, request lists with one and two bindings that join, lock, fail
validation and cannot be rendered, and a boot service. Three registrations are
the smallest number with two that share a slot or an address and a third that
fails or conflicts. TTL is 0: what is at stake is not time, and the janitor may
evict anything one tick old. Ids and addresses are symmetric.

**Control client.** Two services at addresses of their own that want the same
unstable slot and one vN each, five ids (each may have to register again twice),
two lost calls, replies or restarts. Ids are recycled once nobody holds them, so
that behaviours go on for ever.

**Reconciler.** One gateway is enough for what an index does with a bucket: one
registration with two bindings on one address, one late heartbeat, two restarts
or re-opened watches. `IndexMirrorsBucket` is checked where no registration is
refused: with a conflict the index lacks the refused replica by design. It is
proved for any number of gateways and registrations.

**Stable alias.** One gateway, two versions, three registrations, two attempts of a
write-back (ten in the code), a retract, a failing call and a restart.
`AliasCatchesUp` is about behaviours in which no call was given up and nothing
retracted: a write-back that fails ten times is only repeated by the next
registration. `GatewaysFollowBucket` is proved for any number of gateways.

**Peers.** Two gateways, of which one has been up for long, two buckets, two
failed updates, one stop, one lapsed key, one `ForgetPeer`.

**Brokers and buses.** `pubsub`: three consumers (one leaves, one joins, one
holds), channels of capacity 1, one failed subscribe, one lost connection, with a bus that
has a connection and one that has none; two
gat gateways that point at each other, queues and breaker of size 1, two events,
one of them too big for a peer. `graphql_sub`: three consumers, two operations,
two connections, one frame.

**Dispatch.** Three calls for two service slots and one slot per replica, so that
calls wait for both; two replicas, a third that joins and one that leaves; two
attempts (three in the code), so that there is a replica left when the attempts
are used up.

**Admission.** Four requests with two credentials, so that two share a lookup, a
bucket and an exchange; a clock of two ticks and lifetimes of one, so that every
entry may run out; blocks of 0, 1 and 3 permits, cut off at 2. Channels under
overlapping rules with a publisher and a subscriber; two gateways, one with a data
directory, two admin requests, and a writer beside the gateways that deletes the
configuration or leaves one that does not parse; types are asked for by operation
and by name, allowed or not.

**Sessions.** Two connections from one address, and one of them from a trusted
proxy; two streams, caps of 0 (off), 1 and 2 for each of the two semaphores; one tus handler with a file of three bytes in
chunks of two, three lost requests; six streaming operations that are refused (with a status
that each surface gives in its own terms), end or go on.

**gat.** Documents and scripts of requests that cover every kind of
staging, two clients, two schemas; for the codec every kind, cardinality and
shape that it tells apart.

**Translate.** Small documents, one per construct and those that meet in the code
(nullable, `oneOf`, boxes, lists of maps, streams, forms, name collisions, operations
with and without an operationId), three hops after the first gateway.

`CHECK_DEADLOCK FALSE` is set where the bounds let a model come to its end (every
consumer has left, every call is done); `control_vn` checks deadlock.

### Fairness

`ControlClient`: the clock and the janitor's ticker run, a `Register` that holds
the mutexes ends, clients beat and re-register. The beat and the janitor are
strongly fair: both need a mutex that other calls hold again and again, and a
`sync.Mutex` is in the end handed to whoever waits. `Reconciler`: watches deliver,
calls end, and a key that no home gateway refreshes any more expires; nothing
makes a heartbeat happen or a delete arrive. `StableAlias`: goroutines run and
watches deliver. `Peers`: the same, and the refresh ticker keeps firing (strong
fairness, since the bound on a watch's backlog disables the refresh now and then).
`Admission`: requests go on, delegates answer or time out. `AdminSurface`: watches
deliver. `Sessions`: goroutines run and a context that ended is noticed; nothing
makes a client leave. `GatStreams`: the goroutines of the server run and handlers
return once their context ends; a client never has to do anything.

### What the code does that a comment or document does not say

While modelling, the following came up. Where a property is named, it is in the
module, and TLC finds a counterexample to it that the code can follow; the passing
runs leave these behaviours aside.

| Property, module | Said at | What happens |
|---|---|---|
| `JanitorEvictsOnlyStale`, `ControlPlane` | `gw/control.go:911`: "janitor evicts registrations whose last heartbeat is older than TTL." | The stale ids are listed under cp.mu; Deregister is called for each after the unlock without looking at lastBeatMs again. |
| `DeprecationStamped`, `ControlPlane` | `gw/deprecate.go:43`: "registerSlotLocked reads `g.deprecation` and stamps the prior reason on the new slot before bake" | The fresh-slot branch does; the slot an unstable swap installs is made without a reason. |
| `RejectedSwapKeepsPrior`, `ControlPlane` | `gw/slot.go:197`: "so a rejected swap leaves the prior slot intact" | The prior unstable slot is evicted before the document is parsed; when that fails, it is gone. |
| `OkMeansServedUnstable`, `LockedOut`, `ControlClient` | | A registration that was swapped out of the unstable slot keeps heartbeating Ok; a service whose vN is taken by another schema retries for ever. |
| `GatewaysAgree`, `Reconciler` | `docs/lifecycle.md:162`: "Per-cluster drift is prevented by the canonical hash gate in the pool" | Every gateway applies the gate to its own index in the order it sees the keys; after a restart two gateways may keep different schemas. |
| `ConnRefsExact` with swaps, `Reconciler` | `gw/slot.go:206`: "conn refcounts […] decrement on the same path." | The reconciler releases a connection only for a replica it still finds; one that was swapped away leaks its reference. |
| `AliasNeverBack`, `StableAlias` | `gw/stable.go:31`: "Monotonic — only advances." | A gateway that has just created v2 and handles the update that carries v1 goes back until its own write-back comes round. |
| `RetractHolds`, `StableAlias` | `gw/stable.go:183`: "retract is idempotent on the KV until the next register lands" | A restarted gateway starts from no alias and writes back what the retract had lowered. |
| `ServedAliasFresh`, `StableAlias` | `gw/control.go:793`: "every peer's stableWatchLoop reflects it back into local state and rebuilds" | A change in the replay of a re-opened watch is stored without a rebuild. |
| `ReplicasNeverLowered`, `ShortfallNoticed`, `Peers` | `gw/peers.go:303`: "Strictly monotonic — never lowers" | A restarted gateway compares with its own count, which starts at 1; with three gateways it lowers the buckets, with four they may stay low. |
| `ConsumerSubscribed`, `NoSendOnClosed`, `SubBroker` | `gw/broker.go:20`, `gw/gat/bus.go:28`: "fn may still be called briefly after unsubscribe returns" | A consumer between the two locks of acquire gets no events; deliver sends on a channel that a release has closed. |
| `ReaderFailsOwnConn`, `ConsumerReachable`, `MixedEndpointsRedial`, `NoSendOnClosed`, `GraphQLSubBroker` | `gw/graphql_sub_broker.go:23`, `:178`, `:89`, `:41` | The reader of a closed socket tears down the connection that was dialed after it; a consumer between the locks is left on a removed fanout; a second endpoint shares the first one's connection; the fanout sends on a closed channel. |
| `StreakEjects`, `Dispatch` | `gw/upstream.go:24`: "a replica with ejectAfter consecutive failures is skipped for ejectFor" | success() stores two atomics; failures between the two have their ejection cleared. |
| `TimeoutCoversCallOnly`, `Dispatch` | `docs/operations.md:68`: "The timeout covers the upstream call only, not the wait for a backpressure slot" | The timeout starts before the wait for the instance slot. |
| `FullIsComplete`, `OpenedIsWhole` under overlap or crash, `Uploads` | | Two appends that overlap, or a crash between the two writes, leave a body that differs from what was sent. |
| `RevokedIsGone`, `CallerIdentity`; `FailOpenAdmits`, `Quota`; `ChargedToAdmitted`, `Admission` | | A lookup under way when TokenRevoked arrives is stored after it; a request may be refused though the quota fails open; a request that is refused later was charged. |
| `DrainCancelsAll`, `CompleteReaches`, `EndedHoldsNoSlot`, `Sessions` | | An upgrade that passed the drain check late is not cancelled; the end of a replaced subscription drops the new one's cancel; a stream that ended holds its slots until its context does. |
| `NoneStuck`, `DisabledCapHarmless`, `Sessions` | `gw/gateway.go:628`: "0 disables" | With the cap per pool off its semaphore is nil. `rollbackSlots` (`gw/proto_direct_subscription_dispatcher.go:95`) receives from it first and blocks for ever: a caller whose open failed gets no answer, and with a total cap set the global slot is never given back. The goroutine at `:167`, which releases the slots of a stream whose context ended, blocks in the same place. |
| `EveryResultGated`, `AdminSurface` | `gw/mcp_tools.go:17`: "the operator-curated allowlist gates every result" | The first pass of `mcpSchemaExpand` does; the second looks a type up by name over all services (`:461`) and shows it, with its closure, whether or not an allowed operation leads to it. |
| `ServedAsGRPC`, `Translate` | `docs/operations.md:140`: "serves every registered service as gRPC" | An operation without an operationId is named by its method and path (`gw/ir/ingest_openapi.go:860`), which `gw/ir/render_proto.go:150` makes a method name. protobuf refuses the file, and `gw/grpc_ingress.go:227` goes on without a route for any operation of the service. |
| `ServedAsGraphQL`, `Translate` | `gw/ir/ingest_openapi.go:371`: "keep OpenAPI parameters whose names can't be represented as GraphQL args […] off the GraphQL surface instead of panicking the schema build" | Names of parameters are looked at, those of operations and components are not. The name of an operation without an operationId is a field name too, and `graphql.NewSchema` refuses the whole schema; so it does for a component whose name has a dot, as in the document that a gateway serves of a proto service. |
| `PublisherSurvives`, `GatPubSub` | `gw/gat/pubsub.go`, `closeAll` | A Publish over the mesh that meets Close sends on a closed queue and panics. |

Further observations, without a property of their own:

* *Authorization and MCP.* Each gateway serves its own seed until the first edit.
  An edit whose write landed and whose answer was lost is applied again. A crash between creating and writing the admin token file leaves
  an empty file that every later boot refuses. Overlapping but different binding
  patterns give a payload type that depends on map order. Tokens with a key id never
  verify for channels.
* *gat pub/sub and streams.* Two publishers at a full queue may drop the newest
  event, where the comment says the oldest. A POST that timed out and is served
  later arrives out of order. An oversized event counts as a breaker failure. A
  Subscribe that overlaps Close survives it. A panic of a stream handler over
  GraphQL is not recovered.
* *Connect codec.* The bound plan checks integer overflow where the map path wraps;
  promoted fields of embedded structs and base64 bytes are bound by the plan only;
  nil elements of a list, `-0.0`, `float32` overflow and invalid UTF-8 differ
  between the wire emitter and JSON. `connect_bind.go` says that the plan refuses
  what it cannot bind identically.
* *GraphQL relay.* An aliased root leaf is answered null; only the first of merged
  selections is forwarded; fragment spreads go without their definitions;
  `__typename` of an older version keeps a wrong prefix, an aliased one leaks the
  upstream name.
* *gat requests.* A failing operation that was never bound does not take part in the
  cache headers; exporters of one name in different stages overwrite each other,
  where `export.go` says the name yields a list; a null container from one stage
  overwrites another's data; `ParallelQueries` admits one more in place.
* *HTTP and gRPC.* Templated routes are never sorted, though their comment says so.
  `gw/http_ingress.go:260` looks for a stream in the raw operation, so that one of a
  3.0 or 3.1 document is served as unary. Header parameters and path-level
  parameters are not sent upstream. Integers in a JSON POST to a proto service are
  refused (`json.Number`). A status of 499 or 504 drifts over gRPC.
* *Schemas.* What `ServedAsGRPC` and `ServedAsGraphQL` lose is lost silently: the rest
  of `translate` is about the services whose file and schema are accepted. Query and mutation fields of one name collide in protobuf; a list of
  maps becomes a map; a JSON array body loses its list; a `oneOf` with null inline
  loses the null; 3.1 to 3.0 and back is not lossless when an enum lacks the null
  that its type lists. The gateway's LRU of caller limits never evicts;
  subscription dispatchers are not wrapped by the quota middleware.

## 4. Proofs

TLAPS checks the proofs below from the definitions that TLC runs: for every value
of the constants, under the named assumptions of the modules, which TLC evaluates
on the instances of the runs, and nothing else unless it is said here. Each
invariant was given to TLC first, on the run of its component. The inductive
invariant is the part that a reader should look at: it says why the code is right.

**`ControlPlaneProofs`** (`ControlPlane`, `Membership`, `ControlClient`).

* `TypeCorrect`, `SlotsBackedHolds`, `ChannelClaimsDisjointHolds` and the action
  property `VersionLockedHolds` rest on what `Join`, `RemoveReplicas` and the
  rollback do to an index (`JoinType`, `JoinBacked`, `RemoveBacked` and their kin):
  a replica in a slot belongs to a boot service, a registration or the `Register`
  under way, and no step takes the owner away before the replica.
* `ConnRefsExactHolds`: a connection's count is the number of registrations at its
  address plus that of the call under way. The count is kept by both the success
  and every error path, so the invariant also says what the call has taken so far.
* `ReplicaConnOpenHolds`, from it: whoever has a proto replica in a slot is among
  those that are counted at its address (`ProtoIn` over `HeldPairs`), and a
  `Register` with a proto binding left holds its own address (`CallConn`).
* `BootServiceStaysHolds` and `StableLoweredToLiveHolds`, action properties: a vN slot
  keeps its boot service, and only `RetractStable` lowers the alias.
* `ServedSchemaFreshHolds` assumes that no boot service is unrenderable
  (`BootSpecs \cap Unbuildable = {}`: the gateway fails at start otherwise) and that
  no invalid source can be swapped into the unstable slot; the second is what goes
  wrong at `gw/openapi.go:462` (`RejectedSwapKeepsPrior` in section 3).
* `AllOrNothingHolds`: every step of the control plane is a step of `Membership` or
  leaves its state alone. `LoopInv` says that what a `Register` has joined and
  what it still has to join make up its request, and `IdsFresh` that its id has no
  registration yet.
* `OkMeansServedHolds` is about the composition with the clients, `CSpec`. `CInv` is
  `ClientData /\ OneCaller /\ RidsIssued /\ CallIdNew /\ KnownServed`: the client
  that waits is the one whose call is under way, each of its vN keys is served for
  the call or is still to be joined, and an id that the gateway knows is served
  under every vN key of the client that holds it. `Keeps` states of every step of
  the control plane that it takes no vN key from anybody else.
* `SafeUnderClients`, `WholeUnderClients`, `FreshUnderClients`: `SlotsBacked`,
  `ConnRefsExact`, `ReplicaConnOpen`, `ChannelClaimsDisjoint` and `ServedSchemaFresh`
  (under its two hypotheses) hold in `CSpec` too, where the gateway restarts under its
  clients and ids are drawn again; and every step of `CSpec` is one of `Membership` or
  that restart, which no abstract step stands for since everybody leaves at once.
  `Kept` joins the invariants above; a restart meets it because it empties the
  index, the registrations and the connections together, and `Recycle` because it
  spares every id that somebody holds.

**`ReconcilerProofs`**. `IndexMirrorsBucketHolds` and `ReconcilerTypes`, for any
number of gateways, restarts, expiries and broken watches. `RInv` is `CallData /\
BucketData /\ IndexData /\ Once(kv) /\ QueuedIsKept /\ Mirrored`: for every gateway
and key, either no event for the key is queued and the index agrees with the
bucket, or the last one that is queued carries what the bucket holds. The
bucket has one revision per key, and a key without a revision has no event. Both
assume `Acceptable`, that the hash gate refuses nobody (one schema per key,
disjoint channels, allowed tiers, sources that render): a replica that a gateway
refuses stays in the bucket and is not served, by design.

**`StableAliasProofs`**. `TypeCorrect`; `GatewaysFollowBucketHolds`, for any number
of gateways where the run has one; the action property
`BucketLoweredByRetractHolds`. The invariant has `QueueEndsWithBucket` (the last
event of a watch carries the bucket's value), `CasRaises` (a write-back that will
succeed raises the value it read) and `CaughtUp` (while no call failed, a gateway
whose watch holds no value has the bucket's, or is about to put its own).

**`PubSubProofs`** (`SubBroker`, `FailoverBus`, `GatPubSub`).

* `TypeCorrect`, `OneSubscriptionHolds`, and `OneSubscriptionOnBus` over the bus. With
  `FanoutKnown` an acquire that has started knows its fanout; `MadeByAcquires`
  bounds fanouts by acquires.
* `PublishedOnceHolds`: `NatsSides` says that every open subscription has its NATS
  side until NATS is closed, `OwedSubscribed` that what is owed an event is
  subscribed, `NotYet` that nobody gets one before publish has chosen its way.
* `SubscriptionsWholeHolds`: `WholeInv` is `PubSubData /\ HeldAtHome /\ OneOwner /\
  StuckOverflowed /\ NothingMissed`. The closer of a channel is always one of cancel
  and `closeAll`.
* `EventsOnceHolds`: `OnceInv` adds `OneHop` (an event is never forwarded twice),
  `Covered` (what a client gets, its token covers) and `OrderInv`, by which the
  sequence numbers along queue, POST and subscription rise, except behind a POST
  that timed out. Assumed: a bus publisher is not one of the mesh's own links
  (`BusPublishers \cap (Nodes \X Nodes) = {}`), which is how `MCPubSub` names them.

**`GraphQLSubBrokerProofs`**. `TypeCorrect`, `NoLostSocketHolds`,
`TerminatedSeesEndHolds`, `FanoutsOnConnHolds`. A goroutine has a connection in its hands only
on the way to closing it (`ConnHeldToClose`), and a consumer that is on is a target
of a fanout that is not terminated, or has its channel closed (`OnIsTarget`).

**`DispatchProofs`**. `TypeCorrect`, `SlotsExactHolds`, `DeliveredOnceHolds`. Every
semaphore is the set of calls that are at a place in the code where they hold it;
the counts follow from the cardinality of those sets as one call moves.

The second half is about the requests of gat, `GatRequests`: `LimitsKeptHolds`,
`ExportsSeenHolds` and `HeadersCombinedHolds`, for any clients, schemas, documents,
operations, requests and limits.

* The assumptions say what a document is once it passed the validation
  (`AnalysisAssumption`: no more than `MaxOps` operations, each under a path of its
  own, and stages in which no exporter is at or behind a reader, which is how the
  rounds of `planStages` end), what requests are sent (`SentAssumption`: a GET is no
  batch, an item names a document that is known) and what headers an operation sets
  (`OperationsAssumption`). TLC evaluates them in `gat`, on what the algorithms of
  `GatDocuments` make of the documents there; that they hold of every document
  is an induction over selections and is not proved. Fields that share a response
  key are left out by the first of them.
* `GatInv` says of every request under way: the plans it got so far and those of
  the batch to come stay within `MaxOps`, with what each is worth counted by the
  schema the request met (`Budgeted`, `CachesOK`); calls are of operations that the
  plans have, each at most once (`Recorded`); what is merged so far is no looser
  than the header of any call that ended (`Headed`, by the lemmas on `Restricted` and
  `Observe`); the gate counts the goroutines (`Gated`); whoever waits for the
  attribute waits for a call that fills it (`Attributed`).
* `Staging` is what `ExportsSeen` needs: `Past`, the units of earlier stages are over;
  `Called`, those of this stage were called, are running or are still to be called,
  and no others; `Given`, calls saw the client's own values. An exporter is in an
  earlier stage than its reader, so it is over.
* The caches are the reason for `CachesOK`: an entry is of the schema that its cache
  is for, also when a request that planned by an old schema stores it late.

**`AdmissionProofs`** (`CallerIdentity`, `Quota`, `TokenExchange`, `ChannelAuth`,
`AdminSurface`, and their composition in `MCAdmission`).

* `StaleIdentityBoundedHolds`, `PermitsAccountedHolds`, `CachedTokensGoodHolds`, with
  `IInv == IdInv /\ QuotaInv /\ ExchangeInv`, one part per cache: an answer under way
  is as old as its call, and an entry as old as the answer; a permit is granted,
  in a block, spent or lapsed.
* `ChannelsGuardedHolds`: the lemma `TierCovers` says that the tier a pattern is
  given is at least that of every channel it may match. `GlobsDenote` says that
  `globMatchSegments` computes what a glob means, for all patterns and paths; the
  induction over the length goes by a least counterexample (`LeastExists`), since
  the induction theorems of the library cannot be instantiated.
* `AdminGuardedHolds`: `AdminInv` is `AdminData /\ TokenInv /\ EditsKept /\ VisitOk`. An
  edit's compare and set succeeds only on the revision it read, which has all the
  edits before it, unless somebody deleted the configuration. `ToolsAllowed` says of
  both passes of `mcpSchemaExpand` what they show: of operations only those that the
  allowlist permits, and of types those that an operation or the name which was
  asked for leads to. That a type needs an allowed operation is `EveryResultGated`,
  which does not hold (section 3).
* `AccessGuardedHolds` puts these together over the specification of the run,
  `Either`.

**`SessionsProofs`** (`Sessions`, `Uploads`, `GatStreams`).

* `LimiterExactHolds`, `SlotsOwnedHolds`, and `CapsKeptHolds` from both. The bound on
  the rate is inductive when it is stated up to the last refill instead of now
  (`RateKept`); `HeldAsPlaced` says what a stream holds at each place in the code,
  the global slot behind a receive that blocks for ever included, `GlobalKept` and
  `PoolKept` that the semaphores are the sum. `SlotsOwned`, and with it `CapsKept`, say
  that what is held belongs to a stream that still has to give it back or is
  `Stranded`: a proto stream over whose pool has no cap, while there is a total one
  (`DisabledCapHarmless` in section 3). The proof is for every combination of caps,
  and `HeldAsPlaced` shows that nothing else is ever stranded.
* `UploadIntactHolds`: `OneBusy` (one request at a time, as a tus client sends them),
  `BodyAsWritten` (between requests the body is the file up to the recorded offset,
  and while one is written the file a little further), `OffsetFits` and
  `OpenedAsStored`. It is about `Up!Spec`, in which requests break off and answers
  get lost; crashes between the two writes and appends that overlap are further
  actions of `Uploads` that `Up!Spec` leaves out, and with them it does not hold
  (`FullIsComplete`, `OpenedIsWhole` in section 3).
* `StreamFramesHolds`: `StreamInv` is `StreamData /\ HandedOn /\ EndsTold /\ NoneLost /\
  RunsToEnd /\ SameSource`. Frames in the channels, in order, are what the handler
  has sent and the client has not got; there is one log of what a handler gets out
  that the GraphQL and the gRPC run share, from which their agreement follows.

## 5. What is only model-checked, and what is not modelled

*Liveness* (`Recovers`, `OrphansEvicted`, `GoneIsUnserved`, `AliasCatchesUp`,
`LiveFollowsUp`, `ReplicasCatchUp`, `Settles`, `SlotsReturned`, `StreamsEnd`) is
checked by TLC only: fairness and ENABLED are out of the prover's reach. `Peers` has
no safety property that holds (section 3), so nothing is proved of it.

*Algorithms on documents.* `StagedAsOne`, `PathsAgree`, `SchemasKept`, `CallsKept` and
`Relayed` are checked by TLC only. They are about what `GatDocuments`, `ConnectCodec`
and the modules of `Translate` compute along recursive schemas, messages and
selections, with `RECURSIVE` operators, which the prover does not handle; what such
an operator computes for every input needs an induction over data.

*The hash gate against conflicts.* `IndexMirrorsBucket` is proved where nobody is
refused; what a refused replica does to a gateway's index is in `Reconciler` and
is the subject of `GatewaysAgree` in section 3.

*Not modelled.* The gRPC connection pool, and the embedded NATS cluster: calls into
libraries, without a decision of their own. Observability, the UI and the command
line: no state that a service depends on. Generated code, benchmarks, examples.
Injection and transforms of schemas, and registration by reflection: what they
produce enters the models as a schema. The deprecated bucket, which is a value, a
put and a watch; `ControlPlane` has the value. Watches of `Peers` that are opened
anew (`gw/peers.go:269`), see the hazards.

## 6. Order of the work

Most important behaviour first.

1. Slot index and control plane with `Membership`; the cluster's reconciler and
   alias; brokers and dispatch.
2. Admission, sessions, uploads, authorization, gat's requests, pub/sub and streams.
3. IR, ingress and relay, composed as a chain of gateways.
4. Theorems: every safety property that a run checks of a state machine, and the
   refinement of `Membership`.

Left for whoever goes on: `Peers` with watches that are opened anew; the assumption
on the stages in `GatRequests` as a theorem about `planStages`.
