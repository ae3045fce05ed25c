------------------------------ MODULE Sessions ------------------------------
(***************************************************************************)
(* Subscription sessions: a WebSocket upgrade passes the per-IP limiter    *)
(* (gw/ws_limit.go) and the draining check and is registered for Drain     *)
(* (gw/graphql_handler.go, gw/health.go); a graphql-transport-ws           *)
(* connection (gw/gat/graphql_ws.go) multiplexes subscriptions by id; each *)
(* one takes stream slots and opens an upstream stream                     *)
(* (gw/proto_direct_subscription_dispatcher.go,                            *)
(* gw/openapi_stream_dispatcher.go).                                       *)
(***************************************************************************)
EXTENDS Naturals, FiniteSets

CONSTANTS
    Conns, IPs,            \* connections and addresses
    Deployments,           \* where the connections come from, and the stream caps
    Ids, KindOf,           \* subscription ids; the upstream an id's query goes to
    Streams,               \* the subscriptions that may be started, numbered
    NoStream,              \* no stream
    Trusted,               \* addresses the limiter lets by
    MaxPerIP, Burst, Rate, \* WSLimitOptions
    MaxTime                \* bound: ticks of the limiter's clock

Kinds == {"proto", "openapi"}

ASSUME SessionsAssumption ==
    /\ Deployments \subseteq [ip: [Conns -> IPs], MaxStreamsTotal: Nat, MaxStreams: Nat]
    /\ KindOf \in [Ids -> Kinds] /\ Trusted \subseteq IPs
    /\ {MaxPerIP, Burst, Rate, MaxTime} \subseteq Nat
    /\ MaxPerIP > 0 /\ Burst > 0 /\ Rate > 0
    /\ Streams \subseteq Nat /\ NoStream \notin Streams
    /\ IsFiniteSet(Conns) /\ IsFiniteSet(Streams) /\ Conns # {} /\ Ids # {}

VARIABLES
    dep,                        \* the deployment
    now, tokens, last, counts,  \* wsLimiter: clock, per IP the bucket and the count
    admitted,                   \* history: upgrades that took a token, per IP
    draining, drain,            \* g.draining; where Drain is
    wsConns,                    \* g.wsConns
    cpc, cancelled,             \* per connection: where it is, its context ended
    subs,                       \* per connection and id: the stream whose cancel is kept
    spc,                        \* per stream: where its goroutine is
    of, id, done,               \* per stream: its connection, its id, its context ended
    holds, counted              \* per stream: semaphores held; in streamInflight

MaxStreamsTotal == dep.MaxStreamsTotal  \* capacity of streamGlobalSem; 0 is no semaphore
MaxStreams == dep.MaxStreams            \* capacity of each pool's streamSem; 0 is none

limiterVars == <<now, tokens, last, counts, admitted>>
drainVars == <<draining, drain>>
connVars == <<wsConns, cpc, cancelled>>
streamVars == <<subs, spc, of, id, done, holds, counted>>
vars == <<dep, limiterVars, drainVars, connVars, streamVars>>

Init ==
    /\ dep \in Deployments
    /\ now = 0 /\ tokens = [p \in IPs |-> Burst] /\ last = [p \in IPs |-> 0]
    /\ counts = [p \in IPs |-> 0] /\ admitted = [p \in IPs |-> 0]
    /\ draining = FALSE /\ drain = "no"
    /\ wsConns = {}
    /\ cpc = [c \in Conns |-> "idle"] /\ cancelled = [c \in Conns |-> FALSE]
    /\ subs = [c \in Conns |-> [i \in Ids |-> NoStream]]
    /\ spc = [s \in Streams |-> "unused"]
    /\ of = [s \in Streams |-> CHOOSE c \in Conns : TRUE]
    /\ id = [s \in Streams |-> CHOOSE i \in Ids : TRUE]
    /\ done = [s \in Streams |-> FALSE]
    /\ holds = [s \in Streams |-> {}] /\ counted = [s \in Streams |-> FALSE]

TypeOK ==
    /\ dep \in Deployments
    /\ now \in 0..MaxTime /\ tokens \in [IPs -> 0..Burst] /\ last \in [IPs -> 0..MaxTime]
    /\ counts \in [IPs -> Nat] /\ admitted \in [IPs -> Nat]
    /\ draining \in BOOLEAN /\ drain \in {"no", "snapshot", "waiting", "returned"}
    /\ wsConns \subseteq Conns
    /\ cpc \in [Conns -> {"idle", "acquired", "passed", "init", "ready", "closed"}]
    /\ cancelled \in [Conns -> BOOLEAN]
    /\ subs \in [Conns -> [Ids -> Streams \cup {NoStream}]]
    /\ spc \in [Streams -> {"unused", "start", "global", "opening", "open", "eof", "stuck", "over"}]
    /\ of \in [Streams -> Conns] /\ id \in [Streams -> Ids] /\ done \in [Streams -> BOOLEAN]
    /\ holds \in [Streams -> SUBSET {"global", "pool"}] /\ counted \in [Streams -> BOOLEAN]

-----------------------------------------------------------------------------
(* The limiter. *)

Capped(n) == IF n > Burst THEN Burst ELSE n
Limited(p) == p \notin Trusted
Move(c, to) == cpc' = [cpc EXCEPT ![c] = to]

\* What the bucket holds once it is refilled for the time since the last upgrade.
Refilled(p) == Capped(tokens[p] + (now - last[p]) * Rate)

\* acquire: the rate first; over the count the token is given back.
Acquire(c) ==
    LET p == dep.ip[c]
    IN  /\ cpc[c] = "idle"
        /\ \/ /\ ~Limited(p)
              /\ Move(c, "acquired")
              /\ UNCHANGED <<tokens, last, counts, admitted>>
           \/ /\ Limited(p) /\ Refilled(p) = 0
              /\ Move(c, "closed")
              /\ last' = [last EXCEPT ![p] = now]
              /\ UNCHANGED <<tokens, counts, admitted>>
           \/ /\ Limited(p) /\ Refilled(p) > 0 /\ counts[p] >= MaxPerIP
              /\ Move(c, "closed")
              /\ tokens' = [tokens EXCEPT ![p] = Refilled(p)]
              /\ last' = [last EXCEPT ![p] = now]
              /\ UNCHANGED <<counts, admitted>>
           \/ /\ Limited(p) /\ Refilled(p) > 0 /\ counts[p] < MaxPerIP
              /\ Move(c, "acquired")
              /\ tokens' = [tokens EXCEPT ![p] = Refilled(p) - 1]
              /\ last' = [last EXCEPT ![p] = now]
              /\ counts' = [counts EXCEPT ![p] = @ + 1]
              /\ admitted' = [admitted EXCEPT ![p] = @ + 1]
        /\ UNCHANGED <<dep, now, drainVars, wsConns, cancelled, streamVars>>

\* release.
Released(c) == IF Limited(dep.ip[c]) THEN [counts EXCEPT ![dep.ip[c]] = @ - 1] ELSE counts

Tick ==
    /\ now < MaxTime
    /\ now' = now + 1
    /\ UNCHANGED <<dep, tokens, last, counts, admitted, drainVars, connVars, streamVars>>

-----------------------------------------------------------------------------
(* The upgrade and Drain. *)

\* Mutation: a refused upgrade keeps its place in the count.
CheckDrainingKeeps(c) ==
    /\ cpc[c] = "acquired"
    /\ Move(c, IF draining THEN "closed" ELSE "passed")
    /\ UNCHANGED <<dep, limiterVars, drainVars, wsConns, cancelled, streamVars>>

\* graphqlWSUpgrade: refused while draining ...
CheckDraining(c) ==
    /\ cpc[c] = "acquired"
    /\ \/ draining /\ Move(c, "closed") /\ counts' = Released(c)
       \/ ~draining /\ Move(c, "passed") /\ UNCHANGED counts
    /\ UNCHANGED <<dep, now, tokens, last, admitted, drainVars, wsConns, cancelled, streamVars>>

\* ... and registered so that Drain finds it.
RegisterConn(c) ==
    /\ cpc[c] = "passed"
    /\ Move(c, "init")
    /\ wsConns' = wsConns \cup {c}
    /\ UNCHANGED <<dep, limiterVars, drainVars, cancelled, streamVars>>

\* serveGraphQLWS: connection_init and its ack.
ConnInit(c) ==
    /\ cpc[c] = "init" /\ ~cancelled[c]
    /\ Move(c, "ready")
    /\ UNCHANGED <<dep, limiterVars, drainVars, wsConns, cancelled, streamVars>>

OfConn(c) == {s \in Streams : spc[s] # "unused" /\ of[s] = c}
Cancel(S) == done' = [s \in Streams |-> done[s] \/ s \in S]

\* The read loop returns: the client went away, sent no init, or the context
\* was cancelled.  The deferred calls end every subscription and the
\* registration.
ConnEnds(c) ==
    /\ cpc[c] \in {"init", "ready"}
    /\ Move(c, "closed")
    /\ cancelled' = [cancelled EXCEPT ![c] = TRUE]
    /\ Cancel(OfConn(c))
    /\ wsConns' = wsConns \ {c}
    /\ counts' = Released(c)
    /\ UNCHANGED <<dep, now, tokens, last, admitted, drainVars, subs, spc, of, id, holds, counted>>

\* Drain: the flag ...
StartDrain ==
    /\ ~draining
    /\ draining' = TRUE /\ drain' = "snapshot"
    /\ UNCHANGED <<dep, limiterVars, connVars, streamVars>>

\* ... the cancels of the registered connections ...
DrainCancels ==
    /\ drain = "snapshot"
    /\ drain' = "waiting"
    /\ cancelled' = [c \in Conns |-> cancelled[c] \/ c \in wsConns]
    /\ Cancel(UNION {OfConn(c) : c \in wsConns})
    /\ UNCHANGED <<dep, limiterVars, draining, wsConns, cpc, subs, spc, of, id, holds, counted>>

\* ... and the wait for streamGlobal to reach zero, or for its own context.
DrainReturns ==
    /\ drain = "waiting"
    /\ drain' = "returned"
    /\ UNCHANGED <<dep, limiterVars, draining, connVars, streamVars>>

-----------------------------------------------------------------------------
(* Subscriptions of a connection. *)

\* subscribe: an id that is in use is cancelled and replaced.
Subscribe(c, i, s) ==
    /\ cpc[c] = "ready" /\ ~cancelled[c]
    /\ spc[s] = "unused" /\ \A u \in Streams : spc[u] = "unused" => s <= u
    /\ Cancel({subs[c][i]})
    /\ subs' = [subs EXCEPT ![c][i] = s]
    /\ spc' = [spc EXCEPT ![s] = "start"]
    /\ of' = [of EXCEPT ![s] = c] /\ id' = [id EXCEPT ![s] = i]
    /\ UNCHANGED <<dep, limiterVars, drainVars, connVars, holds, counted>>

\* complete: the id's cancel is called and forgotten.
Complete(c, i) ==
    /\ cpc[c] = "ready" /\ ~cancelled[c]
    /\ Cancel({subs[c][i]})
    /\ subs' = [subs EXCEPT ![c][i] = NoStream]
    /\ UNCHANGED <<dep, limiterVars, drainVars, connVars, spc, of, id, holds, counted>>

\* runGraphQLSubscription returns; its cleanup deletes what the id maps to.
Cleanup(s) == subs' = [subs EXCEPT ![of[s]][id[s]] = NoStream]

-----------------------------------------------------------------------------
(* Stream slots and the upstream stream. *)

Pool(s) == KindOf[id[s]]
GlobalUsed == Cardinality({s \in Streams : "global" \in holds[s]})
PoolUsed(k) == Cardinality({s \in Streams : "pool" \in holds[s] /\ Pool(s) = k})
streamGlobal == Cardinality({s \in Streams : counted[s]})

Full(cap, used) == cap > 0 /\ used >= cap

\* The subscription ends with an error frame.
Fail(s) == spc' = [spc EXCEPT ![s] = "over"] /\ Cleanup(s)

\* Try-acquire: the global semaphore ...
TakeGlobal(s) ==
    /\ spc[s] = "start"
    /\ \/ Full(MaxStreamsTotal, GlobalUsed) /\ Fail(s) /\ UNCHANGED holds
       \/ /\ ~Full(MaxStreamsTotal, GlobalUsed)
          /\ spc' = [spc EXCEPT ![s] = "global"]
          /\ holds' = [holds EXCEPT ![s] = IF MaxStreamsTotal > 0 THEN {"global"} ELSE {}]
          /\ UNCHANGED subs
    /\ UNCHANGED <<dep, limiterVars, drainVars, connVars, of, id, done, counted>>

\* Giving slots back, the pool's first: the proto dispatcher also receives from a
\* semaphore that does not exist, which blocks it there for good, with the
\* global slot if the pool's is the one.
Blocks(s) == Pool(s) = "proto" /\ (MaxStreams = 0 \/ MaxStreamsTotal = 0)
Unreturned(s) == IF Pool(s) = "proto" /\ MaxStreams = 0 THEN holds[s] ELSE {}

\* rollbackSlots in the subscription's own goroutine.
Rollback(s) ==
    /\ holds' = [holds EXCEPT ![s] = Unreturned(s)]
    /\ IF Blocks(s) THEN spc' = [spc EXCEPT ![s] = "stuck"] /\ UNCHANGED subs
       ELSE Fail(s)

\* ... then the pool's; the global slot goes back if that is full.
TakePool(s) ==
    /\ spc[s] = "global"
    /\ \/ Full(MaxStreams, PoolUsed(Pool(s))) /\ Rollback(s)
       \/ /\ ~Full(MaxStreams, PoolUsed(Pool(s)))
          /\ spc' = [spc EXCEPT ![s] = "opening"]
          /\ holds' = [holds EXCEPT ![s] = IF MaxStreams > 0 THEN @ \cup {"pool"} ELSE @]
          /\ UNCHANGED subs
    /\ UNCHANGED <<dep, limiterVars, drainVars, connVars, of, id, done, counted>>

\* No replica, a bad argument, an injector's or the upstream's error, a timeout,
\* a context that ended.
OpenFails(s) ==
    /\ spc[s] = "opening"
    /\ Rollback(s)
    /\ UNCHANGED <<dep, limiterVars, drainVars, connVars, of, id, done, counted>>

OpenSucceeds(s) ==
    /\ spc[s] = "opening" /\ ~done[s]
    /\ spc' = [spc EXCEPT ![s] = "open"]
    /\ counted' = [counted EXCEPT ![s] = TRUE]
    /\ UNCHANGED <<dep, limiterVars, drainVars, connVars, subs, of, id, done, holds>>

\* The counters first, then the slots.
GiveBack(s) ==
    /\ counted' = [counted EXCEPT ![s] = FALSE]
    /\ holds' = [holds EXCEPT ![s] = Unreturned(s)]
    /\ spc' = [spc EXCEPT ![s] = IF Blocks(s) THEN "stuck" ELSE "over"]

\* The upstream ends the stream: the channel closes and the subscription
\* returns.  The OpenAPI reader gives its slots back first, the proto pump
\* leaves that to the goroutine that waits for the context.
UpstreamEnds(s) ==
    /\ spc[s] = "open"
    /\ Cleanup(s)
    /\ \/ Pool(s) = "openapi" /\ GiveBack(s)
       \/ Pool(s) = "proto" /\ spc' = [spc EXCEPT ![s] = "eof"] /\ UNCHANGED <<holds, counted>>
    /\ UNCHANGED <<dep, limiterVars, drainVars, connVars, of, id, done>>

\* Mutation: the goroutine that waits for the context goes with the stream.
ContextEndsOpen(s) ==
    /\ spc[s] = "open" /\ done[s]
    /\ GiveBack(s) /\ Cleanup(s)
    /\ UNCHANGED <<dep, limiterVars, drainVars, connVars, of, id, done>>

\* The context ends: a goroutine of its own gives the slots back, or blocks, and
\* an open subscription returns.
ContextEnds(s) ==
    /\ spc[s] \in {"open", "eof"} /\ done[s]
    /\ GiveBack(s)
    /\ IF spc[s] = "open" THEN Cleanup(s) ELSE UNCHANGED subs
    /\ UNCHANGED <<dep, limiterVars, drainVars, connVars, of, id, done>>

ConnStep(c) == Acquire(c) \/ CheckDraining(c) \/ RegisterConn(c) \/ ConnInit(c) \/ ConnEnds(c)
ClientStep(c) == \E i \in Ids : Complete(c, i) \/ \E s \in Streams : Subscribe(c, i, s)
StreamStep(s) == \/ TakeGlobal(s) \/ TakePool(s) \/ OpenFails(s) \/ OpenSucceeds(s)
                 \/ UpstreamEnds(s) \/ ContextEnds(s)

Next ==
    \/ \E c \in Conns : ConnStep(c) \/ ClientStep(c)
    \/ \E s \in Streams : StreamStep(s)
    \/ StartDrain \/ DrainCancels \/ DrainReturns \/ Tick

Spec == Init /\ [][Next]_vars

\* Goroutines run on; a cancelled connection's read returns.  Clients and
\* upstreams owe nothing, but an Open is answered or fails.
Fairness ==
    /\ \A s \in Streams : /\ WF_vars(TakeGlobal(s) \/ TakePool(s) \/ OpenFails(s) \/ OpenSucceeds(s))
                          /\ WF_vars(ContextEnds(s))
    /\ \A c \in Conns : WF_vars(cancelled[c] /\ ConnEnds(c))
FairSpec == Spec /\ Fairness

-----------------------------------------------------------------------------
Live(c) == cpc[c] \in {"acquired", "passed", "init", "ready"}

(***************************************************************************)
(* The per-IP limiter: the count is the number of upgrades and connections *)
(* that hold a place, never more than MaxPerIP, whichever way an upgrade   *)
(* was refused or a connection ended; and an address never had more        *)
(* upgrades than its burst and the rate over the time passed allow, the    *)
(* refund for a full address included.                                     *)
(***************************************************************************)
LimiterExact ==
    \A p \in IPs \ Trusted :
        /\ counts[p] = Cardinality({c \in Conns : dep.ip[c] = p /\ Live(c)})
        /\ counts[p] <= MaxPerIP
        /\ admitted[p] + tokens[p] <= Burst + Rate * now

\* A proto stream that is over and keeps the global slot: only where the cap per
\* pool is off and the total one is not.
Stranded(s) ==
    /\ spc[s] = "stuck" /\ Pool(s) = "proto"
    /\ MaxStreams = 0 /\ holds[s] = {"global"} /\ ~counted[s]

(***************************************************************************)
(* Stream slots: nobody runs over a cap, and what the semaphores and the   *)
(* counters hold belongs to a stream that still has to give it back, or to *)
(* a stranded one.                                                         *)
(***************************************************************************)
SlotsOwned ==
    /\ MaxStreamsTotal > 0 => GlobalUsed <= MaxStreamsTotal
    /\ \A k \in Kinds : MaxStreams > 0 => PoolUsed(k) <= MaxStreams
    /\ \A s \in Streams : (holds[s] # {} \/ counted[s]) =>
        spc[s] \in {"global", "opening", "open", "eof"} \/ Stranded(s)

(***************************************************************************)
(* So no cap on connections, on their rate or on streams is overrun, and   *)
(* none is used up by what is over, but for the total cap where the one    *)
(* per pool is off (ws_limit.go, the stream dispatchers).                  *)
(***************************************************************************)
CapsKept == LimiterExact /\ SlotsOwned

(***************************************************************************)
(* When a connection is over its streams end and their slots come back:    *)
(* nothing of a closed connection counts against the caps for ever, but    *)
(* for its proto streams where the cap per pool is off and the total one   *)
(* is not (proto_direct_subscription_dispatcher.go rollbackSlots).         *)
(***************************************************************************)
SlotsReturned ==
    \A c \in Conns : cpc[c] = "closed" ~> \A s \in OfConn(c) : (holds[s] = {} /\ ~counted[s]) \/ Stranded(s)

(***************************************************************************)
(* "Existing WebSockets have their context cancelled": once Drain has sent *)
(* its cancels no connection goes on.                                      *)
(***************************************************************************)
DrainCancelsAll ==
    drain \in {"waiting", "returned"} => \A c \in Conns : cpc[c] \in {"init", "ready"} => cancelled[c]

(***************************************************************************)
(* "each with its own context so complete / cancel is per id": a running   *)
(* subscription is the one its connection would cancel for its id.         *)
(***************************************************************************)
CompleteReaches ==
    \A s \in Streams :
        spc[s] \in {"start", "global", "opening", "open"} /\ ~done[s] => subs[of[s]][id[s]] = s

(***************************************************************************)
(* "Stream caps gate the number of concurrent streams": a slot is held     *)
(* only for a stream the upstream has not ended.                           *)
(***************************************************************************)
EndedHoldsNoSlot == \A s \in Streams : spc[s] = "eof" => holds[s] = {}

(***************************************************************************)
(* MaxStreams "0 disables" the cap, and a subscription that fails to open  *)
(* still gets its error.                                                   *)
(***************************************************************************)
NoneStuck == \A s \in Streams : spc[s] # "stuck"

(***************************************************************************)
(* MaxStreams "0 disables" the cap per pool and leaves the total one as it *)
(* is: no slot of it stays with a stream that is over.                     *)
(***************************************************************************)
DisabledCapHarmless == \A s \in Streams : ~Stranded(s)
=============================================================================
