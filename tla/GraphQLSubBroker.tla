-------------------------- MODULE GraphQLSubBroker --------------------------
(***************************************************************************)
(* The broker of subscriptions to one downstream GraphQL source            *)
(* (gw/graphql_sub_broker.go): consumers of the same operation share a     *)
(* fanout, all fanouts share one upstream WebSocket, dialed by the first   *)
(* acquire and closed by the last release, with a reader goroutine each.   *)
(*                                                                         *)
(* b.mu and f.mu are taken one after the other, never together; a critical *)
(* section is one step.  shutdown and failAll take the fanouts and the     *)
(* connection out of the broker under b.mu and then close and terminate    *)
(* them one by one.  Frames carry no data here.                            *)
(***************************************************************************)
EXTENDS Naturals, FiniteSets, TLC

CONSTANTS
    Consumers,   \* one acquire each
    Keys,        \* operations: query and variables
    EndpointOf,  \* the endpoint of the replica each consumer was routed to
    MaxDials,    \* bound: connections that are dialed
    MaxFrames,   \* bound: `next` frames the upstream sends
    Nobody

Conns == 1..MaxDials
Endpoints == {EndpointOf[c] : c \in Consumers}
Fanouts == 1..Cardinality(Consumers)
Actors == Consumers \cup Conns      \* goroutines: consumers, and readers by connection
Work == [kind: {"want", "shutdown", "failAll", "complete", "next"},
         conn: {0} \cup Conns, fans: SUBSET Fanouts, fan: {0} \cup Fanouts,
         chans: SUBSET Consumers]

ASSUME GraphQLSubBrokerAssumption ==
    /\ IsFiniteSet(Consumers)
    /\ Consumers \cap Conns = {}
    /\ MaxDials \in Nat /\ MaxFrames \in Nat
    /\ Nobody \notin Work

VARIABLES
    conn,       \* b.conn: the current connection, 0 when nil
    fanouts,    \* b.fanouts: per key, 0 when absent
    closing,    \* b.closing
    dials,      \* connections dialed so far
    dialed,     \* per connection: the endpoint it was dialed to
    open,       \* connections whose socket is open
    reading,    \* connections whose reader goroutine runs
    made,       \* fanouts made so far
    info,       \* per fanout: its key and the connection it was subscribed on
    targets,    \* per fanout: consumers in f.targets
    terminal,   \* fanouts with f.terminal set
    pc, fan,    \* per consumer: where its acquire or release is, its fanout
    closed,     \* consumers whose channel is closed
    work,       \* per goroutine: what it is in the middle of
    frames,     \* `next` frames so far
    panicked    \* a send hit a closed channel

vars == <<conn, fanouts, closing, dials, dialed, open, reading, made, info, targets, terminal,
          pc, fan, closed, work, frames, panicked>>
brokerVars == <<conn, fanouts, closing, dials, dialed, made, info>>
upVars == <<reading, frames, panicked>>

TypeOK ==
    /\ conn \in {0} \cup Conns
    /\ fanouts \in [Keys -> {0} \cup Fanouts]
    /\ closing \in BOOLEAN
    /\ dials \in 0..MaxDials
    /\ dialed \in [Conns -> Endpoints \cup {Nobody}]
    /\ open \subseteq Conns /\ reading \subseteq Conns
    /\ made \in 0..Cardinality(Consumers)
    /\ info \in [Fanouts -> [key: Keys, conn: Conns] \cup {Nobody}]
    /\ targets \in [Fanouts -> SUBSET Consumers]
    /\ terminal \subseteq Fanouts
    /\ pc \in [Consumers -> {"new", "attach", "on", "leave", "off"}]
    /\ fan \in [Consumers -> {0} \cup Fanouts]
    /\ closed \subseteq Consumers
    /\ work \in [Actors -> Work \cup {Nobody}]
    /\ frames \in 0..MaxFrames
    /\ panicked \in BOOLEAN

Init ==
    /\ conn = 0
    /\ fanouts = [k \in Keys |-> 0]
    /\ closing = FALSE
    /\ dials = 0
    /\ dialed = [n \in Conns |-> Nobody]
    /\ open = {} /\ reading = {}
    /\ made = 0
    /\ info = [f \in Fanouts |-> Nobody]
    /\ targets = [f \in Fanouts |-> {}]
    /\ terminal = {}
    /\ pc = [c \in Consumers |-> "new"]
    /\ fan = [c \in Consumers |-> 0]
    /\ closed = {}
    /\ work = [a \in Actors |-> Nobody]
    /\ frames = 0
    /\ panicked = FALSE

Live == {fanouts[k] : k \in Keys} \ {0}
Doing(kind) == [kind |-> kind, conn |-> 0, fans |-> {}, fan |-> 0, chans |-> {}]

-----------------------------------------------------------------------------
(* acquire.                                                                *)

\* The broker is shutting down, or the upstream cannot be dialed.
AcquireFails(c) ==
    /\ pc[c] = "new"
    /\ closing \/ conn = 0
    /\ pc' = [pc EXCEPT ![c] = "off"]
    /\ UNCHANGED <<brokerVars, open, upVars, targets, terminal, fan, closed, work>>

\* No connection: dial one and start its reader.
Dial(endpoint) ==
    IF conn # 0 THEN UNCHANGED <<conn, dials, dialed, open, reading>>
    ELSE /\ dials < MaxDials
         /\ dials' = dials + 1
         /\ conn' = dials + 1
         /\ dialed' = [dialed EXCEPT ![dials + 1] = endpoint]
         /\ open' = open \cup {dials + 1}
         /\ reading' = reading \cup {dials + 1}

\* Under b.mu: the fanout of the operation, subscribed upstream if it is new.
Acquire(c, k) ==
    /\ pc[c] = "new" /\ ~closing
    /\ Dial(EndpointOf[c])
    /\ \/ /\ fanouts[k] # 0
          /\ pc' = [pc EXCEPT ![c] = "attach"]
          /\ fan' = [fan EXCEPT ![c] = fanouts[k]]
          /\ UNCHANGED <<fanouts, made, info>>
       \/ /\ fanouts[k] = 0 /\ conn' \in open'
          /\ made' = made + 1
          /\ info' = [info EXCEPT ![made + 1] = [key |-> k, conn |-> conn']]
          /\ fanouts' = [fanouts EXCEPT ![k] = made + 1]
          /\ pc' = [pc EXCEPT ![c] = "attach"]
          /\ fan' = [fan EXCEPT ![c] = made + 1]
       \/ /\ fanouts[k] = 0 /\ conn' \notin open'      \* the write fails
          /\ pc' = [pc EXCEPT ![c] = "off"]
          /\ UNCHANGED <<fanouts, made, info, fan>>
    /\ UNCHANGED <<closing, targets, terminal, closed, work, frames, panicked>>

\* Mutation: the terminal flag is not looked at.
AttachAnyway(c) ==
    /\ pc[c] = "attach"
    /\ targets' = [targets EXCEPT ![fan[c]] = @ \cup {c}]
    /\ pc' = [pc EXCEPT ![c] = "on"]
    /\ UNCHANGED <<brokerVars, open, upVars, terminal, fan, closed, work>>

\* Under f.mu: add the channel, or hand out a closed one.
Attach(c) ==
    /\ pc[c] = "attach"
    /\ \/ /\ fan[c] \notin terminal
          /\ targets' = [targets EXCEPT ![fan[c]] = @ \cup {c}]
          /\ pc' = [pc EXCEPT ![c] = "on"]
          /\ UNCHANGED closed
       \/ /\ fan[c] \in terminal
          /\ closed' = closed \cup {c}
          /\ pc' = [pc EXCEPT ![c] = "off"]
          /\ UNCHANGED targets
    /\ UNCHANGED <<brokerVars, open, upVars, terminal, fan, work>>

-----------------------------------------------------------------------------
(* releaseTarget.                                                          *)

\* Under f.mu: close and drop the channel, if terminate has not.
Release(c) ==
    /\ pc[c] = "on"
    /\ closed' = closed \cup {c}
    /\ targets' = [targets EXCEPT ![fan[c]] = @ \ {c}]
    /\ pc' = [pc EXCEPT ![c] =
                IF targets'[fan[c]] = {} /\ fan[c] \notin terminal THEN "leave" ELSE "off"]
    /\ UNCHANGED <<brokerVars, open, upVars, terminal, fan, work>>

\* Under b.mu: drop fanout f if it is current; then a shutdown if none is left.
RemoveFanout(a, f) ==
    /\ fanouts' = [k \in Keys |-> IF fanouts[k] = f THEN 0 ELSE fanouts[k]]
    /\ work' = [work EXCEPT ![a] =
                  IF Live \subseteq {f} /\ conn # 0 THEN Doing("want") ELSE Nobody]
    /\ UNCHANGED <<conn, closing, dials, dialed, made, info>>

Leave(c) ==
    /\ pc[c] = "leave"
    /\ RemoveFanout(c, fan[c])
    /\ pc' = [pc EXCEPT ![c] = "off"]
    /\ UNCHANGED <<open, upVars, targets, terminal, fan, closed>>

-----------------------------------------------------------------------------
(* shutdown and failAll.                                                   *)

\* Everything is taken out of the broker under b.mu.
TakeAll(a, kind) ==
    /\ work' = [work EXCEPT ![a] = [Doing(kind) EXCEPT !.conn = conn, !.fans = Live]]
    /\ conn' = 0
    /\ fanouts' = [k \in Keys |-> 0]

Shutdown(a) ==
    /\ work[a] # Nobody /\ work[a].kind = "want"
    /\ \/ /\ closing
          /\ work' = [work EXCEPT ![a] = Nobody]
          /\ UNCHANGED <<conn, fanouts, closing>>
       \/ /\ ~closing
          /\ TakeAll(a, "shutdown")
          /\ closing' = TRUE
    /\ UNCHANGED <<dials, dialed, made, info, open, upVars, targets, terminal, pc, fan, closed>>

\* The reader of a connection that is closed or broken.
FailAll(n) ==
    /\ n \in reading \ open
    /\ work[n] = Nobody
    /\ TakeAll(n, "failAll")
    /\ reading' = reading \ {n}
    /\ UNCHANGED <<closing, dials, dialed, made, info, open, targets, terminal,
                   pc, fan, closed, frames, panicked>>

Taken(a) == work[a] # Nobody /\ work[a].kind \in {"shutdown", "failAll"}

\* Mutation: the socket is left open.
CloseConnNot(a) ==
    /\ Taken(a) /\ work[a].conn # 0
    /\ work' = [work EXCEPT ![a].conn = 0]
    /\ UNCHANGED <<brokerVars, open, upVars, targets, terminal, pc, fan, closed>>

CloseConn(a) ==
    /\ Taken(a) /\ work[a].conn # 0
    /\ open' = open \ {work[a].conn}
    /\ work' = [work EXCEPT ![a].conn = 0]
    /\ UNCHANGED <<brokerVars, upVars, targets, terminal, pc, fan, closed>>

\* Under f.mu: no new targets; a second call does nothing.  The channels, which
\* no release can find any more, are closed in the same step.
Terminate(a, f) ==
    /\ work[a] # Nobody /\ work[a].conn = 0 /\ f \in work[a].fans
    /\ terminal' = terminal \cup {f}
    /\ closed' = closed \cup targets[f]
    /\ targets' = [targets EXCEPT ![f] = {}]
    /\ work' = [work EXCEPT ![a].fans = @ \ {f}]
    /\ UNCHANGED <<brokerVars, open, upVars, pc, fan>>

Reset(a) ==
    /\ Taken(a) /\ work[a].conn = 0 /\ work[a].fans = {}
    /\ closing' = IF work[a].kind = "shutdown" THEN FALSE ELSE closing
    /\ work' = [work EXCEPT ![a] = Nobody]
    /\ UNCHANGED <<conn, fanouts, dials, dialed, made, info, open, upVars, targets, terminal,
                   pc, fan, closed>>

-----------------------------------------------------------------------------
(* The reader goroutine, and the upstream.                                 *)

\* The upstream goes away.
Breaks(n) ==
    /\ n \in open
    /\ open' = open \ {n}
    /\ UNCHANGED <<brokerVars, upVars, targets, terminal, pc, fan, closed, work>>

\* A frame for a subscription of connection n whose fanout is still found.
Frame(n, f) ==
    /\ n \in reading \cap open /\ work[n] = Nobody
    /\ f \in Live /\ info[f].conn = n

\* complete or error: terminate the fanout, then remove it.
ReadComplete(n, f) ==
    /\ Frame(n, f)
    /\ work' = [work EXCEPT ![n] = [Doing("complete") EXCEPT !.fans = {f}, !.fan = f]]
    /\ UNCHANGED <<brokerVars, open, upVars, targets, terminal, pc, fan, closed>>

Completed(n) ==
    /\ work[n] # Nobody /\ work[n].kind = "complete" /\ work[n].fans = {}
    /\ RemoveFanout(n, work[n].fan)
    /\ UNCHANGED <<open, upVars, targets, terminal, pc, fan, closed>>

\* next: the channels are copied under f.mu, and sent to without it.
ReadNext(n, f) ==
    /\ Frame(n, f)
    /\ frames < MaxFrames
    /\ frames' = frames + 1
    /\ work' = [work EXCEPT ![n] = [Doing("next") EXCEPT !.chans = targets[f]]]
    /\ UNCHANGED <<brokerVars, open, reading, panicked, targets, terminal, pc, fan, closed>>

Send(n) ==
    /\ work[n] # Nobody /\ work[n].kind = "next"
    /\ \/ /\ work[n].chans = {}
          /\ work' = [work EXCEPT ![n] = Nobody]
          /\ UNCHANGED panicked
       \/ \E c \in work[n].chans :
             /\ work' = [work EXCEPT ![n].chans = @ \ {c}]
             /\ panicked' = (panicked \/ c \in closed)
    /\ UNCHANGED <<brokerVars, open, reading, frames, targets, terminal, pc, fan, closed>>

-----------------------------------------------------------------------------
Next ==
    \/ \E c \in Consumers : \/ AcquireFails(c) \/ Attach(c) \/ Release(c) \/ Leave(c)
                            \/ \E k \in Keys : Acquire(c, k)
    \/ \E a \in Actors : \/ Shutdown(a) \/ CloseConn(a) \/ Reset(a)
                         \/ \E f \in Fanouts : Terminate(a, f)
    \/ \E n \in Conns : \/ FailAll(n) \/ Breaks(n) \/ Completed(n) \/ Send(n)
                        \/ \E f \in Fanouts : ReadComplete(n, f) \/ ReadNext(n, f)

Spec == Init /\ [][Next]_vars

-----------------------------------------------------------------------------
(* Properties.                                                             *)

(***************************************************************************)
(* The fanouts in the broker are subscriptions of the connection in the    *)
(* broker, under their own key: whatever shutdowns, broken connections and *)
(* new dials overlap, no acquire joins a subscription of an old one.       *)
(***************************************************************************)
FanoutsOnConn ==
    \A k \in Keys : fanouts[k] # 0 =>
        conn # 0 /\ info[fanouts[k]] = [key |-> k, conn |-> conn]

(***************************************************************************)
(* No upstream connection is lost track of: an open socket is the one the  *)
(* next acquire uses, or one that a shutdown or failAll is about to close. *)
(***************************************************************************)
NoLostSocket ==
    \A n \in open : n = conn \/ \E a \in Actors : work[a] # Nobody /\ work[a].conn = n

(***************************************************************************)
(* When the upstream ends a subscription, every local consumer of it sees  *)
(* the end: none is left with an open channel on a terminated fanout, also *)
(* if it was between the two locks of acquire at the time.                 *)
(***************************************************************************)
TerminatedSeesEnd ==
    \A c \in Consumers : pc[c] = "on" /\ fan[c] \in terminal => c \in closed

(***************************************************************************)
(* graphql_sub_broker.go says a subsequent acquire re-dials a fresh        *)
(* connection: the reader of an old connection does not take that down.    *)
(***************************************************************************)
ReaderFailsOwnConn ==
    \A n \in Conns : work[n] # Nobody /\ work[n].kind = "failAll" => work[n].conn \in {0, n}

(***************************************************************************)
(* graphql_sub_broker.go says a delivery that cannot be made is dropped    *)
(* rather than gating the broker: the reader sends to no closed channel.   *)
(***************************************************************************)
NoSendOnClosed == ~panicked

(***************************************************************************)
(* graphql_sub_broker.go says mixed endpoints across calls re-dial: the    *)
(* only consumer of an operation is subscribed at its own endpoint.        *)
(***************************************************************************)
MixedEndpointsRedial ==
    \A c \in Consumers : pc[c] = "on" /\ targets[fan[c]] = {c} =>
        dialed[info[fan[c]].conn] = EndpointOf[c]

(***************************************************************************)
(* graphql_sub_broker.go says the subscription ends when the last local    *)
(* consumer leaves: a consumer with an open channel has a fanout that the  *)
(* reader finds, or that is about to be terminated.                        *)
(***************************************************************************)
ConsumerReachable ==
    \A c \in Consumers : pc[c] = "on" /\ c \notin closed =>
        fan[c] \in Live \/ \E a \in Actors : work[a] # Nobody /\ fan[c] \in work[a].fans

-----------------------------------------------------------------------------
(* A small instance for TLC.                                               *)

\* Consumers and operations are interchangeable.
Symmetry == Permutations(Consumers) \cup Permutations(Keys)

\* All consumers are routed to one endpoint.
SameEndpoint == [c \in Consumers |-> "e"]
=============================================================================
