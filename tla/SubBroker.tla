----------------------------- MODULE SubBroker ------------------------------
(***************************************************************************)
(* The subscription broker (gw/broker.go) for one subject: consumers       *)
(* acquire and release a channel on a shared fanout, and publishers on the *)
(* local bus (gw/gat/bus.go) run the fanout's deliver callback.            *)
(*                                                                         *)
(* Subjects only share the broker's mutex, so one is enough.  A consumer   *)
(* is one acquire with its channel.  acquire and release take b.mu and     *)
(* f.mu one after the other, never together; deliver copies the channels   *)
(* under f.mu and sends after the unlock.  Each critical section, and each *)
(* send, is one step.                                                      *)
(***************************************************************************)
EXTENDS Naturals, FiniteSets

CONSTANTS
    Consumers,
    Publishers,   \* bound: publishes, one each
    Capacity,     \* of a consumer's channel (32 in the code)
    MaxFailures   \* bound: Subscribe calls of the bus that fail

Fanouts == 1..Cardinality(Consumers)

ASSUME SubBrokerAssumption ==
    /\ IsFiniteSet(Consumers) /\ IsFiniteSet(Publishers)
    /\ Capacity \in Nat /\ MaxFailures \in Nat

VARIABLES
    subs,        \* b.subs[subject]: the current fanout, 0 when absent
    made,        \* fanouts created so far
    subscribed,  \* fanouts with a bus subscription
    targets,     \* per fanout: consumers in f.targets
    pc, fan,     \* per consumer: where its acquire or release is, its fanout
    closed,      \* consumers whose channel is closed
    buffer,      \* per consumer: events in its channel
    pub,         \* per publisher: state, callbacks to run, channels to send to
    panicked,    \* a send hit a closed channel
    failures     \* Subscribe calls that failed

vars == <<subs, made, subscribed, targets, pc, fan, closed, buffer, pub, panicked, failures>>
busVars == <<pub, panicked, buffer>>

Publish0 == [state: {"new", "running"}, todo: SUBSET Fanouts, chans: SUBSET Consumers]

TypeOK ==
    /\ subs \in {0} \cup Fanouts
    /\ made \in 0..Cardinality(Consumers)
    /\ subscribed \subseteq Fanouts
    /\ targets \in [Fanouts -> SUBSET Consumers]
    /\ pc \in [Consumers -> {"new", "attach", "on", "leave", "off"}]
    /\ fan \in [Consumers -> {0} \cup Fanouts]
    /\ closed \subseteq Consumers
    /\ buffer \in [Consumers -> 0..Capacity]
    /\ pub \in [Publishers -> Publish0]
    /\ panicked \in BOOLEAN
    /\ failures \in 0..MaxFailures

Init ==
    /\ subs = 0
    /\ made = 0
    /\ subscribed = {}
    /\ targets = [f \in Fanouts |-> {}]
    /\ pc = [c \in Consumers |-> "new"]
    /\ fan = [c \in Consumers |-> 0]
    /\ closed = {}
    /\ buffer = [c \in Consumers |-> 0]
    /\ pub = [p \in Publishers |-> [state |-> "new", todo |-> {}, chans |-> {}]]
    /\ panicked = FALSE
    /\ failures = 0

-----------------------------------------------------------------------------
(* acquire.                                                                *)

\* Under b.mu: join the fanout of the subject, or make and subscribe one.
AcquireFanout(c) ==
    /\ pc[c] = "new"
    /\ \/ /\ subs # 0
          /\ UNCHANGED <<subs, made, subscribed>>
       \/ /\ subs = 0
          /\ made' = made + 1
          /\ subs' = made + 1
          /\ subscribed' = subscribed \cup {made + 1}
    /\ fan' = [fan EXCEPT ![c] = subs']
    /\ pc' = [pc EXCEPT ![c] = "attach"]
    /\ UNCHANGED <<targets, closed, busVars, failures>>

\* The bus refuses the subscription.
AcquireFails(c) ==
    /\ pc[c] = "new"
    /\ subs = 0
    /\ failures < MaxFailures
    /\ failures' = failures + 1
    /\ pc' = [pc EXCEPT ![c] = "off"]
    /\ UNCHANGED <<subs, made, subscribed, targets, fan, closed, busVars>>

\* Under f.mu: add the channel.
AcquireAttach(c) ==
    /\ pc[c] = "attach"
    /\ targets' = [targets EXCEPT ![fan[c]] = @ \cup {c}]
    /\ pc' = [pc EXCEPT ![c] = "on"]
    /\ UNCHANGED <<subs, made, subscribed, fan, closed, busVars, failures>>

-----------------------------------------------------------------------------
(* release.                                                                *)

\* Under f.mu: close and drop the channel; done unless it was the last one.
ReleaseTarget(c) ==
    /\ pc[c] = "on"
    /\ closed' = closed \cup {c}
    /\ targets' = [targets EXCEPT ![fan[c]] = @ \ {c}]
    /\ pc' = [pc EXCEPT ![c] = IF targets'[fan[c]] = {} THEN "leave" ELSE "off"]
    /\ UNCHANGED <<subs, made, subscribed, fan, busVars, failures>>

\* Mutation: the entry is dropped whatever fanout it holds now.
ReleaseFanoutUnchecked(c) ==
    /\ pc[c] = "leave"
    /\ pc' = [pc EXCEPT ![c] = "off"]
    /\ subs' = 0
    /\ subscribed' = subscribed \ {fan[c]}
    /\ UNCHANGED <<made, targets, fan, closed, busVars, failures>>

\* Under b.mu: drop the fanout if it is still the current one.
ReleaseFanout(c) ==
    /\ pc[c] = "leave"
    /\ pc' = [pc EXCEPT ![c] = "off"]
    /\ \/ /\ subs = fan[c]
          /\ subs' = 0
          /\ subscribed' = subscribed \ {fan[c]}
       \/ /\ subs # fan[c]
          /\ UNCHANGED <<subs, subscribed>>
    /\ UNCHANGED <<made, targets, fan, closed, busVars, failures>>

-----------------------------------------------------------------------------
(* Publishing.                                                             *)

brokerVars == <<subs, made, subscribed, targets, pc, fan, closed, failures>>

\* LocalBus.Publish copies the callbacks to run ...
Publish(p) ==
    /\ pub[p].state = "new"
    /\ pub' = [pub EXCEPT ![p].state = "running", ![p].todo = subscribed]
    /\ UNCHANGED <<brokerVars, panicked, buffer>>

\* ... deliver copies the channels of its fanout under f.mu ...
Deliver(p, f) ==
    /\ f \in pub[p].todo /\ pub[p].chans = {}
    /\ pub' = [pub EXCEPT ![p].todo = @ \ {f}, ![p].chans = targets[f]]
    /\ UNCHANGED <<brokerVars, panicked, buffer>>

\* ... and sends without it, dropping the event when the channel is full.
DeliverSend(p, c) ==
    /\ c \in pub[p].chans
    /\ \/ /\ c \in closed
          /\ panicked' = TRUE
          /\ pub' = [pub EXCEPT ![p].todo = {}, ![p].chans = {}]
          /\ UNCHANGED buffer
       \/ /\ c \notin closed
          /\ pub' = [pub EXCEPT ![p].chans = @ \ {c}]
          /\ buffer' = [buffer EXCEPT ![c] = IF @ < Capacity THEN @ + 1 ELSE @]
          /\ UNCHANGED panicked
    /\ UNCHANGED brokerVars

\* The subscriber's goroutine takes an event.
Receive(c) ==
    /\ buffer[c] > 0
    /\ buffer' = [buffer EXCEPT ![c] = @ - 1]
    /\ UNCHANGED <<brokerVars, pub, panicked>>

-----------------------------------------------------------------------------
Next ==
    \/ \E c \in Consumers : \/ AcquireFanout(c) \/ AcquireFails(c) \/ AcquireAttach(c)
                            \/ ReleaseTarget(c) \/ ReleaseFanout(c)
                            \/ Receive(c)
    \/ \E p \in Publishers : \/ Publish(p)
                             \/ \E f \in Fanouts : Deliver(p, f)
                             \/ \E c \in Consumers : DeliverSend(p, c)

Spec == Init /\ [][Next]_vars

-----------------------------------------------------------------------------
(* Properties.                                                             *)

(***************************************************************************)
(* One bus subscription per subject, and none that nobody will close: the  *)
(* bus is subscribed for the current fanout only, and a current fanout     *)
(* with no consumer has one on its way in or out (acquire and release).    *)
(***************************************************************************)
OneSubscription ==
    /\ subscribed = {subs} \ {0}
    /\ subs # 0 => \/ targets[subs] # {}
                   \/ \E c \in Consumers : fan[c] = subs /\ pc[c] \in {"attach", "leave"}

(***************************************************************************)
(* broker.go says the bus subscription is closed when the last consumer    *)
(* leaves: a consumer that has acquired and not released is subscribed.    *)
(***************************************************************************)
ConsumerSubscribed == \A c \in Consumers : pc[c] = "on" => fan[c] \in subscribed

(***************************************************************************)
(* bus.go says a callback may still run after unsubscribe returns, and     *)
(* that callers must tolerate that: no send hits a closed channel.         *)
(***************************************************************************)
NoSendOnClosed == ~panicked
=============================================================================
