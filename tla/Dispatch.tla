------------------------------ MODULE Dispatch ------------------------------
(***************************************************************************)
(* Unary dispatch to the replicas of one service: the attempt loop shared  *)
(* by proto pools, OpenAPI sources and GraphQL sources, the backpressure   *)
(* slots around it and the health of the replicas (gw/upstream.go,         *)
(* gw/proto_dispatcher.go, gw/backpressure.go, gw/pools.go).               *)
(*                                                                         *)
(* Calls run concurrently and share semaphores and atomics, with no lock.  *)
(* A step reads or writes one piece of the health of a replica; taking a   *)
(* slot and counting the call in, and giving both back, are one step each. *)
(* A request is sent when it got a connection or a transport stream, which *)
(* is what the probes tell.                                                *)
(***************************************************************************)
EXTENDS Naturals, FiniteSets, Sequences, TLC

CONSTANTS
    Calls,
    AtStart,       \* replicas in the pool at the start
    MaxReplicas,   \* bound: replicas that ever join the pool
    MaxLeaves,     \* bound: replicas that leave it
    MaxEnds,       \* bound: contexts that expire or are cancelled
    Hints,         \* offsets pickHealthy starts from: {0} for proto pools
    ServiceCap,    \* MaxInflight of the service
    InstanceCap,   \* MaxConcurrencyPerInstance
    EjectAfter,    \* consecutive failures that eject a replica; 0: never
    MaxAttempts,   \* maxUpstreamAttempts, the length of the tried array
    NoReplica

Replicas == 1..MaxReplicas

ASSUME DispatchAssumption ==
    /\ IsFiniteSet(Calls)
    /\ MaxReplicas \in Nat /\ AtStart \in 0..MaxReplicas
    /\ MaxLeaves \in Nat /\ MaxEnds \in Nat
    /\ Hints \subseteq Nat
    /\ ServiceCap \in Nat \ {0} /\ InstanceCap \in Nat \ {0}
    /\ EjectAfter \in Nat
    /\ MaxAttempts \in Nat \ {0}
    /\ NoReplica \notin Replicas

VARIABLES
    pool,       \* p.replicas, in order
    made,       \* replicas that joined so far
    leaves,     \* replicas that left
    serviceSem, \* slots taken of p.sem
    sem,        \* per replica: slots taken of r.sem
    inflight,   \* per replica: r.inflight
    fails,      \* per replica: the failure streak
    until,      \* per replica: ejectedUntil, "lapsed" once that time is past
    call,       \* the calls
    ends        \* contexts that ended

(***************************************************************************)
(* A call: where it is, the replicas it tried (the current one last),      *)
(* whether this attempt has a probe, was sent and may be retried, the      *)
(* context, with what the call was doing when that ended, and the replicas *)
(* that got the request.                                                   *)
(***************************************************************************)
Call == [pc: {"new", "queued", "pick", "slot", "waiting", "invoke", "count", "eject",
              "load", "clear", "uneject", "decide", "done"},
         tried: Seq(Replicas), probed: BOOLEAN, sent: BOOLEAN, retry: BOOLEAN,
         ctx: {"live", "late in queue", "late in call", "cancelled"},
         delivered: SUBSET Replicas]

NewCall == [pc |-> "new", tried |-> <<>>, probed |-> FALSE, sent |-> FALSE, retry |-> FALSE,
            ctx |-> "live", delivered |-> {}]

poolVars == <<pool, made, leaves>>
slotVars == <<serviceSem, sem, inflight>>
instanceVars == <<sem, inflight>>
healthVars == <<fails, until>>
vars == <<pool, made, leaves, serviceSem, sem, inflight, fails, until, call, ends>>

TypeOK ==
    /\ pool \in Seq(Replicas)
    /\ made \in 0..MaxReplicas /\ leaves \in 0..MaxLeaves /\ ends \in 0..MaxEnds
    /\ serviceSem \in 0..ServiceCap
    /\ sem \in [Replicas -> 0..InstanceCap]
    /\ inflight \in [Replicas -> Nat]
    /\ fails \in [Replicas -> Nat]
    /\ until \in [Replicas -> {"clear", "ejected", "lapsed"}]
    /\ call \in [Calls -> Call]

Init ==
    /\ pool = [i \in 1..AtStart |-> i]
    /\ made = AtStart /\ leaves = 0 /\ ends = 0
    /\ serviceSem = 0
    /\ sem = [r \in Replicas |-> 0]
    /\ inflight = [r \in Replicas |-> 0]
    /\ fails = [r \in Replicas |-> 0]
    /\ until = [r \in Replicas |-> "clear"]
    /\ call = [c \in Calls |-> NewCall]

Replica(c) == call[c].tried[Len(call[c].tried)]

-----------------------------------------------------------------------------
(* Picking a replica.                                                      *)

Ejected(r) == until[r] = "ejected"

\* The switch of pickHealthy's loop: r replaces best.
Better(r, best) ==
    \/ Ejected(best) /\ ~Ejected(r)
    \/ Ejected(best) = Ejected(r) /\ inflight[r] < inflight[best]

\* The loop itself, over the replicas of rs not yet tried, from offset hint on:
\* it ends with the first of the best.
PickHealthy(rs, hint, tried) ==
    LET at(i) == rs[((hint + i) % Len(rs)) + 1]
        fresh == {i \in 0 .. Len(rs) - 1 : \A k \in 1..Len(tried) : tried[k] # at(i)}
    IN  IF fresh = {} THEN NoReplica
        ELSE at(CHOOSE i \in fresh :
                  \A j \in fresh : ~Better(at(j), at(i)) /\ (j < i => Better(at(i), at(j))))

-----------------------------------------------------------------------------
(* Backpressure slots.                                                     *)

Goto(c, pc) == call' = [call EXCEPT ![c].pc = pc]

\* The call returns: its locals are gone and its service slot is given back.
Ends(c) ==
    /\ call' = [call EXCEPT ![c] = [NewCall EXCEPT !.pc = "done"]]
    /\ serviceSem' = serviceSem - 1

AcquireService(c) ==
    /\ call[c].pc \in {"new", "queued"}
    /\ serviceSem < ServiceCap
    /\ serviceSem' = serviceSem + 1
    /\ Goto(c, "pick")
    /\ UNCHANGED <<poolVars, instanceVars, healthVars, ends>>

QueueService(c) ==
    /\ call[c].pc = "new"
    /\ serviceSem = ServiceCap
    /\ Goto(c, "queued")
    /\ UNCHANGED <<poolVars, slotVars, healthVars, ends>>

\* MaxWaitTime passed, or the caller left.
GiveUpService(c) ==
    /\ call[c].pc = "queued"
    /\ Goto(c, "done")
    /\ UNCHANGED <<poolVars, slotVars, healthVars, ends>>

-----------------------------------------------------------------------------
(* The attempt loop.                                                       *)

\* The attempt goes to replica r.
On(c, r) ==
    /\ call' = [call EXCEPT ![c].pc = "slot", ![c].tried = Append(@, r)]
    /\ UNCHANGED serviceSem

\* The first pick, and the start of the upstream timeout.  The call ends here when
\* there is no replica, or when a header injector fails.
Pick(c) ==
    /\ call[c].pc = "pick"
    /\ \/ Ends(c)
       \/ pool # <<>> /\ \E hint \in Hints : On(c, PickHealthy(pool, hint, <<>>))
    /\ UNCHANGED <<poolVars, instanceVars, healthVars, ends>>

\* This attempt may be followed by another: probe whether it is sent.
MayRetry(c) == Len(call[c].tried) < MaxAttempts /\ Len(pool) > Len(call[c].tried)

AcquireInstance(c) ==
    /\ call[c].pc \in {"slot", "waiting"}
    /\ sem[Replica(c)] < InstanceCap
    /\ sem' = [sem EXCEPT ![Replica(c)] = @ + 1]
    /\ inflight' = [inflight EXCEPT ![Replica(c)] = @ + 1]
    /\ call' = [call EXCEPT ![c].pc = "invoke", ![c].probed = MayRetry(c),
                            ![c].sent = FALSE, ![c].retry = FALSE]
    /\ UNCHANGED <<poolVars, serviceSem, healthVars, ends>>

QueueInstance(c) ==
    /\ call[c].pc = "slot"
    /\ sem[Replica(c)] = InstanceCap
    /\ Goto(c, "waiting")
    /\ UNCHANGED <<poolVars, slotVars, healthVars, ends>>

GiveUpInstance(c) ==
    /\ call[c].pc = "waiting"
    /\ Ends(c)
    /\ UNCHANGED <<poolVars, instanceVars, healthVars, ends>>

\* Invoke gets a transport stream: the request is on its way to the replica.
Send(c) ==
    /\ call[c].pc = "invoke" /\ ~call[c].sent /\ call[c].ctx = "live"
    /\ call' = [call EXCEPT ![c].sent = TRUE, ![c].delivered = @ \cup {Replica(c)}]
    /\ UNCHANGED <<poolVars, slotVars, healthVars, ends>>

\* Mutation: a failed attempt keeps the slot.
ReturnsLeaky(c, pc, retry) ==
    /\ call[c].pc = "invoke"
    /\ sem' = IF pc = "count" THEN sem ELSE [sem EXCEPT ![Replica(c)] = @ - 1]
    /\ inflight' = [inflight EXCEPT ![Replica(c)] = @ - 1]
    /\ call' = [call EXCEPT ![c].pc = pc, ![c].retry = retry]
    /\ UNCHANGED <<poolVars, serviceSem, healthVars, ends>>

\* Invoke returns: the call is counted out and gives the instance slot back.
Returns(c, pc, retry) ==
    /\ call[c].pc = "invoke"
    /\ sem' = [sem EXCEPT ![Replica(c)] = @ - 1]
    /\ inflight' = [inflight EXCEPT ![Replica(c)] = @ - 1]
    /\ call' = [call EXCEPT ![c].pc = pc, ![c].retry = retry]
    /\ UNCHANGED <<poolVars, serviceSem, healthVars, ends>>

Succeed(c) == call[c].sent /\ Returns(c, "load", FALSE)

\* Mutation: Unavailable is retried whether or not a stream was opened.
NotSentUnavailable(c) == call[c].probed

\* grpcNotSent, gotConn: the probe saw no stream.
NotSent(c) == call[c].probed /\ ~call[c].sent

\* The replica is unavailable, or the timeout of the call fired: a failure.
FailUnhealthy(c) ==
    /\ call[c].ctx # "cancelled"
    /\ Returns(c, "count", call[c].ctx = "live" /\ NotSent(c))

\* Any other error: a status of the application, or the caller left.
FailOther(c) ==
    /\ call[c].ctx = "cancelled" \/ (call[c].ctx = "live" /\ call[c].sent)
    /\ Returns(c, "decide", FALSE)

\* After an attempt that failed: end the call, or go on to a replica not yet tried.
Decide(c) ==
    /\ call[c].pc = "decide"
    /\ LET again == call[c].retry /\ call[c].ctx = "live" /\ pool # <<>>
       IN  \/ ~again /\ Ends(c)
           \/ again /\ \E hint \in Hints :
                 LET r == PickHealthy(pool, hint, call[c].tried)
                 IN  \/ r = NoReplica /\ Ends(c)
                     \/ r # NoReplica /\ On(c, r)
    /\ UNCHANGED <<poolVars, instanceVars, healthVars, ends>>

-----------------------------------------------------------------------------
(* replicaHealth: success() and failure(), one atomic at a time.           *)

\* fails.Load(): nothing to clear on the common path.
LoadStreak(c) ==
    /\ call[c].pc = "load"
    /\ \/ fails[Replica(c)] = 0 /\ Ends(c)
       \/ fails[Replica(c)] # 0 /\ Goto(c, "clear") /\ UNCHANGED serviceSem
    /\ UNCHANGED <<poolVars, instanceVars, healthVars, ends>>

\* fails.Store(0)
ClearStreak(c) ==
    /\ call[c].pc = "clear"
    /\ fails' = [fails EXCEPT ![Replica(c)] = 0]
    /\ Goto(c, "uneject")
    /\ UNCHANGED <<poolVars, slotVars, until, ends>>

\* ejectedUntil.Store(0)
Uneject(c) ==
    /\ call[c].pc = "uneject"
    /\ until' = [until EXCEPT ![Replica(c)] = "clear"]
    /\ Ends(c)
    /\ UNCHANGED <<poolVars, instanceVars, fails, ends>>

\* fails.Add(1)
CountFailure(c) ==
    /\ call[c].pc = "count"
    /\ fails' = IF EjectAfter = 0 THEN fails ELSE [fails EXCEPT ![Replica(c)] = @ + 1]
    /\ Goto(c, IF EjectAfter # 0 /\ fails'[Replica(c)] >= EjectAfter THEN "eject" ELSE "decide")
    /\ UNCHANGED <<poolVars, slotVars, until, ends>>

\* ejectedUntil.Store(now + ejectFor)
Eject(c) ==
    /\ call[c].pc = "eject"
    /\ until' = [until EXCEPT ![Replica(c)] = "ejected"]
    /\ Goto(c, "decide")
    /\ UNCHANGED <<poolVars, slotVars, fails, ends>>

\* The cooldown passes.
Readmit(r) ==
    /\ until[r] = "ejected"
    /\ until' = [until EXCEPT ![r] = "lapsed"]
    /\ UNCHANGED <<poolVars, slotVars, fails, call, ends>>

-----------------------------------------------------------------------------
(* Around the calls.                                                       *)

\* The upstream timeout, which runs from the first pick on, or the caller leaves.
ContextEnds(c) ==
    /\ call[c].pc \in {"slot", "waiting", "invoke", "count", "eject", "decide"}
    /\ call[c].ctx = "live"
    /\ ends < MaxEnds
    /\ ends' = ends + 1
    /\ \E ctx \in {"cancelled", IF call[c].pc = "waiting" THEN "late in queue" ELSE "late in call"} :
          call' = [call EXCEPT ![c].ctx = ctx]
    /\ UNCHANGED <<poolVars, slotVars, healthVars>>

\* addReplica and removeReplicasByOwner swap the slice of replicas.
AddReplica ==
    /\ made < MaxReplicas
    /\ made' = made + 1
    /\ pool' = Append(pool, made + 1)
    /\ UNCHANGED <<leaves, slotVars, healthVars, call, ends>>

RemoveReplica(r) ==
    /\ leaves < MaxLeaves
    /\ leaves' = leaves + 1
    /\ \E i \in 1..Len(pool) :
          pool[i] = r /\ pool' = SubSeq(pool, 1, i - 1) \o SubSeq(pool, i + 1, Len(pool))
    /\ UNCHANGED <<made, slotVars, healthVars, call, ends>>

-----------------------------------------------------------------------------
Next ==
    \/ \E c \in Calls :
          \/ AcquireService(c) \/ QueueService(c) \/ GiveUpService(c)
          \/ Pick(c)
          \/ AcquireInstance(c) \/ QueueInstance(c) \/ GiveUpInstance(c)
          \/ Send(c) \/ Succeed(c) \/ FailUnhealthy(c) \/ FailOther(c)
          \/ LoadStreak(c) \/ ClearStreak(c) \/ Uneject(c) \/ CountFailure(c) \/ Eject(c)
          \/ Decide(c)
          \/ ContextEnds(c)
    \/ \E r \in Replicas : Readmit(r) \/ RemoveReplica(r)
    \/ AddReplica

Spec == Init /\ [][Next]_vars

\* Calls differ in nothing but their name.
CallSymmetry == Permutations(Calls)

-----------------------------------------------------------------------------
(* Properties.                                                             *)

(***************************************************************************)
(* A request reaches at most one replica: whatever fails, times out or     *)
(* leaves the pool, only an attempt that provably was not sent is retried. *)
(* And every attempt is on another replica, at most maxUpstreamAttempts of *)
(* them, so that tried[attempt] is never out of range, while replicas join *)
(* and leave the pool between the attempts.                                *)
(***************************************************************************)
DeliveredOnce ==
    \A c \in Calls :
        /\ Cardinality(call[c].delivered) <= 1
        /\ Len(call[c].tried) <= MaxAttempts
        /\ \A i, j \in 1..Len(call[c].tried) : i # j => call[c].tried[i] # call[c].tried[j]

(***************************************************************************)
(* The slots and the in-flight counters account for the calls under way,   *)
(* whichever way an attempt ends and whether or not its replica is still   *)
(* in the pool: no slot leaks and no cap is exceeded.                      *)
(***************************************************************************)
SlotsExact ==
    /\ serviceSem = Cardinality({c \in Calls : call[c].pc \notin {"new", "queued", "done"}})
    /\ \A r \in Replicas :
          LET running == {c \in Calls : call[c].pc = "invoke" /\ Replica(c) = r}
          IN  sem[r] = Cardinality(running) /\ inflight[r] = Cardinality(running)

(***************************************************************************)
(* upstream.go says a replica with ejectAfter consecutive failures is      *)
(* skipped for ejectFor: with no health update under way, a replica with   *)
(* that streak has an ejection timestamp.                                  *)
(***************************************************************************)
StreakEjects ==
    \A r \in Replicas :
        (\A c \in Calls : call[c].pc \notin {"load", "clear", "uneject", "count", "eject"})
        => (EjectAfter > 0 /\ fails[r] >= EjectAfter => until[r] # "clear")

(***************************************************************************)
(* operations.md says the timeout covers the upstream call only, not the   *)
(* wait for a backpressure slot: a call whose timeout fired while it was   *)
(* waiting for its replica's slot is not counted as a failed one.          *)
(***************************************************************************)
TimeoutCoversCallOnly ==
    \A c \in Calls : call[c].pc = "count" => call[c].ctx # "late in queue"
=============================================================================
