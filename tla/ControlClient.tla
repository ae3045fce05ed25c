--------------------------- MODULE ControlClient ----------------------------
(***************************************************************************)
(* Services that register themselves (gw/controlclient/client.go) with the *)
(* control plane of ControlPlane: SelfRegister, the heartbeat loop with    *)
(* its re-registration after an eviction, and Close, over calls whose      *)
(* answer may be lost, with a gateway that may restart.                    *)
(***************************************************************************)
EXTENDS ControlPlane

CONSTANTS
    Clients,
    AddrOf, RequestOf,  \* a client's ServiceAddr and Services
    NoId,               \* r.id = ""
    MaxFaults           \* bound: lost answers, late heartbeats and restarts

ASSUME ClientAssumption ==
    /\ AddrOf \in [Clients -> Addrs] /\ RequestOf \in [Clients -> Requests]
    /\ Ids \subseteq Nat /\ NoId \notin Ids
    /\ MaxFaults \in Nat

VARIABLES
    cst,     \* where the client is: "down", "first" and "again" are in Register
    rid,     \* r.id
    faults

clientVars == <<cst, rid, faults>>
cvars == <<vars, clientVars>>

CTypeOK ==
    /\ cst \in [Clients -> {"down", "first", "up", "evicted", "again", "stopped", "closed"}]
    /\ rid \in [Clients -> Ids \cup {NoId}]
    /\ faults \in 0..MaxFaults

CInit == Init /\ cst = [c \in Clients |-> "down"] /\ rid = [c \in Clients |-> NoId] /\ faults = 0

Known(c) == rid[c] # NoId /\ regs[rid[c]] # NoReg
Calling(c) == cst[c] \in {"first", "again"} /\ call # Idle /\ call.addr = AddrOf[c]
To(c, s) == cst' = [cst EXCEPT ![c] = s]

\* SelfRegister and the loop's re-registration send the same Register.
SendRegister(c) ==
    /\ \/ cst[c] = "down" /\ To(c, "first")
       \/ cst[c] = "evicted" /\ To(c, "again")
    /\ \E id \in Ids : /\ \A i \in Ids \ issued : id <= i   \* ids are interchangeable
                      /\ RegisterStart(id, AddrOf[c], RequestOf[c])
    /\ UNCHANGED <<rid, faults>>

\* An error: SelfRegister returns it and the service gives up; the loop logs it
\* and keeps the old id.
Failed(c) == To(c, IF cst[c] = "first" THEN "closed" ELSE "up") /\ UNCHANGED rid

\* register: the id of the answer, unless that was lost.
RegisterAnswered(c) ==
    /\ Calling(c) /\ RegisterCommit
    /\ \/ To(c, "up") /\ rid' = [rid EXCEPT ![c] = call.id] /\ UNCHANGED faults
       \/ faults < MaxFaults /\ faults' = faults + 1 /\ Failed(c)

RegisterRefused(c) ==
    /\ Calling(c)
    /\ JoinRejected \/ JoinInvalid \/ JoinUnbuildable
    /\ Failed(c)
    /\ UNCHANGED faults

Joining == (JoinExisting \/ JoinCreating) /\ UNCHANGED clientVars

\* Mutation: the loop stops with the first registration.
BeatOnce(c) ==
    /\ cst[c] = "up" /\ Known(c) /\ Heartbeat(rid[c])
    /\ UNCHANGED clientVars

\* A turn of heartbeatLoop.
Beat(c) ==
    /\ cst[c] = "up" /\ rid[c] # NoId
    /\ \/ Known(c) /\ Heartbeat(rid[c]) /\ UNCHANGED cst
       \/ ~Known(c) /\ call = Idle /\ To(c, "evicted") /\ UNCHANGED vars
    /\ UNCHANGED <<rid, faults>>

\* Close stops the loop and waits for it; then it deregisters, and ignores what
\* comes of that.
Stop(c) ==
    /\ cst[c] = "up"
    /\ To(c, "stopped")
    /\ UNCHANGED <<vars, rid, faults>>

CloseDeregister(c) ==
    /\ cst[c] = "stopped" /\ call = Idle
    /\ To(c, "closed")
    /\ \/ Known(c) /\ Deregister(rid[c]) /\ UNCHANGED faults
       \/ ~Known(c) /\ UNCHANGED <<vars, faults>>
       \/ Known(c) /\ faults < MaxFaults /\ faults' = faults + 1 /\ UNCHANGED vars
    /\ UNCHANGED rid

\* The service dies without Close.
Die(c) ==
    /\ cst[c] = "up" /\ faults < MaxFaults
    /\ faults' = faults + 1
    /\ To(c, "closed")
    /\ UNCHANGED <<vars, rid>>

\* The gateway restarts with empty tables; a call under way fails.
GatewayRestart ==
    /\ faults < MaxFaults /\ faults' = faults + 1
    /\ slots' = EmptyIndex
    /\ stableVN' = [ns \in Namespaces |-> 0]
    /\ deprecation' = [k \in Keys |-> NoReason]
    /\ rejectedJoins' = {} /\ schema' = NotBuilt
    /\ regs' = [i \in Ids |-> NoReg] /\ conns' = [a \in Addrs |-> 0]
    /\ call' = Idle /\ stale' = {}
    /\ cst' = [c \in Clients |-> IF ~Calling(c) THEN cst[c]
                                 ELSE IF cst[c] = "first" THEN "closed" ELSE "up"]
    /\ UNCHANGED <<issued, rid>>

\* A client beats several times in a TTL: the clock passes it by only by a fault.
Timely == \A c \in Clients : cst[c] = "up" /\ Known(c) => regs[rid[c]].age < TTL
Clock ==
    /\ Tick
    /\ \/ Timely /\ UNCHANGED faults
       \/ ~Timely /\ faults < MaxFaults /\ faults' = faults + 1
    /\ UNCHANGED <<cst, rid>>

\* Ids are random, so they do not run out: one that nobody holds is drawn again.
Held(id) == regs[id] # NoReg \/ id \in stale \/ (\E c \in Clients : rid[c] = id)
Recycle ==
    /\ issued = Ids /\ call = Idle
    /\ issued' = {id \in Ids : Held(id)}
    /\ UNCHANGED <<gwVars, regs, conns, call, stale, clientVars>>

Janitor == (JanitorScan \/ \E id \in Ids : JanitorEvict(id)) /\ UNCHANGED clientVars
Serve == Handler /\ UNCHANGED clientVars

CNext ==
    \/ \E c \in Clients : \/ SendRegister(c) \/ RegisterAnswered(c) \/ RegisterRefused(c)
                          \/ Beat(c) \/ Stop(c) \/ CloseDeregister(c) \/ Die(c)
    \/ Joining \/ GatewayRestart \/ Clock \/ Janitor \/ Recycle \/ Serve

CSpec == CInit /\ [][CNext]_cvars

\* The loop's ticker fires and its calls return; the gateway's goroutines run,
\* and a heartbeat and the janitor get the mutex however often others take it.
CFairness ==
    /\ \A c \in Clients :
          /\ WF_cvars(cst[c] = "evicted" /\ SendRegister(c))
          /\ WF_cvars(RegisterAnswered(c) \/ RegisterRefused(c))
          /\ SF_cvars(Beat(c)) /\ WF_cvars(CloseDeregister(c))
    /\ WF_cvars(Joining) /\ WF_cvars(Clock) /\ WF_cvars(Recycle)
    /\ SF_cvars(Janitor)
CFairSpec == CSpec /\ CFairness

-----------------------------------------------------------------------------
KeysOf(c) == {RequestOf[c][i].key : i \in 1..Len(RequestOf[c])}
ServedUnder(c, k) == slots[k] # NoSlot /\ \E r \in slots[k].replicas : r.owner = rid[c]
HeldBy(id) == {c \in Clients : rid[c] = id /\ cst[c] \in {"up", "evicted", "again", "stopped"}}

(***************************************************************************)
(* A service whose heartbeats are answered Ok is dispatched to under every *)
(* vN it registered, whatever other services swapped, rolled back or lost. *)
(***************************************************************************)
OkMeansServed ==
    \A c \in Clients : cst[c] = "up" /\ Known(c) =>
        \A k \in KeysOf(c) : ~IsUnstable(k) => ServedUnder(c, k)

(***************************************************************************)
(* The same for the unstable slot.                                         *)
(***************************************************************************)
OkMeansServedUnstable ==
    \A c \in Clients : cst[c] = "up" /\ Known(c) => \A k \in KeysOf(c) : ServedUnder(c, k)

\* A version of the client's is served with another schema.
LockedOut(c) == \E i \in 1..Len(RequestOf[c]) : Locked(slots, RequestOf[c][i].key, RequestOf[c][i].spec)

(***************************************************************************)
(* A running service comes back after an eviction, a lost answer or a      *)
(* restart of the gateway: it is registered again, or is being closed, or  *)
(* one of its versions is served with another schema.                      *)
(***************************************************************************)
Recovers ==
    \A c \in Clients : cst[c] \in {"up", "evicted", "again"} ~>
        \/ cst[c] = "up" /\ Known(c)
        \/ cst[c] \in {"stopped", "closed"}
        \/ LockedOut(c)

(***************************************************************************)
(* A registration no running service holds (its answer was lost, its       *)
(* Deregister was lost, its service died) is evicted in the end.           *)
(***************************************************************************)
OrphansEvicted ==
    \A id \in Ids : (regs[id] # NoReg /\ HeldBy(id) = {}) ~> regs[id] = NoReg \/ HeldBy(id) # {}

-----------------------------------------------------------------------------
(* A small instance for TLC.                                               *)

CONSTANTS x, y, c1, c2

Both == <<B(0, p2), B(1, p1)>>  \* the unstable slot, then v1
Other == <<B(0, o1), B(1, o1)>> \* swaps the unstable slot; v1 with another schema

MCRequests == {Both, Other}
Conflicting == c1 :> Both @@ c2 :> Other
Separate == c1 :> x @@ c2 :> y
=============================================================================
