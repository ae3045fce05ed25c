--------------------------- MODULE SessionsProofs ---------------------------
(***************************************************************************)
(* Proofs about Sessions, for any number of connections, addresses and     *)
(* streams, any limits, and any deployment; about Uploads, for any file,   *)
(* chunks and handlers; and about GatStreams, for any operations.          *)
(***************************************************************************)
EXTENDS MCSessions, FiniteSetTheorems, SequenceTheorems, TLAPS

(***************************************************************************)
(* The inductive invariant has a part for the limiter and one for the      *)
(* stream slots.                                                           *)
(*                                                                         *)
(* The limiter: what an address was admitted and still has in its bucket   *)
(* is what the burst and the rate gave it up to its last refill, not up to *)
(* now; the time since is what the next refill may add.                    *)
(***************************************************************************)
Places(p) == {c \in Conns : dep.ip[c] = p /\ Live(c)}

LimiterData ==
    /\ dep \in Deployments
    /\ now \in 0..MaxTime /\ tokens \in [IPs -> 0..Burst] /\ last \in [IPs -> 0..MaxTime]
    /\ counts \in [IPs -> Nat] /\ admitted \in [IPs -> Nat]
    /\ cpc \in [Conns -> {"idle", "acquired", "passed", "init", "ready", "closed"}]
PlacesCounted == \A p \in IPs \ Trusted : counts[p] = Cardinality(Places(p)) /\ counts[p] <= MaxPerIP
RateKept ==
    \A p \in IPs \ Trusted : last[p] <= now /\ admitted[p] + tokens[p] <= Burst + Rate * last[p]
LimiterInv == LimiterData /\ PlacesCounted /\ RateKept

limiterData == <<dep, now, tokens, last, counts, admitted, cpc>>

(***************************************************************************)
(* The slots: what a stream holds, and whether it is counted, follows from *)
(* where its goroutine is and which caps are on.  That a failed or refused *)
(* one holds nothing, unless it is stuck on a pool without a cap, rests on *)
(* this.                                                                   *)
(***************************************************************************)
SlotData ==
    /\ dep \in Deployments
    /\ spc \in [Streams -> {"unused", "start", "global", "opening", "open", "eof", "stuck", "over"}]
    /\ id \in [Streams -> Ids]
    /\ holds \in [Streams -> SUBSET {"global", "pool"}] /\ counted \in [Streams -> BOOLEAN]
HeldAsPlaced ==
    \A s \in Streams :
        /\ "global" \in holds[s] <=>
               /\ MaxStreamsTotal > 0
               /\ spc[s] \in {"global", "opening", "open", "eof"} \/ (spc[s] = "stuck" /\ MaxStreams = 0)
        /\ "pool" \in holds[s] <=> MaxStreams > 0 /\ spc[s] \in {"opening", "open", "eof"}
        /\ spc[s] = "stuck" => Pool(s) = "proto"
        /\ counted[s] <=> spc[s] \in {"open", "eof"}
GlobalKept == MaxStreamsTotal > 0 => GlobalUsed <= MaxStreamsTotal
PoolKept == \A k \in Kinds : MaxStreams > 0 => PoolUsed(k) <= MaxStreams
SlotInv == SlotData /\ HeldAsPlaced /\ GlobalKept /\ PoolKept

slotData == <<dep, spc, id, holds, counted>>

-----------------------------------------------------------------------------
(* The limiter.                                                            *)

LEMMA Constants ==
    /\ MaxPerIP \in Nat /\ Burst \in Nat /\ Rate \in Nat /\ MaxTime \in Nat
    /\ MaxPerIP > 0 /\ Burst > 0 /\ Rate > 0
BY SessionsAssumption

\* What the rate gives from b to a is what it gives to a and did not to b.
LEMMA RateAdds ==
    ASSUME NEW a \in Nat, NEW b \in Nat, NEW r \in Nat, b <= a
    PROVE  (a - b) * r \in Nat /\ (a - b) * r + r * b = r * a /\ r * b \in Nat /\ r * a \in Nat /\ r * b <= r * a
<1>1. r * b \in Nat /\ r * a \in Nat OBVIOUS
<1>2. PICK d \in Nat : a = b + d /\ a - b = d
  <2>1. a - b \in Nat /\ a = b + (a - b) OBVIOUS
  <2> QED BY <2>1
<1>3. d * r \in Nat /\ r * (b + d) = r * b + d * r OBVIOUS
<1> QED BY <1>1, <1>2, <1>3

LEMMA AddressOf == ASSUME LimiterData, NEW c \in Conns PROVE dep.ip[c] \in IPs
BY SessionsAssumption DEF LimiterData

LEMMA PlacesFinite ==
    ASSUME NEW p PROVE IsFiniteSet(Places(p)) /\ Cardinality(Places(p)) \in Nat
<1>1. Places(p) \subseteq Conns BY DEF Places
<1> QED BY <1>1, FS_Subset, FS_CardinalityType, SessionsAssumption

LEMMA LimiterInit == Init => LimiterInv
<1> SUFFICES ASSUME Init PROVE LimiterInv OBVIOUS
<1>1. LimiterData BY Constants DEF Init, LimiterData
<1>2. \A p : Places(p) = {} BY DEF Init, Places, Live
<1>3. PlacesCounted
  <2>1. Cardinality({}) = 0 BY FS_EmptySet
  <2>2. \A p \in IPs : Cardinality(Places(p)) = 0 BY <1>2, <2>1
  <2>3. \A p \in IPs : counts[p] = 0 BY DEF Init
  <2> QED BY <2>2, <2>3, Constants DEF PlacesCounted
<1>4. RateKept BY Constants DEF Init, RateKept
<1> QED BY <1>1, <1>3, <1>4 DEF LimiterInv

LEMMA LimiterSame == ASSUME LimiterInv, UNCHANGED limiterData PROVE LimiterInv'
<1>1. \A p : Places(p)' = Places(p) BY DEF limiterData, Places, Live
<1>2. LimiterData' BY DEF LimiterInv, LimiterData, limiterData
<1>3. PlacesCounted' BY <1>1 DEF LimiterInv, PlacesCounted, limiterData
<1>4. RateKept' BY DEF LimiterInv, RateKept, limiterData
<1> QED BY <1>2, <1>3, <1>4 DEF LimiterInv

\* A connection that holds its place moves on.
LEMMA LimiterKeeps ==
    ASSUME LimiterInv, NEW c \in Conns, NEW to \in {"acquired", "passed", "init", "ready"},
           Live(c), Move(c, to), UNCHANGED <<dep, now, tokens, last, counts, admitted>>
    PROVE  LimiterInv'
<1>1. LimiterData' BY DEF LimiterInv, LimiterData, Move
<1>2. \A d \in Conns : Live(d)' <=> Live(d) BY DEF LimiterInv, LimiterData, Move, Live
<1>3. \A p : Places(p)' = Places(p) BY <1>2 DEF Places
<1>4. PlacesCounted' BY <1>3 DEF LimiterInv, PlacesCounted
<1>5. RateKept' BY DEF LimiterInv, RateKept
<1> QED BY <1>1, <1>4, <1>5 DEF LimiterInv

\* A connection gives its place back.
LEMMA LimiterReleases ==
    ASSUME LimiterInv, NEW c \in Conns, Live(c), Move(c, "closed"), counts' = Released(c),
           UNCHANGED <<dep, now, tokens, last, admitted>>
    PROVE  LimiterInv'
<1> DEFINE q == dep.ip[c]
<1>0. LimiterData /\ q \in IPs BY AddressOf DEF LimiterInv
<1>1. \A d \in Conns : Live(d)' <=> Live(d) /\ d # c BY <1>0 DEF LimiterData, Move, Live
<1>2. \A p : Places(p)' = IF p = q THEN Places(p) \ {c} ELSE Places(p) BY <1>1 DEF Places
<1>3. c \in Places(q) BY DEF Places
<1>4. /\ IsFiniteSet(Places(q) \ {c})
      /\ Cardinality(Places(q) \ {c}) = Cardinality(Places(q)) - 1
      /\ Cardinality(Places(q)) \in Nat /\ Cardinality(Places(q) \ {c}) \in Nat
  BY <1>3, PlacesFinite, FS_RemoveElement, FS_CardinalityType
<1>5. CASE q \in Trusted
  <2>1. counts' = counts BY <1>5 DEF Released, Limited
  <2>2. LimiterData' BY <1>0, <2>1 DEF LimiterData, Move
  <2>3. PlacesCounted' BY <1>2, <1>5, <2>1 DEF LimiterInv, PlacesCounted
  <2>4. RateKept' BY DEF LimiterInv, RateKept
  <2> QED BY <2>2, <2>3, <2>4 DEF LimiterInv
<1>6. CASE q \notin Trusted
  <2>1. counts' = [counts EXCEPT ![q] = counts[q] - 1] BY <1>6 DEF Released, Limited
  <2>2. counts[q] = Cardinality(Places(q)) /\ counts[q] <= MaxPerIP
    BY <1>0, <1>6 DEF LimiterInv, PlacesCounted
  <2>3. counts[q] - 1 \in Nat BY <1>4, <2>2
  <2>4. LimiterData' BY <1>0, <2>1, <2>3 DEF LimiterData, Move
  <2>5. counts'[q] = Cardinality(Places(q) \ {c}) /\ counts'[q] <= MaxPerIP
    BY <1>0, <1>4, <2>1, <2>2, <2>3, Constants DEF LimiterData
  <2>6. \A p \in IPs : p # q => counts'[p] = counts[p] BY <1>0, <2>1 DEF LimiterData
  <2>7. PlacesCounted' BY <1>2, <2>5, <2>6 DEF LimiterInv, PlacesCounted
  <2>8. RateKept' BY DEF LimiterInv, RateKept
  <2> QED BY <2>4, <2>7, <2>8 DEF LimiterInv
<1> QED BY <1>5, <1>6

LEMMA LimiterTick == ASSUME LimiterInv, Tick PROVE LimiterInv'
<1>0. LimiterData /\ now \in Nat /\ now' = now + 1 /\ now' \in 0..MaxTime
  BY Constants DEF LimiterInv, LimiterData, Tick
<1>1. LimiterData' BY <1>0 DEF LimiterData, Tick, connVars
<1>2. \A p : Places(p)' = Places(p) BY DEF Tick, connVars, Places, Live
<1>3. PlacesCounted' BY <1>2 DEF LimiterInv, PlacesCounted, Tick
<1>4. \A p \in IPs \ Trusted : last'[p] <= now'
  BY <1>0, Constants DEF LimiterInv, LimiterData, RateKept, Tick
<1>5. RateKept' BY <1>4 DEF LimiterInv, RateKept, Tick
<1> QED BY <1>1, <1>3, <1>5 DEF LimiterInv

LEMMA LimiterAcquire == ASSUME LimiterInv, NEW c \in Conns, Acquire(c) PROVE LimiterInv'
<1> DEFINE p == dep.ip[c]
           R == Refilled(p)
<1>0. LimiterData /\ p \in IPs /\ dep' = dep /\ now' = now /\ cpc[c] = "idle"
  BY AddressOf DEF LimiterInv, Acquire
<1>1. now \in Nat /\ tokens[p] \in Nat /\ tokens[p] <= Burst /\ last[p] \in Nat /\ counts[p] \in Nat /\ admitted[p] \in Nat
  BY <1>0, Constants DEF LimiterData
<1>2. ~Live(c) BY <1>0 DEF Live
<1>3. CASE ~Limited(p) /\ Move(c, "acquired") /\ UNCHANGED <<tokens, last, counts, admitted>>
  <2>1. LimiterData' BY <1>0, <1>3 DEF LimiterData, Move
  <2>2. \A d \in Conns : Live(d)' <=> Live(d) \/ d = c BY <1>0, <1>3 DEF LimiterData, Move, Live
  <2>3. \A o : o # p => Places(o)' = Places(o) BY <1>0, <2>2 DEF Places
  <2>4. PlacesCounted' BY <1>3, <2>3 DEF LimiterInv, PlacesCounted, Limited
  <2>5. RateKept' BY <1>0, <1>3 DEF LimiterInv, RateKept
  <2> QED BY <2>1, <2>4, <2>5 DEF LimiterInv
<1>4. ASSUME Limited(p)
      PROVE  /\ R \in 0..Burst /\ R \in Nat
             /\ admitted[p] + R <= Burst + Rate * now
             /\ Rate * last[p] <= Rate * now /\ Rate * now \in Nat /\ Rate * last[p] \in Nat
             /\ last[p] <= now /\ admitted[p] + tokens[p] <= Burst + Rate * last[p]
             /\ tokens[p] <= R
  <2>1. last[p] <= now /\ admitted[p] + tokens[p] <= Burst + Rate * last[p]
    BY <1>0, <1>4 DEF LimiterInv, RateKept, Limited
  <2>2. PICK g \in Nat : g = (now - last[p]) * Rate /\ g + Rate * last[p] = Rate * now
    BY <1>1, <2>1, RateAdds, Constants
  <2>3. Rate * last[p] <= Rate * now /\ Rate * now \in Nat /\ Rate * last[p] \in Nat
    BY <1>1, <2>1, RateAdds, Constants
  <2>4. R = IF tokens[p] + g > Burst THEN Burst ELSE tokens[p] + g BY <2>2 DEF Refilled, Capped
  <2>5. R \in Nat /\ R <= Burst /\ tokens[p] <= R /\ R <= tokens[p] + g BY <1>1, <2>2, <2>4, Constants
  <2>6. admitted[p] + R <= Burst + Rate * now
    <3> DEFINE x == Rate * last[p]
               y == Rate * now
    <3>1. x \in Nat /\ y \in Nat /\ g + x = y /\ admitted[p] + tokens[p] <= Burst + x BY <2>1, <2>2, <2>3
    <3> HIDE DEF x, y, R
    <3>2. admitted[p] + R <= Burst + y BY <1>1, <2>2, <2>5, <3>1, Constants
    <3> QED BY <3>2 DEF y
  <2> QED BY <2>1, <2>3, <2>5, <2>6, Constants
<1> HIDE DEF R
\* Refused: the place is not taken.
<1>5. ASSUME NEW t \in Nat, t <= R, Limited(p), Move(c, "closed"), tokens' = [tokens EXCEPT ![p] = t],
             last' = [last EXCEPT ![p] = now], UNCHANGED <<counts, admitted>>
      PROVE  LimiterInv'
  <2>1. t \in 0..Burst /\ now \in 0..MaxTime BY <1>0, <1>4, <1>5, Constants DEF LimiterData
  <2>2. LimiterData' BY <1>0, <1>5, <2>1 DEF LimiterData, Move
  <2>3. \A d \in Conns : Live(d)' <=> Live(d) BY <1>0, <1>2, <1>5 DEF LimiterData, Move, Live
  <2>4. \A o : Places(o)' = Places(o) BY <1>0, <2>3 DEF Places
  <2>5. PlacesCounted' BY <1>5, <2>4 DEF LimiterInv, PlacesCounted
  <2>6. tokens'[p] = t /\ last'[p] = now /\ admitted'[p] = admitted[p] BY <1>0, <1>5 DEF LimiterData
  <2>7. admitted[p] + t <= Burst + Rate * now BY <1>1, <1>4, <1>5, Constants
  <2>8. \A o \in IPs : o # p => tokens'[o] = tokens[o] /\ last'[o] = last[o] /\ admitted'[o] = admitted[o]
    BY <1>0, <1>5 DEF LimiterData
  <2>9. RateKept' BY <1>0, <1>1, <2>6, <2>7, <2>8 DEF LimiterInv, RateKept
  <2> QED BY <2>2, <2>5, <2>9 DEF LimiterInv
<1>6. CASE Limited(p) /\ R = 0 /\ Move(c, "closed") /\ last' = [last EXCEPT ![p] = now]
           /\ UNCHANGED <<tokens, counts, admitted>>
  <2>1. tokens' = [tokens EXCEPT ![p] = tokens[p]] BY <1>0, <1>6 DEF LimiterData
  <2> QED BY <1>1, <1>4, <1>5, <1>6, <2>1
<1>7. CASE Limited(p) /\ Move(c, "closed") /\ tokens' = [tokens EXCEPT ![p] = R]
           /\ last' = [last EXCEPT ![p] = now] /\ UNCHANGED <<counts, admitted>>
  <2>1. R \in Nat /\ R <= R BY <1>4, <1>7
  <2> QED BY <1>5, <1>7, <2>1
\* Admitted: one token, one place.
<1>8. CASE /\ Limited(p) /\ R > 0 /\ counts[p] < MaxPerIP
           /\ Move(c, "acquired")
           /\ tokens' = [tokens EXCEPT ![p] = R - 1]
           /\ last' = [last EXCEPT ![p] = now]
           /\ counts' = [counts EXCEPT ![p] = counts[p] + 1]
           /\ admitted' = [admitted EXCEPT ![p] = admitted[p] + 1]
  <2>1. R - 1 \in 0..Burst /\ R - 1 \in Nat /\ now \in 0..MaxTime /\ counts[p] + 1 \in Nat /\ admitted[p] + 1 \in Nat
    BY <1>0, <1>1, <1>4, <1>8, Constants DEF LimiterData
  <2>2. LimiterData' BY <1>0, <1>8, <2>1 DEF LimiterData, Move
  <2>3. \A d \in Conns : Live(d)' <=> Live(d) \/ d = c BY <1>0, <1>8 DEF LimiterData, Move, Live
  <2>4. \A o : Places(o)' = IF o = p THEN Places(o) \cup {c} ELSE Places(o) BY <1>0, <2>3 DEF Places
  <2>5. c \notin Places(p) BY <1>2 DEF Places
  <2>6. Cardinality(Places(p) \cup {c}) = Cardinality(Places(p)) + 1
    BY <2>5, PlacesFinite, FS_AddElement
  <2>7. /\ counts'[p] = counts[p] + 1 /\ admitted'[p] = admitted[p] + 1
        /\ tokens'[p] = R - 1 /\ last'[p] = now
    BY <1>0, <1>8 DEF LimiterData
  <2>8. \A o \in IPs : o # p => /\ tokens'[o] = tokens[o] /\ last'[o] = last[o]
                                /\ admitted'[o] = admitted[o] /\ counts'[o] = counts[o]
    BY <1>0, <1>8 DEF LimiterData
  <2>9. counts[p] = Cardinality(Places(p)) BY <1>0, <1>8 DEF LimiterInv, PlacesCounted, Limited
  <2>10. counts'[p] = Cardinality(Places(p) \cup {c}) /\ counts'[p] <= MaxPerIP
    BY <1>1, <1>8, <2>6, <2>7, <2>9, Constants
  <2>11. PlacesCounted' BY <2>4, <2>8, <2>10 DEF LimiterInv, PlacesCounted
  <2>12. (admitted[p] + 1) + (R - 1) <= Burst + Rate * now BY <1>1, <1>4, <1>8, Constants
  <2>13. RateKept' BY <1>0, <1>1, <2>7, <2>8, <2>12 DEF LimiterInv, RateKept
  <2> QED BY <2>2, <2>11, <2>13 DEF LimiterInv
<1> QED BY <1>3, <1>6, <1>7, <1>8 DEF Acquire, R

LEMMA LimiterStep == ASSUME LimiterInv, [Next]_vars PROVE LimiterInv'
<1> USE DEF limiterData, limiterVars, drainVars, connVars, streamVars
<1>1. ASSUME NEW c \in Conns, ConnStep(c) PROVE LimiterInv'
  <2>1. CASE Acquire(c) BY <2>1, LimiterAcquire
  <2>2. CASE CheckDraining(c)
    <3>1. CASE draining /\ Move(c, "closed") /\ counts' = Released(c)
      BY <2>2, <3>1, LimiterReleases DEF CheckDraining, Live
    <3>2. CASE ~draining /\ Move(c, "passed") /\ UNCHANGED counts
      BY <2>2, <3>2, LimiterKeeps DEF CheckDraining, Live
    <3> QED BY <2>2, <3>1, <3>2 DEF CheckDraining
  <2>3. CASE RegisterConn(c) BY <2>3, LimiterKeeps DEF RegisterConn, Live
  <2>4. CASE ConnInit(c) BY <2>4, LimiterKeeps DEF ConnInit, Live
  <2>5. CASE ConnEnds(c) BY <2>5, LimiterReleases DEF ConnEnds, Live
  <2> QED BY <1>1, <2>1, <2>2, <2>3, <2>4, <2>5 DEF ConnStep
<1>2. ASSUME NEW c \in Conns, ClientStep(c) PROVE UNCHANGED limiterData
  BY <1>2 DEF ClientStep, Complete, Subscribe
<1>3. ASSUME NEW s \in Streams, StreamStep(s) PROVE UNCHANGED limiterData
  BY <1>3 DEF StreamStep, TakeGlobal, TakePool, OpenFails, OpenSucceeds, UpstreamEnds, ContextEnds
<1>4. ASSUME StartDrain \/ DrainCancels \/ DrainReturns PROVE UNCHANGED limiterData
  BY <1>4 DEF StartDrain, DrainCancels, DrainReturns
<1>5. CASE UNCHANGED vars BY <1>5, LimiterSame DEF vars
<1> QED BY <1>1, <1>2, <1>3, <1>4, <1>5, LimiterSame, LimiterTick DEF Next

(***************************************************************************)
(* The limiter's count is exactly the upgrades and connections that hold a *)
(* place, within the limit, and no address had more upgrades than burst    *)
(* and rate allow (ws_limit.go, and every return of the upgrade).          *)
(***************************************************************************)
THEOREM LimiterExactHolds == Spec => []LimiterExact
<1>1. LimiterInv => LimiterExact
  <2> SUFFICES ASSUME LimiterInv, NEW p \in IPs \ Trusted
               PROVE  /\ counts[p] = Cardinality({c \in Conns : dep.ip[c] = p /\ Live(c)})
                      /\ counts[p] <= MaxPerIP
                      /\ admitted[p] + tokens[p] <= Burst + Rate * now
    BY DEF LimiterExact
  <2>1. counts[p] = Cardinality(Places(p)) /\ counts[p] <= MaxPerIP BY DEF LimiterInv, PlacesCounted
  <2>2. last[p] \in Nat /\ now \in Nat /\ last[p] <= now /\ admitted[p] \in Nat /\ tokens[p] \in Nat
    BY Constants DEF LimiterInv, LimiterData, RateKept
  <2>3. Rate * last[p] <= Rate * now /\ Rate * last[p] \in Nat /\ Rate * now \in Nat
    BY <2>2, RateAdds, Constants
  <2>4. admitted[p] + tokens[p] <= Burst + Rate * last[p] BY DEF LimiterInv, RateKept
  <2>5. admitted[p] + tokens[p] <= Burst + Rate * now BY <2>2, <2>3, <2>4, Constants
  <2> QED BY <2>1, <2>5 DEF Places
<1>2. LimiterInv /\ [Next]_vars => LimiterInv' BY LimiterStep
<1> QED BY <1>1, <1>2, LimiterInit, PTL DEF Spec

-----------------------------------------------------------------------------
(* The stream slots.                                                       *)

GlobalHeld == {s \in Streams : "global" \in holds[s]}
PoolHeld(k) == {s \in Streams : "pool" \in holds[s] /\ Pool(s) = k}

LEMMA Smaller ==
    ASSUME NEW S \in SUBSET Streams, NEW T \in SUBSET S
    PROVE  IsFiniteSet(S) /\ Cardinality(S) \in Nat /\ Cardinality(T) \in Nat /\ Cardinality(T) <= Cardinality(S)
<1>1. IsFiniteSet(S) BY FS_Subset, SessionsAssumption
<1>2. IsFiniteSet(T) /\ Cardinality(T) <= Cardinality(S) BY <1>1, FS_Subset
<1> QED BY <1>1, <1>2, FS_CardinalityType

LEMMA CapsTyped == ASSUME SlotData PROVE MaxStreamsTotal \in Nat /\ MaxStreams \in Nat
BY SessionsAssumption DEF SlotData, MaxStreamsTotal, MaxStreams

LEMMA SlotInit == Init => SlotInv
<1> SUFFICES ASSUME Init PROVE SlotInv OBVIOUS
<1>1. (CHOOSE i \in Ids : TRUE) \in Ids BY SessionsAssumption
<1>2. counted \in [Streams -> BOOLEAN] BY DEF Init
<1>3. SlotData BY <1>1, <1>2 DEF Init, SlotData
<1>4. \A s \in Streams : holds[s] = {} BY DEF Init
<1>5. \A s \in Streams : ~counted[s] BY DEF Init
<1>6. HeldAsPlaced BY <1>4, <1>5 DEF Init, HeldAsPlaced
<1>7. Cardinality({}) = 0 BY FS_EmptySet
<1>8. GlobalKept
  <2>1. GlobalHeld = {} BY <1>4 DEF GlobalHeld
  <2> QED BY <1>3, <1>7, <2>1, CapsTyped DEF GlobalKept, GlobalUsed, GlobalHeld
<1>9. PoolKept
  <2>1. \A k \in Kinds : PoolHeld(k) = {} BY <1>4 DEF PoolHeld
  <2> QED BY <1>3, <1>7, <2>1, CapsTyped DEF PoolKept, PoolUsed, PoolHeld
<1> QED BY <1>3, <1>6, <1>8, <1>9 DEF SlotInv

\* Nobody takes a slot.
LEMMA SlotsShrink ==
    ASSUME SlotInv, SlotData', HeldAsPlaced', dep' = dep,
           \A s \in Streams : /\ "global" \in holds'[s] => "global" \in holds[s]
                              /\ "pool" \in holds'[s] => "pool" \in holds[s] /\ id'[s] = id[s]
    PROVE  SlotInv'
<1>0. SlotData /\ GlobalKept /\ PoolKept BY DEF SlotInv
<1>1. MaxStreamsTotal' = MaxStreamsTotal /\ MaxStreams' = MaxStreams BY DEF MaxStreamsTotal, MaxStreams
<1>2. MaxStreamsTotal \in Nat /\ MaxStreams \in Nat BY <1>0, CapsTyped
<1>3. GlobalKept'
  <2>1. GlobalHeld' \in SUBSET GlobalHeld /\ GlobalHeld \in SUBSET Streams BY DEF GlobalHeld
  <2>2. /\ Cardinality(GlobalHeld) \in Nat /\ Cardinality(GlobalHeld') \in Nat
        /\ Cardinality(GlobalHeld') <= Cardinality(GlobalHeld)
    BY <2>1, Smaller
  <2>3. MaxStreamsTotal > 0 => Cardinality(GlobalHeld) <= MaxStreamsTotal
    BY <1>0 DEF GlobalKept, GlobalUsed, GlobalHeld
  <2>4. MaxStreamsTotal > 0 => Cardinality(GlobalHeld') <= MaxStreamsTotal BY <1>2, <2>2, <2>3
  <2> QED BY <1>1, <2>4 DEF GlobalKept, GlobalUsed, GlobalHeld
<1>4. PoolKept'
  <2> SUFFICES ASSUME NEW k \in Kinds, MaxStreams > 0 PROVE PoolUsed(k)' <= MaxStreams
    BY <1>1 DEF PoolKept
  <2>1. PoolHeld(k)' \in SUBSET PoolHeld(k) /\ PoolHeld(k) \in SUBSET Streams BY DEF PoolHeld, Pool
  <2>2. /\ Cardinality(PoolHeld(k)) \in Nat /\ Cardinality(PoolHeld(k)') \in Nat
        /\ Cardinality(PoolHeld(k)') <= Cardinality(PoolHeld(k))
    BY <2>1, Smaller
  <2>3. Cardinality(PoolHeld(k)) <= MaxStreams BY <1>0 DEF PoolKept, PoolUsed, PoolHeld
  <2>4. Cardinality(PoolHeld(k)') <= MaxStreams BY <1>2, <2>2, <2>3
  <2> QED BY <2>4 DEF PoolUsed, PoolHeld
<1> QED BY <1>3, <1>4 DEF SlotInv

\* A stream ends, with all it held given back but what it is stuck with.
LEMMA SlotsDropped ==
    ASSUME SlotInv, NEW s \in Streams, NEW to \in {"over", "stuck"}, NEW kept \in SUBSET holds[s],
           "global" \in kept <=> MaxStreamsTotal > 0 /\ to = "stuck" /\ MaxStreams = 0,
           "pool" \notin kept, to = "stuck" => Pool(s) = "proto",
           spc' = [spc EXCEPT ![s] = to], holds' = [holds EXCEPT ![s] = kept],
           counted' = [counted EXCEPT ![s] = FALSE], UNCHANGED <<dep, id>>
    PROVE  SlotInv'
<1>0. SlotData /\ HeldAsPlaced BY DEF SlotInv
<1>1. SlotData'
  <2>1. spc' \in [Streams -> {"unused", "start", "global", "opening", "open", "eof", "stuck", "over"}]
    BY <1>0 DEF SlotData
  <2>2. counted' \in [Streams -> BOOLEAN] BY <1>0 DEF SlotData
  <2>3. holds' \in [Streams -> SUBSET {"global", "pool"}] BY <1>0 DEF SlotData
  <2> QED BY <1>0, <2>1, <2>2, <2>3 DEF SlotData
<1>2. \A u \in Streams : u # s => spc'[u] = spc[u] /\ holds'[u] = holds[u] /\ counted'[u] = counted[u]
  BY <1>0 DEF SlotData
<1>3. holds'[s] = kept BY <1>0 DEF SlotData
<1>4. ~counted'[s] /\ spc'[s] = to BY <1>0 DEF SlotData
<1>5. HeldAsPlaced'
  <2>1. /\ MaxStreamsTotal' = MaxStreamsTotal /\ MaxStreams' = MaxStreams
        /\ \A u \in Streams : Pool(u)' = Pool(u)
    BY DEF MaxStreamsTotal, MaxStreams, Pool
  <2> QED BY <1>0, <1>2, <1>3, <1>4, <2>1 DEF HeldAsPlaced
<1> QED BY <1>1, <1>2, <1>3, <1>5, SlotsShrink

\* What a stream does not get to return is the global slot, where the pool has
\* no cap.
LEMMA UnreturnedIs ==
    ASSUME SlotInv, NEW s \in Streams, spc[s] \in {"global", "opening", "open", "eof"}
    PROVE  /\ Unreturned(s) \in SUBSET holds[s] /\ "pool" \notin Unreturned(s)
           /\ "global" \in Unreturned(s) <=> MaxStreamsTotal > 0 /\ Blocks(s) /\ MaxStreams = 0
           /\ Blocks(s) => Pool(s) = "proto"
<1>0. SlotData /\ HeldAsPlaced BY DEF SlotInv
<1>1. MaxStreamsTotal \in Nat /\ MaxStreams \in Nat BY <1>0, CapsTyped
<1>2. CASE Pool(s) = "proto" /\ MaxStreams = 0
  <2>1. Unreturned(s) = holds[s] /\ Blocks(s) BY <1>2 DEF Unreturned, Blocks
  <2> QED BY <1>0, <1>1, <1>2, <2>1 DEF HeldAsPlaced
<1>3. CASE ~(Pool(s) = "proto" /\ MaxStreams = 0) BY <1>3 DEF Unreturned, Blocks
<1> QED BY <1>2, <1>3

\* A stream that was counted, or was not, ends as it gives its slots back.
LEMMA SlotsReleased ==
    ASSUME SlotInv, NEW s \in Streams, spc[s] \in {"global", "opening", "open", "eof"},
           spc' = [spc EXCEPT ![s] = IF Blocks(s) THEN "stuck" ELSE "over"],
           holds' = [holds EXCEPT ![s] = Unreturned(s)],
           counted' = [counted EXCEPT ![s] = FALSE], UNCHANGED <<dep, id>>
    PROVE  SlotInv'
<1> DEFINE to == IF Blocks(s) THEN "stuck" ELSE "over"
           kept == Unreturned(s)
<1>1. to \in {"over", "stuck"} /\ (to = "stuck" <=> Blocks(s)) OBVIOUS
<1>2. spc' = [spc EXCEPT ![s] = to] /\ holds' = [holds EXCEPT ![s] = kept] OBVIOUS
<1>3. /\ kept \in SUBSET holds[s] /\ "pool" \notin kept
      /\ "global" \in kept <=> MaxStreamsTotal > 0 /\ to = "stuck" /\ MaxStreams = 0
      /\ to = "stuck" => Pool(s) = "proto"
  BY <1>1, UnreturnedIs
<1> HIDE DEF to, kept
<1> QED BY <1>1, <1>2, <1>3, SlotsDropped

LEMMA SlotSame == ASSUME SlotInv, UNCHANGED slotData PROVE SlotInv'
<1>1. SlotData' BY DEF SlotInv, SlotData, slotData
<1>2. HeldAsPlaced' BY DEF SlotInv, HeldAsPlaced, slotData, MaxStreamsTotal, MaxStreams, Pool
<1> QED BY <1>1, <1>2, SlotsShrink DEF slotData

\* A stream without a slot ends.
LEMMA SlotlessEnds ==
    ASSUME SlotInv, NEW s \in Streams, spc[s] = "start", Fail(s), UNCHANGED <<dep, id, holds, counted>>
    PROVE  SlotInv'
<1>0. SlotData /\ HeldAsPlaced BY DEF SlotInv
<1>1. holds[s] = {} BY <1>0 DEF SlotData, HeldAsPlaced
<1>2. ~counted[s] BY <1>0 DEF HeldAsPlaced
<1>3. holds' = [holds EXCEPT ![s] = {}] BY <1>0, <1>1 DEF SlotData
<1>4. counted' = [counted EXCEPT ![s] = FALSE]
  <2>1. counted[s] = FALSE BY <1>0, <1>2 DEF SlotData
  <2> QED BY <1>0, <2>1 DEF SlotData
<1>5. spc' = [spc EXCEPT ![s] = "over"] BY DEF Fail
<1> QED BY <1>3, <1>4, <1>5, SlotsDropped

LEMMA SlotSubscribe ==
    ASSUME SlotInv, NEW c \in Conns, NEW i \in Ids, NEW s \in Streams, Subscribe(c, i, s) PROVE SlotInv'
<1>0. /\ SlotData /\ HeldAsPlaced /\ spc[s] = "unused" /\ dep' = dep
      /\ spc' = [spc EXCEPT ![s] = "start"] /\ id' = [id EXCEPT ![s] = i]
      /\ holds' = holds /\ counted' = counted
  BY DEF SlotInv, Subscribe
<1>1. SlotData'
  <2>1. spc' \in [Streams -> {"unused", "start", "global", "opening", "open", "eof", "stuck", "over"}]
    BY <1>0 DEF SlotData
  <2> QED BY <1>0, <2>1 DEF SlotData
<1>2. \A u \in Streams : u # s => spc'[u] = spc[u] /\ id'[u] = id[u] BY <1>0 DEF SlotData
<1>3. "global" \notin holds[s] /\ "pool" \notin holds[s] BY <1>0 DEF HeldAsPlaced
<1>4. ~counted[s] /\ spc'[s] = "start" BY <1>0 DEF SlotData, HeldAsPlaced
<1>5. HeldAsPlaced'
  <2>1. /\ MaxStreamsTotal' = MaxStreamsTotal /\ MaxStreams' = MaxStreams
        /\ \A u \in Streams : u # s => Pool(u)' = Pool(u)
    BY <1>0, <1>2 DEF MaxStreamsTotal, MaxStreams, Pool
  <2> QED BY <1>0, <1>2, <1>3, <1>4, <2>1 DEF HeldAsPlaced
<1> QED BY <1>0, <1>1, <1>2, <1>3, <1>5, SlotsShrink

\* Caps and pools stay what they are.
LEMMA CapsStay ==
    ASSUME UNCHANGED <<dep, id>>
    PROVE  /\ MaxStreamsTotal' = MaxStreamsTotal /\ MaxStreams' = MaxStreams
           /\ \A s \in Streams : Pool(s)' = Pool(s)
BY DEF MaxStreamsTotal, MaxStreams, Pool

LEMMA SlotTakeGlobal == ASSUME SlotInv, NEW s \in Streams, TakeGlobal(s) PROVE SlotInv'
<1>0. /\ SlotData /\ HeldAsPlaced /\ GlobalKept /\ PoolKept /\ spc[s] = "start"
      /\ dep' = dep /\ id' = id /\ counted' = counted
  BY DEF SlotInv, TakeGlobal
<1>1. CASE Fail(s) /\ UNCHANGED holds BY <1>0, <1>1, SlotlessEnds
<1>2. CASE /\ ~Full(MaxStreamsTotal, GlobalUsed)
           /\ spc' = [spc EXCEPT ![s] = "global"]
           /\ holds' = [holds EXCEPT ![s] = IF MaxStreamsTotal > 0 THEN {"global"} ELSE {}]
  <2> DEFINE got == IF MaxStreamsTotal > 0 THEN {"global"} ELSE {}
  <2>0. got \in SUBSET {"global", "pool"} /\ "pool" \notin got /\ ("global" \in got <=> MaxStreamsTotal > 0) OBVIOUS
  <2>1. holds' = [holds EXCEPT ![s] = got] BY <1>2
  <2> HIDE DEF got
  <2>2. SlotData'
    <3>1. spc' \in [Streams -> {"unused", "start", "global", "opening", "open", "eof", "stuck", "over"}]
      BY <1>0, <1>2 DEF SlotData
    <3>2. holds' \in [Streams -> SUBSET {"global", "pool"}] BY <1>0, <2>0, <2>1 DEF SlotData
    <3> QED BY <1>0, <3>1, <3>2 DEF SlotData
  <2>3. \A u \in Streams : u # s => spc'[u] = spc[u] /\ holds'[u] = holds[u] BY <1>0, <1>2 DEF SlotData
  <2>4. spc'[s] = "global" /\ holds'[s] = got BY <1>0, <1>2, <2>1 DEF SlotData
  <2>5. ~counted[s] BY <1>0 DEF HeldAsPlaced
  <2>6. HeldAsPlaced' BY <1>0, <2>0, <2>3, <2>4, <2>5, CapsStay DEF HeldAsPlaced
  <2>7. GlobalKept'
    <3>1. MaxStreamsTotal \in Nat /\ MaxStreamsTotal' = MaxStreamsTotal
      BY <1>0, CapsTyped, CapsStay
    <3> SUFFICES ASSUME MaxStreamsTotal > 0 PROVE Cardinality(GlobalHeld') <= MaxStreamsTotal
      BY <3>1 DEF GlobalKept, GlobalUsed, GlobalHeld
    <3>2. GlobalHeld' = GlobalHeld \cup {s} BY <2>0, <2>3, <2>4 DEF GlobalHeld
    <3>3. s \notin GlobalHeld BY <1>0 DEF GlobalHeld, HeldAsPlaced
    <3>4. GlobalHeld \in SUBSET Streams BY DEF GlobalHeld
    <3>5. IsFiniteSet(GlobalHeld) /\ Cardinality(GlobalHeld) \in Nat BY <3>4, Smaller
    <3>6. Cardinality(GlobalHeld') = Cardinality(GlobalHeld) + 1 BY <3>2, <3>3, <3>5, FS_AddElement
    <3>7. Cardinality(GlobalHeld) < MaxStreamsTotal
      BY <1>2, <3>1, <3>5 DEF Full, GlobalUsed, GlobalHeld
    <3> QED BY <3>1, <3>5, <3>6, <3>7
  <2>8. PoolKept'
    <3>1. MaxStreams' = MaxStreams BY <1>0 DEF MaxStreams
    <3>2. "pool" \notin holds[s] BY <1>0 DEF HeldAsPlaced
    <3>3. \A k \in Kinds : PoolHeld(k)' = PoolHeld(k) BY <1>0, <2>0, <2>3, <2>4, <3>2 DEF PoolHeld, Pool
    <3> QED BY <1>0, <3>1, <3>3 DEF PoolKept, PoolUsed, PoolHeld
  <2> QED BY <2>2, <2>6, <2>7, <2>8 DEF SlotInv
<1> QED BY <1>1, <1>2 DEF TakeGlobal

\* A stream that is not counted gives its slots back.
LEMMA SlotRollback ==
    ASSUME SlotInv, NEW s \in Streams, spc[s] \in {"global", "opening"}, Rollback(s), UNCHANGED <<dep, id, counted>>
    PROVE  SlotInv'
<1>0. SlotData /\ HeldAsPlaced BY DEF SlotInv
<1>1. ~counted[s] BY <1>0 DEF HeldAsPlaced
<1>2. counted[s] = FALSE BY <1>0, <1>1 DEF SlotData
<1>3. counted' = [counted EXCEPT ![s] = FALSE] BY <1>0, <1>2 DEF SlotData
<1>4. spc' = [spc EXCEPT ![s] = IF Blocks(s) THEN "stuck" ELSE "over"] BY DEF Rollback, Fail
<1>5. holds' = [holds EXCEPT ![s] = Unreturned(s)] BY DEF Rollback
<1> QED BY <1>3, <1>4, <1>5, SlotsReleased

LEMMA SlotTakePool == ASSUME SlotInv, NEW s \in Streams, TakePool(s) PROVE SlotInv'
<1>0. /\ SlotData /\ HeldAsPlaced /\ GlobalKept /\ PoolKept /\ spc[s] = "global"
      /\ dep' = dep /\ id' = id /\ counted' = counted
  BY DEF SlotInv, TakePool
<1>1. CASE Rollback(s) BY <1>0, <1>1, SlotRollback
<1>2. CASE /\ ~Full(MaxStreams, PoolUsed(Pool(s)))
           /\ spc' = [spc EXCEPT ![s] = "opening"]
           /\ holds' = [holds EXCEPT ![s] = IF MaxStreams > 0 THEN @ \cup {"pool"} ELSE @]
  <2> DEFINE got == IF MaxStreams > 0 THEN holds[s] \cup {"pool"} ELSE holds[s]
  <2>0. /\ got \in SUBSET {"global", "pool"} /\ ("global" \in got <=> "global" \in holds[s])
        /\ "pool" \in got <=> MaxStreams > 0
    <3>1. "pool" \notin holds[s] /\ holds[s] \in SUBSET {"global", "pool"} BY <1>0 DEF HeldAsPlaced, SlotData
    <3> QED BY <3>1
  <2>1. holds' = [holds EXCEPT ![s] = got] BY <1>2
  <2> HIDE DEF got
  <2>2. SlotData'
    <3>1. spc' \in [Streams -> {"unused", "start", "global", "opening", "open", "eof", "stuck", "over"}]
      BY <1>0, <1>2 DEF SlotData
    <3>2. holds' \in [Streams -> SUBSET {"global", "pool"}] BY <1>0, <2>0, <2>1 DEF SlotData
    <3> QED BY <1>0, <3>1, <3>2 DEF SlotData
  <2>3. \A u \in Streams : u # s => spc'[u] = spc[u] /\ holds'[u] = holds[u] BY <1>0, <1>2 DEF SlotData
  <2>4. spc'[s] = "opening" /\ holds'[s] = got BY <1>0, <1>2, <2>1 DEF SlotData
  <2>5. ~counted[s] BY <1>0 DEF HeldAsPlaced
  <2>6. HeldAsPlaced' BY <1>0, <2>0, <2>3, <2>4, <2>5, CapsStay DEF HeldAsPlaced
  <2>7. GlobalKept'
    <3>1. MaxStreamsTotal' = MaxStreamsTotal BY <1>0 DEF MaxStreamsTotal
    <3>2. GlobalHeld' = GlobalHeld BY <2>0, <2>3, <2>4 DEF GlobalHeld
    <3> QED BY <1>0, <3>1, <3>2 DEF GlobalKept, GlobalUsed, GlobalHeld
  <2>8. PoolKept'
    <3> SUFFICES ASSUME NEW k \in Kinds, MaxStreams > 0 PROVE Cardinality(PoolHeld(k)') <= MaxStreams
      <4>1. MaxStreams' = MaxStreams BY <1>0 DEF MaxStreams
      <4> QED BY <4>1 DEF PoolKept, PoolUsed, PoolHeld
    <3>1. MaxStreams \in Nat BY <1>0, CapsTyped
    <3>2. Cardinality(PoolHeld(k)) <= MaxStreams BY <1>0 DEF PoolKept, PoolUsed, PoolHeld
    <3>3. CASE Pool(s) # k
      <4>1. PoolHeld(k)' = PoolHeld(k) BY <1>0, <2>3, <3>3 DEF PoolHeld, Pool
      <4> QED BY <3>2, <4>1
    <3>4. CASE Pool(s) = k
      <4>1. PoolHeld(k)' = PoolHeld(k) \cup {s} BY <1>0, <2>0, <2>3, <2>4, <3>4 DEF PoolHeld, Pool
      <4>2. s \notin PoolHeld(k) BY <1>0 DEF PoolHeld, HeldAsPlaced
      <4>3. PoolHeld(k) \in SUBSET Streams BY DEF PoolHeld
      <4>4. IsFiniteSet(PoolHeld(k)) /\ Cardinality(PoolHeld(k)) \in Nat BY <4>3, Smaller
      <4>5. Cardinality(PoolHeld(k)') = Cardinality(PoolHeld(k)) + 1 BY <4>1, <4>2, <4>4, FS_AddElement
      <4>6. Cardinality(PoolHeld(k)) < MaxStreams
        BY <1>2, <3>1, <3>4, <4>4 DEF Full, PoolUsed, PoolHeld
      <4> QED BY <3>1, <4>4, <4>5, <4>6
    <3> QED BY <3>3, <3>4
  <2> QED BY <2>2, <2>6, <2>7, <2>8 DEF SlotInv
<1> QED BY <1>1, <1>2 DEF TakePool

LEMMA SlotOpenSucceeds == ASSUME SlotInv, NEW s \in Streams, OpenSucceeds(s) PROVE SlotInv'
<1>0. /\ SlotData /\ HeldAsPlaced /\ spc[s] = "opening" /\ dep' = dep /\ id' = id /\ holds' = holds
      /\ spc' = [spc EXCEPT ![s] = "open"] /\ counted' = [counted EXCEPT ![s] = TRUE]
  BY DEF SlotInv, OpenSucceeds
<1>1. SlotData'
  <2>1. spc' \in [Streams -> {"unused", "start", "global", "opening", "open", "eof", "stuck", "over"}]
    BY <1>0 DEF SlotData
  <2>2. counted' \in [Streams -> BOOLEAN] BY <1>0 DEF SlotData
  <2> QED BY <1>0, <2>1, <2>2 DEF SlotData
<1>2. \A u \in Streams : u # s => spc'[u] = spc[u] /\ counted'[u] = counted[u] BY <1>0 DEF SlotData
<1>3. counted'[s] /\ spc'[s] = "open" BY <1>0 DEF SlotData
<1>4. HeldAsPlaced' BY <1>0, <1>2, <1>3, CapsStay DEF HeldAsPlaced
<1> QED BY <1>0, <1>1, <1>4, SlotsShrink

LEMMA SlotUpstreamEnds == ASSUME SlotInv, NEW s \in Streams, UpstreamEnds(s) PROVE SlotInv'
<1>0. SlotData /\ HeldAsPlaced /\ spc[s] = "open" /\ dep' = dep /\ id' = id BY DEF SlotInv, UpstreamEnds
<1>1. CASE GiveBack(s) BY <1>0, <1>1, SlotsReleased DEF GiveBack
<1>2. CASE spc' = [spc EXCEPT ![s] = "eof"] /\ UNCHANGED <<holds, counted>>
  <2>1. spc' \in [Streams -> {"unused", "start", "global", "opening", "open", "eof", "stuck", "over"}]
    BY <1>0, <1>2 DEF SlotData
  <2>2. SlotData' BY <1>0, <1>2, <2>1 DEF SlotData
  <2>3. \A u \in Streams : u # s => spc'[u] = spc[u] BY <1>0, <1>2 DEF SlotData
  <2>4. spc'[s] = "eof" BY <1>0, <1>2 DEF SlotData
  <2>5. HeldAsPlaced' BY <1>0, <1>2, <2>3, <2>4, CapsStay DEF HeldAsPlaced
  <2> QED BY <1>0, <1>2, <2>2, <2>5, SlotsShrink
<1> QED BY <1>1, <1>2 DEF UpstreamEnds

LEMMA SlotStep == ASSUME SlotInv, [Next]_vars PROVE SlotInv'
<1> USE DEF slotData, limiterVars, drainVars, connVars, streamVars
<1>1. ASSUME NEW c \in Conns, ConnStep(c) PROVE UNCHANGED slotData
  BY <1>1 DEF ConnStep, Acquire, CheckDraining, RegisterConn, ConnInit, ConnEnds
<1>2. ASSUME NEW c \in Conns, ClientStep(c) PROVE SlotInv'
  <2>1. PICK i \in Ids : Complete(c, i) \/ \E s \in Streams : Subscribe(c, i, s) BY <1>2 DEF ClientStep
  <2>2. CASE Complete(c, i) BY <2>2, SlotSame DEF Complete
  <2>3. CASE \E s \in Streams : Subscribe(c, i, s) BY <2>3, SlotSubscribe
  <2> QED BY <2>1, <2>2, <2>3
<1>3. ASSUME NEW s \in Streams, StreamStep(s) PROVE SlotInv'
  <2>1. CASE OpenFails(s) BY <2>1, SlotRollback DEF OpenFails
  <2>2. CASE ContextEnds(s)
    BY <2>2, SlotsReleased DEF ContextEnds, GiveBack
  <2> QED BY <1>3, <2>1, <2>2, SlotTakeGlobal, SlotTakePool, SlotOpenSucceeds, SlotUpstreamEnds DEF StreamStep
<1>4. ASSUME StartDrain \/ DrainCancels \/ DrainReturns \/ Tick PROVE UNCHANGED slotData
  BY <1>4 DEF StartDrain, DrainCancels, DrainReturns, Tick
<1>5. CASE UNCHANGED vars BY <1>5, SlotSame DEF vars
<1> QED BY <1>1, <1>2, <1>3, <1>4, <1>5, SlotSame DEF Next

(***************************************************************************)
(* No stream runs over the global or a pool's cap, and every slot and      *)
(* every count belongs to a stream that has still to give it back, but for *)
(* the proto streams that strand on a pool without a cap, in any order of  *)
(* subscriptions, failed opens, upstream ends and cancels and whichever    *)
(* caps are on (proto_direct_subscription_dispatcher.go,                   *)
(* openapi_stream_dispatcher.go).                                          *)
(***************************************************************************)
THEOREM SlotsOwnedHolds == Spec => []SlotsOwned
<1>1. SlotInv => SlotsOwned
  <2> SUFFICES ASSUME SlotInv PROVE SlotsOwned OBVIOUS
  <2>1. ASSUME NEW s \in Streams, holds[s] # {} \/ counted[s]
        PROVE  spc[s] \in {"global", "opening", "open", "eof"} \/ Stranded(s)
    <3>1. holds[s] \in SUBSET {"global", "pool"} BY DEF SlotInv, SlotData
    <3>2. CASE holds[s] # {}
      <4>1. "global" \in holds[s] \/ "pool" \in holds[s] BY <3>1, <3>2
      <4>2. spc[s] \in {"global", "opening", "open", "eof"} \/ (spc[s] = "stuck" /\ MaxStreams = 0)
        BY <4>1 DEF SlotInv, HeldAsPlaced
      <4>3. CASE spc[s] = "stuck" /\ MaxStreams = 0
        <5>1. "pool" \notin holds[s] /\ Pool(s) = "proto" /\ ~counted[s] BY <4>3 DEF SlotInv, HeldAsPlaced
        <5>2. holds[s] = {"global"} BY <3>1, <4>1, <5>1
        <5> QED BY <4>3, <5>1, <5>2 DEF Stranded
      <4> QED BY <4>2, <4>3
    <3>3. CASE counted[s] BY <3>3 DEF SlotInv, HeldAsPlaced
    <3> QED BY <2>1, <3>2, <3>3
  <2> QED BY <2>1 DEF SlotInv, GlobalKept, PoolKept, SlotsOwned
<1>2. SlotInv /\ [Next]_vars => SlotInv' BY SlotStep
<1> QED BY <1>1, <1>2, SlotInit, PTL DEF Spec

(***************************************************************************)
(* The two together: no cap is overrun, or used up by what is over but for *)
(* stranded streams.                                                       *)
(***************************************************************************)
THEOREM CapsKeptHolds == Spec => []CapsKept
BY LimiterExactHolds, SlotsOwnedHolds, PTL DEF CapsKept

-----------------------------------------------------------------------------
(* Uploads.                                                                *)

(***************************************************************************)
(* The inductive invariant of Uploads.  One request is under way at a time *)
(* (OneBusy): a client sends the next one when it has the answer.  While   *)
(* it writes, its copy of the metadata is the stored one, and the body is  *)
(* the stored prefix with what it has written (BodyAsWritten); so cutting  *)
(* it off, or storing the new offset, makes the two agree again.  What a   *)
(* resolver has seen complete is never written to again (OpenedAsStored).  *)
(***************************************************************************)
Patch ==
    [at: {"idle", "read", "broken", "copied", "answer"}, off: Nat, n: Nat, info: Up!Info, answer: Nat]
UploadData == dir \in BOOLEAN /\ meta \in Up!Info /\ patch \in [Handlers -> Patch] /\ pos \in Nat
Busy(h) == patch[h].at # "idle"
Writing(h) == patch[h].at \in {"copied", "broken"}
OneBusy ==
    \A h \in Handlers : Busy(h) => client = "sent" /\ \A i \in Handlers : Busy(i) => i = h
OffsetFits ==
    /\ meta.len >= 0 => meta.off <= meta.len
    /\ meta.complete => meta.len >= 0 /\ meta.off = meta.len
BodyAsWritten ==
    /\ \A h \in Handlers :
        /\ Writing(h) => patch[h].info = meta /\ ~meta.complete
        /\ patch[h].at = "copied" => body = Up!File(meta.off + patch[h].n)
        /\ patch[h].at = "broken" => \E k \in Nat : body = Up!File(meta.off + k)
    /\ dir /\ (\A h \in Handlers : ~Writing(h)) => body = Up!File(meta.off)
OpenedAsStored ==
    /\ resolver # "idle" => client # "new"
    /\ resolver \in {"info", "open"} => meta.complete
    /\ resolver = "open" => opened = Up!File(meta.len)
UploadInv == UploadData /\ OneBusy /\ OffsetFits /\ BodyAsWritten /\ OpenedAsStored

LEMMA FileIsSeq ==
    ASSUME NEW n \in Nat
    PROVE  /\ Up!File(n) \in Seq(Nat) /\ Len(Up!File(n)) = n
           /\ \A i \in 1..n : Up!File(n)[i] = i
<1>1. \A i \in 1..n : i \in Nat OBVIOUS
<1> QED BY <1>1 DEF Up!File

\* The next k bytes after the first m are the first m + k.
LEMMA FileGrows ==
    ASSUME NEW m \in Nat, NEW k \in Nat
    PROVE  Up!File(m) \o [b \in 1..k |-> m + b] = Up!File(m + k)
<1> DEFINE t == [b \in 1..k |-> m + b]
<1>1. t \in Seq(Nat) /\ Len(t) = k
  <2>1. \A b \in 1..k : m + b \in Nat OBVIOUS
  <2> QED BY <2>1
<1>2. Up!File(m) \in Seq(Nat) /\ Len(Up!File(m)) = m /\ \A i \in 1..m : Up!File(m)[i] = i BY FileIsSeq
<1>3. m + k \in Nat OBVIOUS
<1>4. /\ Up!File(m + k) \in Seq(Nat) /\ Len(Up!File(m + k)) = m + k
      /\ \A i \in 1..(m + k) : Up!File(m + k)[i] = i
  BY <1>3, FileIsSeq
<1>5. \A i \in 1..k : t[i] = m + i OBVIOUS
<1> HIDE DEF t
<1>6. /\ Up!File(m) \o t \in Seq(Nat) /\ Len(Up!File(m) \o t) = m + k
      /\ \A i \in 1..(m + k) : (Up!File(m) \o t)[i] = IF i <= m THEN Up!File(m)[i] ELSE t[i - m]
  <2> DEFINE f == Up!File(m)
  <2> HIDE DEF f
  <2>2. f \in Seq(Nat) /\ Len(f) = m BY <1>2 DEF f
  <2>3. f \o t \in Seq(Nat) /\ Len(f \o t) = m + k BY <1>1, <2>2
  <2>4. \A i \in 1..(Len(f) + Len(t)) : (f \o t)[i] = IF i <= Len(f) THEN f[i] ELSE t[i - Len(f)]
    BY <1>1, <2>2, ConcatProperties, Zenon
  <2>5. \A i \in 1..(m + k) : (f \o t)[i] = IF i <= m THEN f[i] ELSE t[i - m]
    BY <1>1, <2>2, <2>4, Zenon
  <2> QED BY <2>3, <2>5 DEF f
<1>7. ASSUME NEW i \in 1..(m + k) PROVE (Up!File(m) \o t)[i] = i
  <2>1. CASE i <= m BY <2>1, <1>2, <1>6
  <2>2. CASE i > m BY <2>2, <1>5, <1>6
  <2>3. i <= m \/ i > m OBVIOUS
  <2> QED BY <2>1, <2>2, <2>3
<1>8. Up!File(m) \o t = Up!File(m + k) BY <1>4, <1>6, <1>7, SeqEqual
<1> QED BY <1>8 DEF t

LEMMA FileCut ==
    ASSUME NEW m \in Nat, NEW n \in Nat, n <= m
    PROVE  SubSeq(Up!File(m), 1, n) = Up!File(n)
<1>1. Up!File(m) \in Seq(Nat) /\ Len(Up!File(m)) = m /\ \A i \in 1..m : Up!File(m)[i] = i BY FileIsSeq
<1>2. Up!File(n) \in Seq(Nat) /\ Len(Up!File(n)) = n /\ \A i \in 1..n : Up!File(n)[i] = i BY FileIsSeq
<1>3. /\ SubSeq(Up!File(m), 1, n) \in Seq(Nat) /\ Len(SubSeq(Up!File(m), 1, n)) = n
      /\ \A i \in 1..n : SubSeq(Up!File(m), 1, n)[i] = i
  BY <1>1
<1> QED BY <1>2, <1>3, SeqEqual

LEMMA UploadInit == Up!Init => UploadInv
<1> SUFFICES ASSUME Up!Init PROVE UploadInv OBVIOUS
<1> USE DEF Up!Init
<1>1. Up!NoInfo \in Up!Info BY DEF Up!NoInfo, Up!Info, Up!Deferred
<1>2. Up!Idle \in Patch BY <1>1 DEF Up!Idle, Patch
<1>3. \A h \in Handlers : patch[h].at = "idle" BY DEF Up!Idle
<1>4. UploadData BY <1>1, <1>2 DEF UploadData
<1>5. OneBusy BY <1>3 DEF OneBusy, Busy
<1>6. OffsetFits BY DEF OffsetFits, Up!NoInfo
<1>7. BodyAsWritten BY <1>3 DEF BodyAsWritten, Writing
<1>8. OpenedAsStored BY DEF OpenedAsStored
<1> QED BY <1>4, <1>5, <1>6, <1>7, <1>8 DEF UploadInv

\* What a request writes is a number of bytes.
LEMMA WrittenType ==
    ASSUME NEW info \in Up!Info, NEW n \in Nat, info.len >= 0 => info.off <= info.len
    PROVE  Up!Written(info, n) \in Nat
<1>1. info.off \in Nat /\ (info.len \in Nat \/ info.len = -1) /\ Limit \in Nat
  BY UploadsAssumption DEF Up!Info, Up!Deferred
<1> QED BY <1>1 DEF Up!Written

\* Between requests nothing but the client, the evictor and the resolver moves.
LEMMA UploadStore ==
    ASSUME UploadInv, UNCHANGED <<meta, body, patch>>, dir' \in BOOLEAN, dir' => dir, pos' \in Nat,
           client = "sent" => client' = "sent",
           resolver' # "idle" => client' # "new",
           resolver' \in {"info", "open"} => meta.complete,
           resolver' = "open" => opened' = Up!File(meta.len)
    PROVE  UploadInv'
<1>1. UploadData' BY DEF UploadInv, UploadData
<1>2. OneBusy' BY DEF UploadInv, OneBusy, Busy
<1>3. OffsetFits' BY DEF UploadInv, OffsetFits
<1>4. BodyAsWritten' BY DEF UploadInv, BodyAsWritten, Writing
<1>5. OpenedAsStored' BY DEF UploadInv, OpenedAsStored
<1> QED BY <1>1, <1>2, <1>3, <1>4, <1>5 DEF UploadInv

LEMMA UploadCreate == ASSUME UploadInv, NEW len \in Declared, Up!Create(len) PROVE UploadInv'
<1> USE DEF UploadInv, Up!Create, Up!sideVars
<1>1. Up!Created(len) \in Up!Info BY UploadsAssumption DEF Up!Created, Up!Info, Up!Deferred
<1>2. \A h \in Handlers : patch[h].at = "idle" BY DEF OneBusy, Busy
<1>3. UploadData' BY <1>1 DEF UploadData
<1>4. OneBusy' BY <1>2 DEF OneBusy, Busy
<1>5. OffsetFits'
  <2>1. meta'.off = 0 /\ meta'.len = len /\ (meta'.complete <=> len = 0) BY DEF Up!Created
  <2>2. len \in Nat \/ len = -1 BY UploadsAssumption
  <2> QED BY <2>1, <2>2 DEF OffsetFits
<1>6. BodyAsWritten'
  <2>1. Up!File(0) = <<>> BY DEF Up!File
  <2> QED BY <1>2, <2>1 DEF BodyAsWritten, Writing, Up!Created
<1>7. OpenedAsStored' BY DEF OpenedAsStored
<1> QED BY <1>3, <1>4, <1>5, <1>6, <1>7

\* A request goes from one place that is not writing to another.
LEMMA UploadMoves ==
    ASSUME UploadInv, NEW h \in Handlers, ~Writing(h), NEW p \in Patch, p.at \in {"idle", "read", "answer"},
           patch' = [patch EXCEPT ![h] = p],
           \A i \in Handlers : i # h => patch[i].at = "idle",
           p.at # "idle" => client' = "sent",
           client' # "new", pos' \in Nat,
           UNCHANGED <<dir, meta, body, opened, resolver>>
    PROVE  UploadInv'
<1> USE DEF UploadInv
<1>1. UploadData' BY DEF UploadData
<1>2. patch'[h] = p /\ \A i \in Handlers : i # h => patch'[i] = patch[i] BY DEF UploadData
<1>3. \A i \in Handlers : patch'[i].at = "idle" \/ i = h BY <1>2
<1>4. OneBusy' BY <1>2, <1>3 DEF OneBusy, Busy
<1>5. OffsetFits' BY DEF OffsetFits
<1>6. \A i \in Handlers : ~Writing(i) /\ ~Writing(i)' BY <1>2 DEF Writing
<1>7. BodyAsWritten' BY <1>6 DEF BodyAsWritten, Writing
<1>8. OpenedAsStored' BY DEF OpenedAsStored
<1> QED BY <1>1, <1>4, <1>5, <1>7, <1>8

LEMMA UploadSend ==
    ASSUME UploadInv, NEW h \in Handlers, NEW n \in 1..MaxChunk, Up!Send(h, n) PROVE UploadInv'
<1> DEFINE p == [Up!Idle EXCEPT !.at = "read", !.off = pos, !.n = n]
<1>1. p \in Patch /\ p.at = "read"
  <2>1. Up!Idle \in Patch BY DEF Up!Idle, Patch, Up!NoInfo, Up!Info, Up!Deferred
  <2>2. pos \in Nat /\ n \in Nat BY UploadsAssumption DEF UploadInv, UploadData
  <2> QED BY <2>1, <2>2 DEF Patch
<1>2. \A i \in Handlers : patch[i].at = "idle" BY DEF UploadInv, OneBusy, Busy, Up!Send
<1>3. patch' = [patch EXCEPT ![h] = p] BY DEF Up!Send
<1> HIDE DEF p
<1> QED BY <1>1, <1>2, <1>3, UploadMoves DEF Writing, Up!Send, Up!storeVars, Up!sideVars, UploadInv, UploadData

\* The one request that is under way.
LEMMA OnlyOne ==
    ASSUME UploadInv, NEW h \in Handlers, patch[h].at # "idle"
    PROVE  client = "sent" /\ patch[h] \in Patch /\ \A i \in Handlers : i # h => patch[i].at = "idle"
BY DEF UploadInv, UploadData, OneBusy, Busy

LEMMA UploadRefused == ASSUME UploadInv, NEW h \in Handlers, Up!PatchRefused(h) PROVE UploadInv'
<1> DEFINE a == IF dir THEN meta.off ELSE 0
           p == [patch[h] EXCEPT !.at = "answer", !.answer = a]
<1>1. client = "sent" /\ patch[h] \in Patch /\ \A i \in Handlers : i # h => patch[i].at = "idle"
  BY OnlyOne DEF Up!PatchRefused
<1>2. a \in Nat BY DEF UploadInv, UploadData, Up!Info
<1>3. p \in Patch /\ p.at = "answer" BY <1>1, <1>2 DEF Patch
<1>4. patch' = [patch EXCEPT ![h] = p] BY <1>1 DEF Up!PatchRefused, UploadInv, UploadData
<1> HIDE DEF p
<1> QED BY <1>1, <1>3, <1>4, UploadMoves
        DEF Writing, Up!PatchRefused, Up!storeVars, Up!sideVars, UploadInv, UploadData

LEMMA UploadAnswered == ASSUME UploadInv, NEW h \in Handlers, Up!Answered(h) PROVE UploadInv'
<1>1. client = "sent" /\ patch[h] \in Patch /\ \A i \in Handlers : i # h => patch[i].at = "idle"
  BY OnlyOne DEF Up!Answered
<1>2. Up!Idle \in Patch /\ Up!Idle.at = "idle"
  BY DEF Up!Idle, Patch, Up!NoInfo, Up!Info, Up!Deferred
<1>3. pos' \in Nat BY <1>1 DEF Up!Answered, UploadInv, UploadData, Patch
<1>4. client' # "new" BY <1>1 DEF Up!Answered, Up!Next0
<1> QED BY <1>1, <1>2, <1>3, <1>4, UploadMoves DEF Writing, Up!Answered, Up!storeVars, Up!sideVars

\* The bytes of a request come to the end of the body; all of it is the first
\* bytes of the file.
LEMMA BodyGrows ==
    ASSUME UploadInv, NEW h \in Handlers, patch[h].at = "read", ~Up!Refusal(h), NEW k \in Nat
    PROVE  body \o [b \in 1..k |-> patch[h].off + b] = Up!File(meta.off + k)
<1>1. dir /\ patch[h].off = meta.off /\ ~meta.complete BY DEF Up!Refusal
<1>2. \A i \in Handlers : ~Writing(i) BY OnlyOne DEF Writing
<1>3. body = Up!File(meta.off) BY <1>1, <1>2 DEF UploadInv, BodyAsWritten
<1>4. meta.off \in Nat BY DEF UploadInv, UploadData, Up!Info
<1> QED BY <1>1, <1>3, <1>4, FileGrows

\* A request starts to write.
LEMMA UploadWrites ==
    ASSUME UploadInv, NEW h \in Handlers, patch[h].at = "read", ~Up!Refusal(h),
           NEW p \in Patch, p.at \in {"copied", "broken"}, p.info = meta,
           patch' = [patch EXCEPT ![h] = p],
           NEW k \in Nat, body' = body \o [b \in 1..k |-> patch[h].off + b],
           p.at = "copied" => p.n = k,
           UNCHANGED <<dir, meta, client, pos, opened, resolver>>
    PROVE  UploadInv'
<1>1. client = "sent" /\ \A i \in Handlers : i # h => patch[i].at = "idle" BY OnlyOne
<1>2. body' = Up!File(meta.off + k) BY BodyGrows
<1>3. patch'[h] = p /\ \A i \in Handlers : i # h => patch'[i].at = "idle"
  BY <1>1 DEF UploadInv, UploadData
<1>4. UploadData' BY DEF UploadInv, UploadData
<1>5. OneBusy' BY <1>1, <1>3 DEF OneBusy, Busy
<1>6. OffsetFits' BY DEF UploadInv, OffsetFits
<1>7. BodyAsWritten'
  <2>1. ~meta.complete BY DEF Up!Refusal
  <2>2. Writing(h)' BY <1>3 DEF Writing
  <2> QED BY <1>2, <1>3, <2>1, <2>2 DEF BodyAsWritten, Writing
<1>8. OpenedAsStored' BY DEF UploadInv, OpenedAsStored
<1> QED BY <1>4, <1>5, <1>6, <1>7, <1>8 DEF UploadInv

LEMMA UploadCopy == ASSUME UploadInv, NEW h \in Handlers, Up!PatchCopy(h) PROVE UploadInv'
<1> DEFINE k == Up!Written(meta, patch[h].n)
           p == [patch[h] EXCEPT !.at = "copied", !.n = k, !.info = meta]
<1>1. patch[h] \in Patch /\ meta \in Up!Info BY DEF UploadInv, UploadData
<1>2. patch[h].n \in Nat BY <1>1 DEF Patch
<1>3. k \in Nat BY <1>1, <1>2, WrittenType DEF UploadInv, OffsetFits
<1>4. body' = body \o [b \in 1..k |-> patch[h].off + b] BY DEF Up!PatchCopy
<1>5. patch' = [patch EXCEPT ![h] = p] BY DEF Up!PatchCopy, UploadInv, UploadData
<1> HIDE DEF k
<1>6. p \in Patch /\ p.at = "copied" /\ p.n = k /\ p.info = meta BY <1>1, <1>3 DEF Patch
<1> HIDE DEF p
<1> QED BY <1>3, <1>4, <1>5, <1>6, UploadWrites DEF Up!PatchCopy, Up!sideVars

LEMMA UploadBreaks == ASSUME UploadInv, NEW h \in Handlers, Up!PatchBreaks(h) PROVE UploadInv'
<1> DEFINE p == [patch[h] EXCEPT !.at = "broken", !.info = meta]
<1>1. patch[h] \in Patch /\ meta \in Up!Info BY DEF UploadInv, UploadData
<1>2. patch[h].n \in Nat BY <1>1 DEF Patch
<1>3. Up!Written(meta, patch[h].n) \in Nat BY <1>1, <1>2, WrittenType DEF UploadInv, OffsetFits
<1>4. PICK k \in 0..Up!Written(meta, patch[h].n) : body' = body \o [b \in 1..k |-> patch[h].off + b]
  BY DEF Up!PatchBreaks
<1>5. k \in Nat BY <1>3
<1>6. patch' = [patch EXCEPT ![h] = p] BY DEF Up!PatchBreaks, UploadInv, UploadData
<1>7. p \in Patch /\ p.at = "broken" /\ p.info = meta BY <1>1 DEF Patch
<1> HIDE DEF p
<1> QED BY <1>4, <1>5, <1>6, <1>7, UploadWrites DEF Up!PatchBreaks, Up!sideVars

\* A request is done writing: body and offset agree, if the upload is still there.
LEMMA UploadWritten ==
    ASSUME UploadInv, NEW h \in Handlers, Writing(h),
           NEW p \in Patch, p.at = "answer", patch' = [patch EXCEPT ![h] = p],
           meta' \in Up!Info, OffsetFits', dir => body' = Up!File(meta'.off),
           UNCHANGED <<dir, client, pos, opened, resolver>>
    PROVE  UploadInv'
<1>1. client = "sent" /\ \A i \in Handlers : i # h => patch[i].at = "idle" BY OnlyOne DEF Writing
<1>2. patch'[h] = p /\ \A i \in Handlers : i # h => patch'[i].at = "idle"
  BY <1>1 DEF UploadInv, UploadData
<1>3. UploadData' BY DEF UploadInv, UploadData
<1>4. OneBusy' BY <1>1, <1>2 DEF OneBusy, Busy
<1>5. \A i \in Handlers : ~Writing(i)' BY <1>2 DEF Writing
<1>6. BodyAsWritten' BY <1>5 DEF BodyAsWritten, Writing
<1>7. ~meta.complete BY DEF UploadInv, BodyAsWritten
<1>8. OpenedAsStored' BY <1>7 DEF UploadInv, OpenedAsStored
<1> QED BY <1>3, <1>4, <1>6, <1>8 DEF UploadInv

LEMMA TruncatesTo ==
    ASSUME NEW m \in Nat, NEW n \in Nat, n <= m, body = Up!File(m), Up!Truncate(n)
    PROVE  body' = Up!File(n)
<1>1. Len(body) = m BY FileIsSeq
<1>2. body' = SubSeq(Up!File(m), 1, n)
  <2>1. CASE n < m BY <1>1, <2>1 DEF Up!Truncate
  <2>2. CASE n = m BY <1>1, <2>2 DEF Up!Truncate
  <2> QED BY <2>1, <2>2
<1> QED BY <1>2, FileCut

LEMMA UploadTruncate == ASSUME UploadInv, NEW h \in Handlers, Up!PatchTruncate(h) PROVE UploadInv'
<1> DEFINE p == [patch[h] EXCEPT !.at = "answer", !.answer = meta.off]
<1>1. patch[h] \in Patch /\ meta \in Up!Info /\ meta.off \in Nat BY DEF UploadInv, UploadData, Up!Info
<1>2. Writing(h) /\ patch[h].info = meta BY DEF Up!PatchTruncate, Writing, UploadInv, BodyAsWritten
<1>3. PICK k \in Nat : body = Up!File(meta.off + k) BY DEF Up!PatchTruncate, UploadInv, BodyAsWritten
<1>4. body' = Up!File(meta.off)
  <2>1. meta.off + k \in Nat /\ meta.off <= meta.off + k BY <1>1
  <2> QED BY <1>1, <1>2, <1>3, <2>1, TruncatesTo DEF Up!PatchTruncate
<1>5. patch' = [patch EXCEPT ![h] = p] BY <1>2 DEF Up!PatchTruncate, UploadInv, UploadData
<1>6. p \in Patch /\ p.at = "answer" BY <1>1 DEF Patch
<1> HIDE DEF p
<1>7. OffsetFits' BY DEF Up!PatchTruncate, UploadInv, OffsetFits
<1> QED BY <1>1, <1>2, <1>4, <1>5, <1>6, <1>7, UploadWritten DEF Up!PatchTruncate, Up!sideVars

LEMMA UploadCommit == ASSUME UploadInv, NEW h \in Handlers, Up!PatchCommit(h) PROVE UploadInv'
<1> DEFINE new == Up!Appended(meta, patch[h].n)
           p == [patch[h] EXCEPT !.at = "answer", !.answer = new.off]
<1>1. patch[h] \in Patch /\ meta \in Up!Info BY DEF UploadInv, UploadData
<1>2. patch[h].n \in Nat /\ meta.off \in Nat /\ (meta.len \in Nat \/ meta.len = -1)
  BY <1>1 DEF Patch, Up!Info, Up!Deferred
<1>3. /\ Writing(h) /\ patch[h].info = meta /\ ~meta.complete
      /\ body = Up!File(meta.off + patch[h].n)
  BY DEF Up!PatchCommit, Writing, UploadInv, BodyAsWritten
<1>4. /\ new \in Up!Info /\ body' = Up!File(new.off)
      /\ new.len >= 0 => new.off <= new.len
      /\ new.complete => new.len >= 0 /\ new.off = new.len
  <2>1. CASE meta.len >= 0 /\ meta.off + patch[h].n > meta.len
    <3>1. new = [meta EXCEPT !.off = meta.len] BY <2>1 DEF Up!Appended
    <3>2. new \in Up!Info /\ new.off = meta.len /\ new.len = meta.len /\ ~new.complete
      BY <1>1, <1>2, <1>3, <2>1, <3>1 DEF Up!Info
    <3>3. meta.off + patch[h].n > new.off BY <2>1, <3>2
    <3>4. Up!Truncate(meta.len) BY <1>3, <3>3 DEF Up!PatchCommit
    <3>5. meta.off + patch[h].n \in Nat /\ meta.len \in Nat /\ meta.len <= meta.off + patch[h].n
      BY <1>2, <2>1
    <3>6. body' = Up!File(new.off) BY <1>3, <3>2, <3>4, <3>5, TruncatesTo
    <3> QED BY <1>2, <3>2, <3>6
  <2>2. CASE ~(meta.len >= 0 /\ meta.off + patch[h].n > meta.len)
    <3> DEFINE full == meta.len >= 0 /\ meta.off + patch[h].n = meta.len
    <3>1. new = [meta EXCEPT !.off = meta.off + patch[h].n, !.complete = full] BY <2>2 DEF Up!Appended
    <3>2. meta.off + patch[h].n \in Nat /\ full \in BOOLEAN BY <1>2
    <3>3. /\ new \in Up!Info /\ new.off = meta.off + patch[h].n /\ new.len = meta.len
          /\ new.complete = full
      BY <1>1, <3>1, <3>2 DEF Up!Info
    <3>4. body' = body BY <1>2, <1>3, <3>3 DEF Up!PatchCommit
    <3> HIDE DEF new
    <3>5. new.len >= 0 => new.off <= new.len BY <1>2, <2>2, <3>3
    <3>6. new.complete => new.len >= 0 /\ new.off = new.len BY <3>3
    <3> QED BY <1>3, <3>3, <3>4, <3>5, <3>6
  <2> QED BY <2>1, <2>2
<1>5. new.off \in Nat BY <1>4 DEF Up!Info
<1>6. patch' = [patch EXCEPT ![h] = p] BY <1>3 DEF Up!PatchCommit, UploadInv, UploadData
<1>7. meta' = IF dir THEN new ELSE meta BY <1>3 DEF Up!PatchCommit
<1> HIDE DEF new
<1>8. p \in Patch /\ p.at = "answer" BY <1>1, <1>5 DEF Patch
<1> HIDE DEF p
<1>9. OffsetFits' BY <1>4, <1>7 DEF UploadInv, OffsetFits
<1>10. meta' \in Up!Info /\ (dir => body' = Up!File(meta'.off)) BY <1>1, <1>4, <1>7
<1> QED BY <1>3, <1>6, <1>8, <1>9, <1>10, UploadWritten DEF Up!PatchCommit, Up!sideVars

LEMMA UploadStep == ASSUME UploadInv, [Up!Next]_(Up!vars) PROVE UploadInv'
<1> USE DEF Up!storeVars, Up!sideVars
<1>1. ASSUME NEW len \in Declared, Up!Create(len) PROVE UploadInv' BY <1>1, UploadCreate
<1>2. CASE Up!Delete \/ Up!Ages \/ Up!EvictSees \/ Up!EvictRemoves
  BY <1>2, UploadStore DEF Up!Delete, Up!Ages, Up!EvictSees, Up!EvictRemoves, UploadInv, UploadData, OpenedAsStored
<1>3. ASSUME NEW h \in Handlers, NEW n \in 1..MaxChunk, Up!Send(h, n) PROVE UploadInv' BY <1>3, UploadSend
<1>4. ASSUME NEW h \in Handlers,
             \/ Up!PatchRefused(h) \/ Up!PatchCopy(h) \/ Up!PatchBreaks(h)
             \/ Up!PatchTruncate(h) \/ Up!PatchCommit(h) \/ Up!Answered(h)
      PROVE  UploadInv'
  BY <1>4, UploadRefused, UploadCopy, UploadBreaks, UploadTruncate, UploadCommit, UploadAnswered
<1>5. CASE Up!Head0
  <2>1. pos' \in Nat /\ client' # "new" BY <1>5 DEF Up!Head0, Up!Next0, UploadInv, UploadData, Up!Info
  <2> QED BY <1>5, <2>1, UploadStore DEF Up!Head0, UploadInv, UploadData, OpenedAsStored
<1>6. CASE Up!ResolveInfo \/ Up!ResolveAgain
  BY <1>6, UploadStore DEF Up!ResolveInfo, Up!ResolveAgain, UploadInv, UploadData, OpenedAsStored
<1>7. CASE Up!ResolveOpen
  <2>1. meta.complete /\ meta.off = meta.len /\ client # "new"
    BY <1>7 DEF Up!ResolveOpen, UploadInv, OpenedAsStored, OffsetFits
  <2>2. \A h \in Handlers : ~Writing(h) BY <2>1 DEF UploadInv, BodyAsWritten
  <2>3. resolver' = "open" => opened' = Up!File(meta.len)
    BY <1>7, <2>1, <2>2 DEF Up!ResolveOpen, UploadInv, BodyAsWritten
  <2> QED BY <1>7, <2>1, <2>3, UploadStore DEF Up!ResolveOpen, UploadInv, UploadData
<1>8. CASE UNCHANGED Up!vars
  BY <1>8, UploadStore DEF Up!vars, UploadInv, UploadData, OpenedAsStored
<1> QED BY <1>1, <1>2, <1>3, <1>4, <1>5, <1>6, <1>7, <1>8 DEF Up!Next

(***************************************************************************)
(* An upload is never mixed up or cut, for any file, chunks, declared      *)
(* length, limit, number of handlers and lost answers: between requests    *)
(* the body is what the offset says (upload_store.go Append), and whoever  *)
(* gets to open it reads the whole file (upload.go Open).                  *)
(***************************************************************************)
THEOREM UploadIntactHolds == Up!Spec => []UploadIntact
<1>1. UploadInv => UploadIntact
  <2> SUFFICES ASSUME UploadInv PROVE UploadIntact OBVIOUS
  <2>1. Up!BodyIsPrefix BY DEF UploadInv, BodyAsWritten, Writing, Up!BodyIsPrefix
  <2>2. Up!OpenedIsWhole BY DEF UploadInv, OpenedAsStored, OffsetFits, Up!OpenedIsWhole
  <2> QED BY <2>1, <2>2 DEF UploadIntact
<1>2. UploadInv /\ [Up!Next]_(Up!vars) => UploadInv' BY UploadStep
<1> QED BY <1>1, <1>2, UploadInit, PTL DEF Up!Spec
-----------------------------------------------------------------------------
(* Streams.  The inductive invariant follows a value from the run through  *)
(* the library and the writer into its frame (HandedOn, EndsTold,          *)
(* NoneLost), and the two runs through the same values (RunsToEnd,         *)
(* SameSource).                                                            *)

RunAt == [step : {"gate", "started", "offering", "returning", "closing", "over"}, nth : Nat \ {0}]
\* (The provers do not know of a literal that it is a string.)
Events == STRING \cup {NoData}
Frames == [kind : {"next", "error", "complete"}, code : Nat, event : Events]

StreamData ==
    /\ streamOp \in Operation
    /\ subCtx \in {"live", "completed", "lost"} /\ rpcCtx \in {"live", "lost"}
    /\ running \in RunAt /\ rpcRunning \in RunAt
    /\ startedCh \in BOOLEAN /\ outClosed \in BOOLEAN
    /\ doneCh # <<>> => doneCh[1] \in Nat
    /\ resolverAt \in [step : {"waiting", "stream", "error"}, code : Nat]
    /\ library \in [step : {"resolving", "reading", "holding", "over"}, code : Nat, event : Events]
    /\ writerAt \in [step : {"ranging", "writing", "over"}, code : Nat, event : Events]
    /\ wsFrames \in Seq(Frames)
    /\ taken \in Seq(STRING) /\ rpcSent \in Seq(STRING)

\* The resolver hands the channel back only when the stream has started, and an
\* error only when it never will; the library and the writer go by that.
HandedOn ==
    /\ running.step = "gate" => ~startedCh /\ doneCh = <<>>
    /\ running.step \in {"started", "offering", "returning"} => startedCh /\ doneCh = <<>>
    /\ startedCh => streamOp.refuses = 0
    /\ ~startedCh => taken = <<>>
    /\ outClosed => running.step = "over"
    /\ doneCh # <<>> => /\ doneCh[1] = 0 <=> startedCh
                        /\ ~startedCh => running.step \in {"closing", "over"}
                        /\ ~startedCh /\ subCtx = "live" => doneCh[1] = streamOp.refuses
    /\ resolverAt.step = "stream" => startedCh
    /\ resolverAt.step = "error" => /\ ~startedCh /\ resolverAt.code # 0 /\ running.step \in {"closing", "over"}
                                    /\ subCtx = "live" => resolverAt.code = streamOp.refuses
    /\ library.step = "reading" => resolverAt.step = "stream"
    /\ library.step = "holding" => \/ library.code = 0 /\ resolverAt.step = "stream"
                                   \/ library.code = resolverAt.code /\ resolverAt.step = "error"
    /\ writerAt.step = "writing" => \/ writerAt.code = 0 /\ resolverAt.step = "stream"
                                    \/ writerAt.code = resolverAt.code /\ resolverAt.step = "error"

\* While the client is there, the library ends when the channel is closed or an
\* error was handed over, and the writer with a frame that says so.
EndsTold ==
    /\ subCtx = "live" /\ library.step = "over" =>
          (outClosed /\ startedCh) \/ (writerAt.step = "writing" /\ writerAt.code # 0) \/ writerAt.step = "over"
    /\ writerAt.step = "writing" /\ writerAt.code # 0 => library.step = "over"
    /\ subCtx = "live" /\ writerAt.step = "over" => Ended /\ library.step = "over"
    /\ writerAt.step # "over" => \A i \in DOMAIN wsFrames : wsFrames[i].kind = "next"
    /\ \A i \in DOMAIN wsFrames : wsFrames[i].kind # "next" => i = Len(wsFrames)
    /\ Ended /\ wsFrames[Len(wsFrames)].kind = "complete" =>
          wsFrames[Len(wsFrames)].code = 0 /\ (subCtx = "live" => outClosed /\ startedCh)
    /\ Ended /\ wsFrames[Len(wsFrames)].kind = "error" =>
          resolverAt.step = "error" /\ wsFrames[Len(wsFrames)].code = resolverAt.code

\* A value is with the library, with the writer, or in its frame.
InHand == IF writerAt.step = "writing" /\ writerAt.code = 0 THEN 1 ELSE 0
Held == IF library.step = "holding" /\ library.code = 0 THEN 1 ELSE 0
NoneLost ==
    /\ \A i \in 1 .. NextCount : i <= Len(taken) /\ wsFrames[i].event = taken[i]
    /\ subCtx # "lost" /\ InHand = 1 => NextCount + 1 <= Len(taken) /\ taken[NextCount + 1] = writerAt.event
    /\ subCtx = "live" => Len(taken) = NextCount + InHand + Held
    /\ subCtx = "live" /\ Held = 1 => taken[NextCount + InHand + 1] = library.event

\* Which values a handler gets out, and which end it.
Quiet(k) == streamOp.by = "RegisterSSE" /\ streamOp.sends[k] = NoData
Passed(k) == ~Quiet(k) /\ EventKnown(streamOp.sends[k])
Stops(k) == \/ k > Len(streamOp.sends)
            \/ ~Quiet(k) /\ ~EventKnown(streamOp.sends[k]) /\ ~(streamOp.by = "RegisterSSE" /\ streamOp.stubborn)

RunsToEnd ==
    /\ running.nth <= Len(streamOp.sends) + 1 /\ rpcRunning.nth <= Len(streamOp.sends) + 1
    /\ running.step = "offering" => running.nth <= Len(streamOp.sends) /\ Passed(running.nth)
    /\ subCtx = "live" =>
          /\ \A k \in 1 .. running.nth - 1 : ~Stops(k)
          /\ running.step = "returning" \/ (running.step \in {"closing", "over"} /\ startedCh) => Stops(running.nth)
    /\ rpcRunning.step = "gate" => rpcEnd = <<>>
    /\ rpcEnd # <<>> => rpcRunning.step = "over"
    /\ rpcRunning.step \notin {"gate", "over"} => streamOp.refuses = 0
    /\ streamOp.refuses # 0 => rpcSent = <<>>
    /\ rpcCtx = "live" =>
          /\ \A k \in 1 .. rpcRunning.nth - 1 : ~Stops(k)
          /\ rpcRunning.step = "returning" \/ (rpcRunning.step = "over" /\ streamOp.refuses = 0) => Stops(rpcRunning.nth)
          /\ rpcEnd # <<>> => rpcEnd[1] = ConnectCode(streamOp.refuses)


\* What a handler has got out when it comes to its value number k: g[k], whoever
\* it gets it out to.
Grown(s, k) == IF Passed(k) THEN Append(s, streamOp.sends[k]) ELSE s
Log(g) == Len(g) >= 1 /\ g[1] = <<>> /\ \A k \in 1 .. Len(g) - 1 : g[k + 1] = Grown(g[k], k)
Matches(g) ==
    /\ subCtx = "live" => running.nth \in 1 .. Len(g) /\ taken = g[running.nth]
    /\ rpcCtx = "live" => rpcRunning.nth \in 1 .. Len(g) /\ rpcSent = g[rpcRunning.nth]
SameSource == \E g \in Seq(Seq(STRING)) : Log(g) /\ Matches(g)

StreamInv == StreamData /\ HandedOn /\ EndsTold /\ NoneLost /\ RunsToEnd /\ SameSource

LEMMA StreamInit == StreamsInit => StreamInv
<1> SUFFICES ASSUME StreamsInit PROVE StreamInv OBVIOUS
<1>1. streamOp \in Operation BY GatStreamsAssumption DEF StreamsInit
<1>2. streamOp.sends \in Seq(STRING) /\ streamOp.refuses \in Nat BY <1>1 DEF Operation
<1>f. AtGate \in RunAt /\ AtGate.step = "gate" /\ AtGate.nth = 1 BY DEF AtGate, RunAt
<1>a. /\ AtGate \in RunAt /\ AtGate.step = "gate" /\ AtGate.nth = 1
      /\ running = AtGate /\ rpcRunning = AtGate /\ rpcEnd = <<>> /\ rpcSent = <<>> /\ rpcCtx = "live"
  BY <1>f DEF StreamsInit
<1>b. /\ running.step = "gate" /\ running.nth = 1 /\ rpcRunning.step = "gate" /\ rpcRunning.nth = 1
  BY <1>a
<1>c. /\ resolverAt \in [step : {"waiting", "stream", "error"}, code : Nat] /\ resolverAt.step = "waiting"
      /\ library.step = "resolving" /\ writerAt.step = "ranging"
      /\ library \in [step : {"resolving", "reading", "holding", "over"}, code : Nat, event : Events]
      /\ writerAt \in [step : {"ranging", "writing", "over"}, code : Nat, event : Events]
  BY DEF StreamsInit, Handing, Events
<1>d. wsFrames = <<>> /\ taken = <<>> /\ subCtx = "live" /\ doneCh = <<>> /\ ~startedCh /\ ~outClosed
  BY DEF StreamsInit
<1>e. wsFrames \in Seq(Frames) /\ taken \in Seq(STRING) /\ rpcSent \in Seq(STRING) BY <1>a, <1>d
<1>3. StreamData
  <2>1. startedCh \in BOOLEAN /\ outClosed \in BOOLEAN BY DEF StreamsInit
  <2> QED BY <1>1, <1>a, <1>c, <1>d, <1>e, <2>1 DEF StreamData
<1>4. HandedOn BY <1>b, <1>c, <1>d DEF HandedOn
<1>5. EndsTold BY <1>b, <1>c, <1>d DEF EndsTold, Ended
<1>6. NoneLost
  <2>1. ~Ended /\ Len(wsFrames) = 0 BY <1>d DEF Ended
  <2>2. NextCount = 0 /\ InHand = 0 /\ Held = 0 /\ Len(taken) = 0 BY <1>c, <1>d, <2>1 DEF NextCount, InHand, Held
  <2> QED BY <2>2 DEF NoneLost
<1>7. RunsToEnd
  <2>1. running.nth <= Len(streamOp.sends) + 1 /\ rpcRunning.nth <= Len(streamOp.sends) + 1 BY <1>2, <1>b
  <2>2. 1 .. running.nth - 1 = {} /\ 1 .. rpcRunning.nth - 1 = {} BY <1>b
  <2> QED BY <1>a, <1>b, <2>1, <2>2 DEF RunsToEnd
<1>8. SameSource
  <2> DEFINE g == <<<<>>>>
  <2>1. <<>> \in Seq(STRING) OBVIOUS
  <2>2. g \in Seq(Seq(STRING)) /\ Len(g) = 1 /\ g[1] = <<>> BY <2>1
  <2>3. Log(g) BY <2>2 DEF Log
  <2> HIDE DEF g
  <2>4. Matches(g) BY <1>a, <1>b, <1>d, <2>2 DEF Matches
  <2> QED BY <2>2, <2>3, <2>4 DEF SameSource
<1> QED BY <1>3, <1>4, <1>5, <1>6, <1>7, <1>8 DEF StreamInv

\* What the handler's moves leave of its place.
Steps == {"gate", "started", "offering", "returning", "closing", "over"}
Stubborn == streamOp.by = "RegisterSSE" /\ streamOp.stubborn

LEMMA RunSkips ==
  ASSUME NEW r \in RunAt
  PROVE Skip(r) \in RunAt /\ Skip(r).step = r.step /\ Skip(r).nth = r.nth + 1
BY DEF Skip, RunAt

LEMMA RunGoes ==
  ASSUME NEW r \in RunAt, NEW s \in Steps
  PROVE [r EXCEPT !.step = s] \in RunAt /\ [r EXCEPT !.step = s].step = s /\ [r EXCEPT !.step = s].nth = r.nth
BY DEF RunAt, Steps

LEMMA RunFailed ==
  ASSUME NEW r \in RunAt
  PROVE /\ AfterFailure(r) \in RunAt
        /\ Stubborn => AfterFailure(r).step = "started" /\ AfterFailure(r).nth = r.nth + 1
        /\ ~Stubborn => AfterFailure(r).step = "returning" /\ AfterFailure(r).nth = r.nth
<1> DEFINE q == [r EXCEPT !.step = "started"]
<1>1. q \in RunAt /\ q.step = "started" /\ q.nth = r.nth BY RunGoes DEF Steps
<1>2. [r EXCEPT !.step = "returning"] \in RunAt /\ [r EXCEPT !.step = "returning"].step = "returning"
      /\ [r EXCEPT !.step = "returning"].nth = r.nth
  BY RunGoes DEF Steps
<1> HIDE DEF q
<1>3. Skip(q) \in RunAt /\ Skip(q).step = "started" /\ Skip(q).nth = r.nth + 1 BY <1>1, RunSkips
<1>4. CASE Stubborn
  <2>1. AfterFailure(r) = Skip(q) BY <1>4 DEF Stubborn, AfterFailure, q
  <2> QED BY <1>3, <1>4, <2>1
<1>5. CASE ~Stubborn
  <2>1. AfterFailure(r) = [r EXCEPT !.step = "returning"] BY <1>5 DEF Stubborn, AfterFailure
  <2> QED BY <1>2, <1>5, <2>1
<1> QED BY <1>4, <1>5

LEMMA MovedTo ==
  ASSUME streamOp \in Operation, NEW r \in RunAt, NEW c, Moves(r, c)
  PROVE /\ r.step = "started" /\ Moved(r) \in RunAt
        /\ \/ /\ Moved(r).step = "returning" /\ Moved(r).nth = r.nth
              /\ c = "live" => Stops(r.nth)
           \/ /\ Moved(r).step = "started" /\ Moved(r).nth = r.nth + 1 /\ r.nth <= Len(streamOp.sends)
              /\ c = "live" => ~Passed(r.nth) /\ ~Stops(r.nth)
<1>1. streamOp.sends \in Seq(STRING) /\ r.nth \in Nat \ {0} /\ Len(streamOp.sends) \in Nat BY DEF Operation, RunAt
<1>2. r.step = "started" BY DEF Moves
<1>3. CASE ~HasNext(r)
  <2>1. Moved(r) = [r EXCEPT !.step = "returning"] BY <1>3 DEF Moved
  <2>2. Stops(r.nth) BY <1>1, <1>3 DEF HasNext, Stops
  <2>4. [r EXCEPT !.step = "returning"] \in RunAt /\ [r EXCEPT !.step = "returning"].step = "returning"
        /\ [r EXCEPT !.step = "returning"].nth = r.nth
    BY RunGoes DEF Steps
  <2>3. Moved(r) \in RunAt /\ Moved(r).step = "returning" /\ Moved(r).nth = r.nth BY <2>1, <2>4
  <2> QED BY <1>2, <2>2, <2>3
<1>4. CASE HasNext(r) /\ Silent(r)
  <2>1. Moved(r) = Skip(r) BY <1>4 DEF Moved
  <2>2. Moved(r) \in RunAt /\ Moved(r).step = "started" /\ Moved(r).nth = r.nth + 1 BY <1>2, <2>1, RunSkips
  <2>3. Quiet(r.nth) /\ r.nth <= Len(streamOp.sends) BY <1>4 DEF Silent, Quiet, Value, HasNext
  <2>4. ~Passed(r.nth) /\ ~Stops(r.nth) BY <1>1, <2>3 DEF Passed, Stops
  <2> QED BY <1>2, <2>2, <2>3, <2>4
<1>5. CASE HasNext(r) /\ ~Silent(r)
  <2>1. ~EventKnown(streamOp.sends[r.nth]) \/ c # "live" BY <1>5 DEF Moves, Value
  <2>2. ~Quiet(r.nth) /\ r.nth <= Len(streamOp.sends) BY <1>5 DEF Quiet, Silent, Value, HasNext
  <2>3. Moved(r) = AfterFailure(r) BY <1>5 DEF Moved
  <2>4. CASE Stubborn
    <3>1. Moved(r) \in RunAt /\ Moved(r).step = "started" /\ Moved(r).nth = r.nth + 1 BY <2>3, <2>4, RunFailed
    <3>2. c = "live" => ~Passed(r.nth) BY <2>1 DEF Passed
    <3>3. ~Stops(r.nth) BY <1>1, <2>2, <2>4 DEF Stops, Stubborn
    <3> QED BY <1>2, <2>2, <3>1, <3>2, <3>3
  <2>5. CASE ~Stubborn
    <3>1. Moved(r) \in RunAt /\ Moved(r).step = "returning" /\ Moved(r).nth = r.nth BY <2>3, <2>5, RunFailed
    <3>2. c = "live" => Stops(r.nth) BY <2>1, <2>2, <2>5 DEF Stops, Stubborn
    <3> QED BY <1>2, <3>1, <3>2
  <2> QED BY <2>4, <2>5
<1> QED BY <1>3, <1>4, <1>5

LEMMA SendsPassed ==
  ASSUME NEW r, NEW c, Sends(r, c)
  PROVE r.step = "started" /\ r.nth <= Len(streamOp.sends) /\ Passed(r.nth) /\ ~Quiet(r.nth)
BY DEF Sends, HasNext, Silent, Passed, Quiet, Value

LEMMA StreamTypes ==
  ASSUME StreamInv
  PROVE /\ streamOp \in Operation /\ running \in RunAt /\ rpcRunning \in RunAt
        /\ streamOp.sends \in Seq(STRING) /\ streamOp.refuses \in Nat
        /\ running.nth \in Nat \ {0} /\ rpcRunning.nth \in Nat \ {0} /\ Len(streamOp.sends) \in Nat
        /\ wsFrames \in Seq(Frames) /\ Len(wsFrames) \in Nat
        /\ taken \in Seq(STRING) /\ rpcSent \in Seq(STRING)
BY DEF StreamInv, StreamData, Operation, RunAt

LEMMA StreamDataStep == ASSUME StreamInv, [StreamsNext]_streamsVars PROVE StreamData'
<1>1. StreamData BY DEF StreamInv
<1> USE <1>1, StreamTypes
<1>2. CASE RunStarts BY <1>2, RunGoes DEF Steps, RunStarts, StreamData, rpcVars
<1>3. CASE RunRefused
  <2>1. RefusedWith \in Nat BY DEF RefusedWith, Cancelled
  <2> QED BY <1>3, <2>1, RunGoes DEF Steps, RunRefused, StreamData, rpcVars
<1>4. CASE RunMoves
  <2>1. running' \in RunAt BY <1>4, MovedTo DEF RunMoves
  <2> QED BY <1>4, <2>1 DEF RunMoves, StreamData, rpcVars
<1>5. CASE RunOffers BY <1>5, RunGoes DEF Steps, RunOffers, StreamData, rpcVars
<1>6. CASE Handover
  <2>0. running.nth \in 1 .. Len(streamOp.sends) BY <1>6 DEF Handover, StreamInv, RunsToEnd
  <2>6. streamOp.sends[running.nth] \in STRING BY <2>0, ElementOfSeq
  <2>1. Value(running) \in STRING /\ Value(running) \in Events BY <2>6 DEF Value, Events
  <2>2. [running EXCEPT !.step = "started"] \in RunAt BY RunGoes DEF Steps
  <2>3. running' \in RunAt BY <1>6, <2>2, RunSkips DEF Handover
  <2>4. taken' \in Seq(STRING) BY <1>6, <2>1 DEF Handover
  <2>5. library' \in [step : {"resolving", "reading", "holding", "over"}, code : Nat, event : Events]
    BY <1>6, <2>1 DEF Handover, Handing
  <2> QED BY <1>6, <2>3, <2>4, <2>5 DEF Handover, StreamData, rpcVars
<1>7. CASE OfferFails BY <1>7, RunFailed DEF OfferFails, StreamData, rpcVars
<1>8. CASE RunReturns BY <1>8, RunGoes DEF Steps, RunReturns, StreamData, rpcVars
<1>9. CASE RunCloses BY <1>9, RunGoes DEF Steps, RunCloses, StreamData, rpcVars
<1>10. CASE Resolves BY <1>10 DEF Resolves, StreamData, rpcVars
<1>11. CASE LibraryResolves
  <2>1. resolverAt.code \in Nat BY DEF StreamData
  <2>3. /\ Handing("reading", 0, NoData) \in [step : {"resolving", "reading", "holding", "over"}, code : Nat, event : Events]
        /\ Handing("holding", resolverAt.code, NoData) \in
              [step : {"resolving", "reading", "holding", "over"}, code : Nat, event : Events]
    BY <2>1 DEF Handing, Events
  <2>2. library' \in [step : {"resolving", "reading", "holding", "over"}, code : Nat, event : Events]
    BY <1>11, <2>3 DEF LibraryResolves
  <2> QED BY <1>11, <2>2 DEF LibraryResolves, StreamData, rpcVars
<1>12. CASE LibraryEnds BY <1>12 DEF LibraryEnds, StreamData, rpcVars, Handing, Events
<1>13. CASE WriterTakes
  <2>1. library.code \in Nat /\ library.event \in Events BY DEF StreamData
  <2>2. library' \in [step : {"resolving", "reading", "holding", "over"}, code : Nat, event : Events]
    BY <1>13 DEF WriterTakes, Handing, Events
  <2>3. writerAt' \in [step : {"ranging", "writing", "over"}, code : Nat, event : Events]
    BY <1>13, <2>1 DEF WriterTakes, Handing, Events
  <2> QED BY <1>13, <2>2, <2>3 DEF WriterTakes, StreamData, rpcVars
<1>14. CASE WriterWrites
  <2>1. writerAt.code \in Nat /\ writerAt.event \in Events BY DEF StreamData
  <2>2. writerAt' \in [step : {"ranging", "writing", "over"}, code : Nat, event : Events]
    <3>1. /\ Handing("over", 0, NoData) \in [step : {"ranging", "writing", "over"}, code : Nat, event : Events]
          /\ Handing("ranging", 0, NoData) \in [step : {"ranging", "writing", "over"}, code : Nat, event : Events]
      BY DEF Handing, Events
    <3> QED BY <1>14, <3>1 DEF WriterWrites
  <2>3. Frame("error", writerAt.code, NoData) \in Frames /\ Frame("next", 0, writerAt.event) \in Frames
    BY <2>1 DEF Frame, Frames, Events
  <2>4. \A f \in Frames : Written(f) => wsFrames' \in Seq(Frames) BY DEF Written
  <2>5. wsFrames' \in Seq(Frames) BY <1>14, <2>3, <2>4 DEF WriterWrites
  <2> QED BY <1>14, <2>2, <2>5 DEF WriterWrites, StreamData, rpcVars, dispatchVars
<1>15. CASE WriterCompletes
  <2>1. Frame("complete", 0, NoData) \in Frames BY DEF Frame, Frames, Events
  <2>3. \A f \in Frames : Written(f) => wsFrames' \in Seq(Frames) BY DEF Written
  <2>2. wsFrames' \in Seq(Frames) BY <1>15, <2>1, <2>3 DEF WriterCompletes
  <2> QED BY <1>15, <2>2 DEF WriterCompletes, StreamData, rpcVars, dispatchVars, Handing, Events
<1>16. CASE ClientEnds BY <1>16 DEF ClientEnds, StreamData, rpcVars, dispatchVars
<1>17. CASE RPCStarts BY <1>17, RunGoes DEF Steps, RPCStarts, StreamData, dispatchVars
<1>18. CASE RPCRefused BY <1>18, RunGoes DEF Steps, RPCRefused, StreamData, dispatchVars
<1>19. CASE RPCMoves
  <2>1. rpcRunning' \in RunAt BY <1>19, MovedTo DEF RPCMoves
  <2> QED BY <1>19, <2>1 DEF RPCMoves, StreamData, dispatchVars
<1>20. CASE RPCSends
  <2>1. Value(rpcRunning) \in STRING BY <1>20, SendsPassed DEF RPCSends, Value
  <2>2. rpcRunning' \in RunAt BY <1>20, RunSkips, RunFailed DEF RPCSends
  <2>4. Append(rpcSent, Value(rpcRunning)) \in Seq(STRING) BY <2>1
  <2>3. rpcSent' \in Seq(STRING) BY <1>20, <2>4 DEF RPCSends
  <2> QED BY <1>20, <2>2, <2>3 DEF RPCSends, StreamData, dispatchVars
<1>21. CASE RPCReturns BY <1>21, RunGoes DEF Steps, RPCReturns, StreamData, dispatchVars
<1>22. CASE RPCClientEnds BY <1>22 DEF RPCClientEnds, StreamData, dispatchVars
<1>23. CASE UNCHANGED streamsVars BY <1>23 DEF streamsVars, StreamData, dispatchVars, rpcVars
<1> QED BY <1>2, <1>3, <1>4, <1>5, <1>6, <1>7, <1>8, <1>9, <1>10, <1>11, <1>12, <1>13, <1>14, <1>15, <1>16,
           <1>17, <1>18, <1>19, <1>20, <1>21, <1>22, <1>23 DEF StreamsNext, RunStep, ServerStep, RPCStep

LEMMA HandingIs ==
  ASSUME NEW a, NEW c, NEW e
  PROVE Handing(a, c, e).step = a /\ Handing(a, c, e).code = c /\ Handing(a, c, e).event = e
BY DEF Handing

LEMMA FrameIs ==
  ASSUME NEW a, NEW c, NEW e
  PROVE Frame(a, c, e).kind = a /\ Frame(a, c, e).code = c /\ Frame(a, c, e).event = e
BY DEF Frame

\* Where each move of the GraphQL run leaves it.
LEMMA RunPlaces ==
  ASSUME StreamInv
  PROVE /\ RunStarts => running'.step = "started" /\ running'.nth = running.nth
        /\ RunRefused => running'.step = "closing" /\ running'.nth = running.nth
        /\ RunOffers => running'.step = "offering" /\ running'.nth = running.nth
        /\ Handover => running'.step = "started" /\ running'.nth = running.nth + 1
        /\ RunReturns => running'.step = "closing" /\ running'.nth = running.nth
        /\ RunCloses => running'.step = "over" /\ running'.nth = running.nth
<1> USE StreamTypes
<1>1. \A s \in Steps : [running EXCEPT !.step = s] \in RunAt /\ [running EXCEPT !.step = s].step = s
                       /\ [running EXCEPT !.step = s].nth = running.nth
  BY RunGoes
<1>2. RunStarts => running'.step = "started" /\ running'.nth = running.nth BY <1>1 DEF RunStarts, Steps
<1>3. RunRefused => running'.step = "closing" /\ running'.nth = running.nth BY <1>1 DEF RunRefused, Steps
<1>4. RunOffers => running'.step = "offering" /\ running'.nth = running.nth BY <1>1 DEF RunOffers, Steps
<1>5. Handover => running'.step = "started" /\ running'.nth = running.nth + 1
  <2> DEFINE q == [running EXCEPT !.step = "started"]
  <2>1. q \in RunAt /\ q.step = "started" /\ q.nth = running.nth BY <1>1 DEF Steps
  <2>2. Handover => running' = Skip(q) BY DEF Handover
  <2> HIDE DEF q
  <2> QED BY <2>1, <2>2, RunSkips
<1>6. RunReturns => running'.step = "closing" /\ running'.nth = running.nth BY <1>1 DEF RunReturns, Steps
<1>7. RunCloses => running'.step = "over" /\ running'.nth = running.nth BY <1>1 DEF RunCloses, Steps
<1> QED BY <1>2, <1>3, <1>4, <1>5, <1>6, <1>7

streamsSeen == <<streamOp, subCtx, dispatchVars, writerAt, wsFrames, taken>>

LEMMA StreamSame ==
  ASSUME StreamInv, UNCHANGED streamsSeen
  PROVE HandedOn' /\ EndsTold' /\ NoneLost'
<1>1. HandedOn' BY DEF streamsSeen, dispatchVars, StreamInv, HandedOn
<1>2. EndsTold' BY DEF streamsSeen, dispatchVars, StreamInv, EndsTold, Ended
<1>3. NoneLost' BY DEF streamsSeen, dispatchVars, StreamInv, NoneLost, NextCount, Ended, Held, InHand
<1> QED BY <1>1, <1>2, <1>3

LEMMA RPCSame ==
  ASSUME RPCStep \/ RPCClientEnds \/ UNCHANGED streamsVars
  PROVE UNCHANGED streamsSeen
BY DEF RPCStep, RPCStarts, RPCRefused, RPCMoves, RPCSends, RPCReturns, RPCClientEnds, streamsVars, streamsSeen

LEMMA HandedOnStep == ASSUME StreamInv, [StreamsNext]_streamsVars PROVE HandedOn'
<1>1. HandedOn /\ StreamData BY DEF StreamInv
<1> USE <1>1, StreamTypes
<1>2. CASE RunStarts
  BY <1>2, RunPlaces DEF RunStarts, PassesGate, HandedOn
<1>3. CASE RunRefused
  <2>1. RefusedWith # 0 /\ (subCtx = "live" => RefusedWith = streamOp.refuses)
    BY <1>3 DEF RunRefused, MayRefuse, RefusedWith, Cancelled
  <2>2. doneCh' # <<>> /\ doneCh'[1] = RefusedWith BY <1>3 DEF RunRefused
  <2>3. ~startedCh /\ running.step = "gate" BY <1>3 DEF RunRefused, MayRefuse, HandedOn
  <2> QED BY <1>3, <2>1, <2>2, <2>3, RunPlaces DEF RunRefused, HandedOn
<1>4. CASE RunMoves
  <2>1. running.step = "started" /\ running'.step \in {"started", "returning"} BY <1>4, MovedTo DEF RunMoves
  <2> QED BY <1>4, <2>1 DEF RunMoves, HandedOn
<1>5. CASE RunOffers
  <2>1. running.step = "started" BY <1>5 DEF RunOffers, Sends
  <2> QED BY <1>5, <2>1, RunPlaces DEF RunOffers, HandedOn
<1>6. CASE Handover
  <2>1. library'.step = "holding" /\ library'.code = 0 BY <1>6, HandingIs DEF Handover
  <2>2. running.step = "offering" /\ library.step = "reading" BY <1>6 DEF Handover
  <2> QED BY <1>6, <2>1, <2>2, RunPlaces DEF Handover, HandedOn
<1>7. CASE OfferFails
  <2>1. running.step = "offering" /\ running'.step \in {"started", "returning"} BY <1>7, RunFailed DEF OfferFails
  <2> QED BY <1>7, <2>1 DEF OfferFails, HandedOn
<1>8. CASE RunReturns
  <2>1. doneCh' # <<>> /\ doneCh'[1] = 0 BY <1>8 DEF RunReturns
  <2> QED BY <1>8, <2>1, RunPlaces DEF RunReturns, HandedOn
<1>9. CASE RunCloses BY <1>9, RunPlaces DEF RunCloses, HandedOn
<1>10. CASE Resolves
  <2>1. CASE startedCh /\ resolverAt' = [step |-> "stream", code |-> 0] /\ UNCHANGED doneCh
    <3>1. resolverAt'.step = "stream" /\ resolverAt.step = "waiting" BY <1>10, <2>1 DEF Resolves
    <3> QED BY <1>10, <2>1, <3>1 DEF Resolves, HandedOn
  <2>2. CASE /\ doneCh # <<>> /\ doneCh' = <<>>
             /\ resolverAt' = [step |-> IF doneCh[1] = 0 THEN "stream" ELSE "error", code |-> doneCh[1]]
    <3>1. resolverAt'.code = doneCh[1] BY <2>2
    <3>2. doneCh[1] = 0 => resolverAt'.step = "stream" BY <2>2
    <3>3. doneCh[1] # 0 => resolverAt'.step = "error" BY <2>2
    <3>4. resolverAt.step = "waiting" BY <1>10 DEF Resolves
    <3> QED BY <1>10, <2>2, <3>1, <3>2, <3>3, <3>4 DEF Resolves, HandedOn
  <2> QED BY <1>10, <2>1, <2>2 DEF Resolves
<1>11. CASE LibraryResolves
  <2>1. \/ resolverAt.step = "stream" /\ library'.step = "reading"
        \/ resolverAt.step = "error" /\ library'.step = "holding" /\ library'.code = resolverAt.code
    BY <1>11, HandingIs DEF LibraryResolves, Handing
  <2> QED BY <1>11, <2>1 DEF LibraryResolves, HandedOn
<1>12. CASE LibraryEnds
  <2>1. library'.step = "over" BY <1>12, HandingIs DEF LibraryEnds, Handing
  <2> QED BY <1>12, <2>1 DEF LibraryEnds, HandedOn
<1>13. CASE WriterTakes
  <2>1. library.code = 0 => library'.step = "reading" BY <1>13, HandingIs DEF WriterTakes, Handing
  <2>2. library.code # 0 => library'.step = "over" BY <1>13, HandingIs DEF WriterTakes, Handing
  <2>3. subCtx # "live" => writerAt'.step = "over" BY <1>13, HandingIs DEF WriterTakes, Handing
  <2>4. subCtx = "live" => writerAt'.step = "writing" /\ writerAt'.code = library.code BY <1>13, HandingIs DEF WriterTakes, Handing
  <2> QED BY <1>13, <2>1, <2>2, <2>3, <2>4 DEF WriterTakes, HandedOn
<1>14. CASE WriterWrites
  <2>1. writerAt'.step \in {"over", "ranging"} BY <1>14, HandingIs DEF WriterWrites, Handing
  <2> QED BY <1>14, <2>1 DEF WriterWrites, dispatchVars, HandedOn
<1>15. CASE WriterCompletes
  <2>1. writerAt'.step = "over" BY <1>15, HandingIs DEF WriterCompletes, Handing
  <2> QED BY <1>15, <2>1 DEF WriterCompletes, dispatchVars, HandedOn
<1>16. CASE ClientEnds BY <1>16 DEF ClientEnds, dispatchVars, HandedOn
<1>17. CASE RPCStep \/ RPCClientEnds \/ UNCHANGED streamsVars BY <1>17, RPCSame, StreamSame
<1> QED BY <1>2, <1>3, <1>4, <1>5, <1>6, <1>7, <1>8, <1>9, <1>10, <1>11, <1>12, <1>13, <1>14, <1>15, <1>16,
           <1>17 DEF StreamsNext, RunStep, ServerStep

\* A frame is only added to frames that all are next frames.
LEMMA FrameWritten ==
  ASSUME StreamInv, writerAt.step # "over", NEW f \in Frames, wsFrames' = Append(wsFrames, f)
  PROVE /\ ~Ended /\ NextCount = Len(wsFrames) /\ Len(wsFrames') = Len(wsFrames) + 1
        /\ wsFrames'[Len(wsFrames) + 1] = f /\ \A i \in 1 .. Len(wsFrames) : wsFrames'[i] = wsFrames[i]
        /\ \A i \in 1 .. Len(wsFrames) : wsFrames[i].kind = "next"
        /\ f.kind = "next" => ~Ended' /\ NextCount' = Len(wsFrames) + 1
        /\ f.kind # "next" => Ended' /\ NextCount' = Len(wsFrames)
<1> USE StreamTypes
<1>1. \A i \in 1 .. Len(wsFrames) : wsFrames[i].kind = "next"
  <2>1. DOMAIN wsFrames = 1 .. Len(wsFrames) OBVIOUS
  <2> QED BY <2>1 DEF StreamInv, EndsTold
<1>2. /\ Len(wsFrames') = Len(wsFrames) + 1 /\ wsFrames'[Len(wsFrames) + 1] = f
      /\ \A i \in 1 .. Len(wsFrames) : wsFrames'[i] = wsFrames[i]
  OBVIOUS
<1>3. ~Ended
  <2> SUFFICES ASSUME Ended PROVE FALSE OBVIOUS
  <2>1. wsFrames # <<>> /\ wsFrames[Len(wsFrames)].kind # "next" BY DEF Ended, Last
  <2>2. Len(wsFrames) \in 1 .. Len(wsFrames) BY <2>1
  <2> QED BY <1>1, <2>1, <2>2
<1>4. NextCount = Len(wsFrames) BY <1>3 DEF NextCount
<1>5. wsFrames' # <<>>
  <2>1. Len(wsFrames') # 0 BY <1>2
  <2>2. Len(<<>>) = 0 OBVIOUS
  <2> QED BY <2>1, <2>2
<1>6. wsFrames'[Len(wsFrames')] = f BY <1>2
<1>7. Ended' <=> f.kind # "next" BY <1>5, <1>6 DEF Ended, Last
<1>8. f.kind = "next" => NextCount' = Len(wsFrames) + 1 BY <1>2, <1>7 DEF NextCount
<1>9. f.kind # "next" => NextCount' = Len(wsFrames)
  <2>1. Ended' => NextCount' = Len(wsFrames') - 1 BY DEF NextCount
  <2> QED BY <1>2, <1>7, <2>1
<1> QED BY <1>1, <1>2, <1>3, <1>4, <1>7, <1>8, <1>9

\* What the writer's steps write.
LEMMA WriterFrames ==
  ASSUME StreamInv
  PROVE /\ Frame("complete", 0, NoData) \in Frames
        /\ Frame("error", writerAt.code, NoData) \in Frames /\ Frame("next", 0, writerAt.event) \in Frames
<1>1. writerAt.code \in Nat /\ writerAt.event \in Events BY DEF StreamInv, StreamData
<1> QED BY <1>1 DEF Frame, Frames, Events

LEMMA EndsToldSame ==
  ASSUME StreamInv, UNCHANGED <<writerAt, wsFrames>>,
         library'.step = "over" /\ subCtx' = "live" => (outClosed /\ startedCh)' \/ (library.step = "over" /\ subCtx = "live"),
         library.step = "over" => library'.step = "over",
         subCtx' = "live" => subCtx = "live",
         outClosed /\ startedCh => (outClosed /\ startedCh)',
         resolverAt.step = "error" => UNCHANGED resolverAt
  PROVE EndsTold'
<1>1. Ended' = Ended BY DEF Ended
<1>2. EndsTold BY DEF StreamInv
<1> QED BY <1>1, <1>2 DEF EndsTold

LEMMA EndsToldStep == ASSUME StreamInv, [StreamsNext]_streamsVars PROVE EndsTold'
<1>1. HandedOn /\ StreamData /\ EndsTold BY DEF StreamInv
<1> USE <1>1, StreamTypes
<1>2. CASE RunStep
  <2>1. /\ UNCHANGED <<writerAt, wsFrames, subCtx, resolverAt>>
        /\ startedCh => startedCh' 
        /\ outClosed => outClosed'
    BY <1>2 DEF RunStep, RunStarts, RunRefused, RunMoves, RunOffers, Handover, OfferFails, RunReturns, RunCloses
  <2>2. library'.step = library.step \/ (library.step # "over" /\ library'.step # "over")
    <3>1. CASE Handover BY <3>1, HandingIs DEF Handover
    <3>2. CASE ~Handover
      BY <1>2, <3>2 DEF RunStep, RunStarts, RunRefused, RunMoves, RunOffers, OfferFails, RunReturns, RunCloses
    <3> QED BY <3>1, <3>2
  <2> QED BY <2>1, <2>2, EndsToldSame
<1>3. CASE Resolves
  <2>1. resolverAt.step # "error" BY <1>3 DEF Resolves
  <2> QED BY <1>3, <2>1, EndsToldSame DEF Resolves
<1>4. CASE LibraryResolves
  <2>1. library.step = "resolving" /\ library'.step # "over" BY <1>4, HandingIs DEF LibraryResolves
  <2> QED BY <1>4, <2>1, EndsToldSame DEF LibraryResolves
<1>5. CASE LibraryEnds
  <2>1. library'.step = "over" BY <1>5, HandingIs DEF LibraryEnds
  <2>2. subCtx = "live" => outClosed /\ startedCh BY <1>5 DEF LibraryEnds, HandedOn
  <2> QED BY <1>5, <2>1, <2>2, EndsToldSame DEF LibraryEnds
<1>6. CASE WriterTakes
  <2>1. library.code = 0 => library'.step = "reading" BY <1>6, HandingIs DEF WriterTakes
  <2>2. library.code # 0 => library'.step = "over" BY <1>6, HandingIs DEF WriterTakes
  <2>3. subCtx # "live" => writerAt'.step = "over" BY <1>6, HandingIs DEF WriterTakes
  <2>4. subCtx = "live" => writerAt'.step = "writing" /\ writerAt'.code = library.code BY <1>6, HandingIs DEF WriterTakes
  <2>5. Ended' = Ended BY <1>6 DEF WriterTakes, Ended
  <2> QED BY <1>6, <2>1, <2>2, <2>3, <2>4, <2>5 DEF WriterTakes, EndsTold
<1>7. CASE WriterWrites
  <2>1. writerAt.step = "writing" BY <1>7 DEF WriterWrites
  <2>2. UNCHANGED <<streamOp, subCtx, dispatchVars>> BY <1>7 DEF WriterWrites
  <2>3. CASE subCtx = "lost"
    <3>1. UNCHANGED wsFrames BY <1>7, <2>3 DEF WriterWrites, Written
    <3>2. Ended' = Ended BY <3>1 DEF Ended
    <3>3. writerAt'.step \in {"over", "ranging"} BY <1>7, HandingIs DEF WriterWrites
    <3> QED BY <2>1, <2>2, <2>3, <3>1, <3>2, <3>3 DEF EndsTold, dispatchVars
  <2>4. CASE subCtx # "lost" /\ writerAt.code # 0
    <3> DEFINE f == Frame("error", writerAt.code, NoData)
    <3>1. wsFrames' = Append(wsFrames, f) /\ writerAt'.step = "over" BY <1>7, <2>4, HandingIs DEF WriterWrites, Written
    <3>2. f \in Frames /\ f.kind = "error" /\ f.code = writerAt.code BY WriterFrames, FrameIs
    <3> HIDE DEF f
    <3>3. /\ ~Ended /\ Len(wsFrames') = Len(wsFrames) + 1 /\ wsFrames'[Len(wsFrames) + 1] = f
          /\ \A i \in 1 .. Len(wsFrames) : wsFrames'[i] = wsFrames[i] /\ wsFrames[i].kind = "next"
          /\ Ended'
      BY <2>1, <3>1, <3>2, FrameWritten
    <3>4. DOMAIN wsFrames' = 1 .. Len(wsFrames) + 1 BY <3>1, <3>2
    <3>8. \A i \in DOMAIN wsFrames' : i \in 1 .. Len(wsFrames) \/ i = Len(wsFrames) + 1 BY <3>4
    <3>5. \A i \in DOMAIN wsFrames' : wsFrames'[i].kind # "next" => i = Len(wsFrames') BY <3>3, <3>8
    <3>6. wsFrames'[Len(wsFrames')].kind = "error" /\ wsFrames'[Len(wsFrames')].code = writerAt.code BY <3>2, <3>3
    <3>7. library.step = "over" /\ resolverAt.step = "error" /\ writerAt.code = resolverAt.code
      BY <2>1, <2>4 DEF EndsTold, HandedOn
    <3> QED BY <2>2, <3>1, <3>3, <3>5, <3>6, <3>7 DEF EndsTold, dispatchVars
  <2>5. CASE subCtx # "lost" /\ writerAt.code = 0
    <3> DEFINE f == Frame("next", 0, writerAt.event)
    <3>1. wsFrames' = Append(wsFrames, f) /\ writerAt'.step = "ranging" BY <1>7, <2>5, HandingIs DEF WriterWrites, Written
    <3>2. f \in Frames /\ f.kind = "next" BY WriterFrames, FrameIs
    <3> HIDE DEF f
    <3>3. /\ ~Ended /\ Len(wsFrames') = Len(wsFrames) + 1 /\ wsFrames'[Len(wsFrames) + 1] = f
          /\ \A i \in 1 .. Len(wsFrames) : wsFrames'[i] = wsFrames[i] /\ wsFrames[i].kind = "next"
          /\ ~Ended'
      BY <2>1, <3>1, <3>2, FrameWritten
    <3>4. DOMAIN wsFrames' = 1 .. Len(wsFrames) + 1 BY <3>1, <3>2
    <3>8. \A i \in DOMAIN wsFrames' : i \in 1 .. Len(wsFrames) \/ i = Len(wsFrames) + 1 BY <3>4
    <3>5. \A i \in DOMAIN wsFrames' : wsFrames'[i].kind = "next" BY <3>2, <3>3, <3>8
    <3> QED BY <2>1, <2>2, <2>5, <3>1, <3>3, <3>5 DEF EndsTold, dispatchVars
  <2> QED BY <2>3, <2>4, <2>5
<1>8. CASE WriterCompletes
  <2>1. writerAt.step = "ranging" /\ library.step = "over" /\ writerAt'.step = "over" BY <1>8, HandingIs DEF WriterCompletes
  <2>2. UNCHANGED <<streamOp, subCtx, dispatchVars>> BY <1>8 DEF WriterCompletes
  <2>3. CASE UNCHANGED wsFrames /\ subCtx # "live"
    <3>1. Ended' = Ended BY <2>3 DEF Ended
    <3> QED BY <2>1, <2>2, <2>3, <3>1 DEF EndsTold, dispatchVars
  <2>4. CASE wsFrames' = Append(wsFrames, Frame("complete", 0, NoData))
    <3> DEFINE f == Frame("complete", 0, NoData)
    <3>1. wsFrames' = Append(wsFrames, f) BY <2>4
    <3>2. f \in Frames /\ f.kind = "complete" /\ f.code = 0 BY WriterFrames, FrameIs
    <3> HIDE DEF f
    <3>3. /\ ~Ended /\ Len(wsFrames') = Len(wsFrames) + 1 /\ wsFrames'[Len(wsFrames) + 1] = f
          /\ \A i \in 1 .. Len(wsFrames) : wsFrames'[i] = wsFrames[i] /\ wsFrames[i].kind = "next"
          /\ Ended'
      BY <2>1, <3>1, <3>2, FrameWritten
    <3>4. DOMAIN wsFrames' = 1 .. Len(wsFrames) + 1 BY <3>1, <3>2
    <3>8. \A i \in DOMAIN wsFrames' : i \in 1 .. Len(wsFrames) \/ i = Len(wsFrames) + 1 BY <3>4
    <3>5. \A i \in DOMAIN wsFrames' : wsFrames'[i].kind # "next" => i = Len(wsFrames') BY <3>3, <3>8
    <3>6. wsFrames'[Len(wsFrames')].kind = "complete" /\ wsFrames'[Len(wsFrames')].code = 0 BY <3>2, <3>3
    <3>7. subCtx = "live" => outClosed /\ startedCh BY <2>1 DEF EndsTold
    <3> QED BY <2>1, <2>2, <3>3, <3>5, <3>6, <3>7 DEF EndsTold, dispatchVars
  <2> QED BY <1>8, <2>3, <2>4 DEF WriterCompletes, Written
<1>9. CASE ClientEnds
  <2>1. subCtx' # "live" BY <1>9 DEF ClientEnds
  <2> QED BY <1>9, <2>1, EndsToldSame DEF ClientEnds, dispatchVars
<1>10. CASE RPCStep \/ RPCClientEnds \/ UNCHANGED streamsVars BY <1>10, RPCSame, StreamSame
<1> QED BY <1>2, <1>3, <1>4, <1>5, <1>6, <1>7, <1>8, <1>9, <1>10 DEF StreamsNext, ServerStep

LEMMA CountIs == ASSUME StreamInv PROVE NextCount \in Nat /\ NextCount <= Len(wsFrames)
<1>1. Ended => Len(wsFrames) # 0 BY StreamTypes, EmptySeq DEF Ended
<1> QED BY <1>1, StreamTypes DEF NextCount

\* Steps that neither write a frame nor hand a value on.
LEMMA NoneLostSame ==
  ASSUME StreamInv, UNCHANGED <<wsFrames, taken>>, subCtx' = subCtx \/ subCtx' \notin {"live"},
         subCtx' # "lost" => subCtx # "lost",
         subCtx' # "lost" /\ InHand' = 1 => InHand = 1 /\ UNCHANGED writerAt,
         subCtx' = "live" => InHand' = InHand /\ Held' = Held,
         subCtx' = "live" /\ Held' = 1 => UNCHANGED library
  PROVE NoneLost'
<1>1. NextCount' = NextCount BY DEF NextCount, Ended
<1>2. NoneLost BY DEF StreamInv
<1> QED BY <1>1, <1>2 DEF NoneLost

LEMMA NoneLostStep == ASSUME StreamInv, [StreamsNext]_streamsVars PROVE NoneLost'
<1>1. HandedOn /\ StreamData /\ EndsTold /\ NoneLost BY DEF StreamInv
<1> USE <1>1, StreamTypes, CountIs
<1>2. CASE RunStep /\ ~Handover
  <2>1. UNCHANGED <<wsFrames, taken, subCtx, library, writerAt>>
    BY <1>2 DEF RunStep, RunStarts, RunRefused, RunMoves, RunOffers, OfferFails, RunReturns, RunCloses
  <2>2. InHand' = InHand /\ Held' = Held BY <2>1 DEF InHand, Held
  <2> QED BY <2>1, <2>2, NoneLostSame
<1>3. CASE Handover
  <2>1. UNCHANGED <<wsFrames, subCtx, writerAt>> BY <1>3 DEF Handover
  <2>2. library'.step = "holding" /\ library'.code = 0 /\ library'.event = Value(running) BY <1>3, HandingIs DEF Handover
  <2>3. Held = 0 /\ Held' = 1 BY <1>3, <2>2 DEF Held, Handover
  <2>4. InHand' = InHand /\ InHand \in {0, 1} BY <2>1 DEF InHand
  <2>5. NextCount' = NextCount BY <2>1 DEF NextCount, Ended
  <2>6. /\ Len(taken') = Len(taken) + 1 /\ taken'[Len(taken) + 1] = Value(running)
        /\ \A i \in 1 .. Len(taken) : taken'[i] = taken[i]
    <3>1. running.nth \in 1 .. Len(streamOp.sends) BY <1>3 DEF Handover, StreamInv, RunsToEnd
    <3>2. streamOp.sends[running.nth] \in STRING BY <3>1, ElementOfSeq
    <3>3. Value(running) \in STRING BY <3>2 DEF Value
    <3> QED BY <1>3, <3>3, AppendProperties DEF Handover
  <2>7. \A i \in 1 .. NextCount' : i <= Len(taken') /\ wsFrames'[i].event = taken'[i]
    <3> SUFFICES ASSUME NEW i \in 1 .. NextCount PROVE i <= Len(taken') /\ wsFrames'[i].event = taken'[i] BY <2>5
    <3>1. i <= Len(taken) /\ wsFrames[i].event = taken[i] BY DEF NoneLost
    <3>2. i \in 1 .. Len(taken) BY <3>1
    <3> QED BY <2>1, <2>6, <3>1, <3>2
  <2>8. subCtx # "lost" /\ InHand = 1 => NextCount + 1 <= Len(taken') /\ taken'[NextCount + 1] = writerAt.event
    <3> SUFFICES ASSUME subCtx # "lost", InHand = 1
                 PROVE NextCount + 1 <= Len(taken') /\ taken'[NextCount + 1] = writerAt.event
      OBVIOUS
    <3>1. NextCount + 1 <= Len(taken) /\ taken[NextCount + 1] = writerAt.event BY DEF NoneLost
    <3>2. NextCount + 1 \in 1 .. Len(taken) BY <3>1
    <3> QED BY <2>6, <3>1, <3>2
  <2>9. subCtx = "live" => Len(taken) = NextCount + InHand BY <2>3, <2>4 DEF NoneLost
  <2>10. subCtx = "live" => Len(taken') = NextCount + InHand + 1 BY <2>6, <2>9
  <2>11. subCtx = "live" => taken'[NextCount + InHand + 1] = library'.event BY <2>2, <2>6, <2>9
  <2> QED BY <2>1, <2>3, <2>4, <2>5, <2>7, <2>8, <2>10, <2>11 DEF NoneLost
<1>4. CASE Resolves
  <2>1. UNCHANGED <<wsFrames, taken, subCtx, library, writerAt>> BY <1>4 DEF Resolves
  <2>2. InHand' = InHand /\ Held' = Held BY <2>1 DEF InHand, Held
  <2> QED BY <2>1, <2>2, NoneLostSame
<1>5. CASE LibraryResolves
  <2>1. UNCHANGED <<wsFrames, taken, subCtx, writerAt>> BY <1>5 DEF LibraryResolves
  <2>2. Held = 0 BY <1>5 DEF LibraryResolves, Held
  <2>3. library'.step = "holding" => library'.code # 0 BY <1>5, HandingIs DEF LibraryResolves, HandedOn
  <2>4. InHand' = InHand /\ Held' = 0 BY <2>1, <2>3 DEF InHand, Held
  <2> QED BY <2>1, <2>2, <2>4, NoneLostSame
<1>6. CASE LibraryEnds
  <2>1. UNCHANGED <<wsFrames, taken, subCtx, writerAt>> BY <1>6 DEF LibraryEnds
  <2>2. subCtx = "live" => Held = 0 BY <1>6 DEF LibraryEnds, Held
  <2>3. library'.step = "over" BY <1>6, HandingIs DEF LibraryEnds
  <2>4. InHand' = InHand /\ Held' = 0 BY <2>1, <2>3 DEF InHand, Held
  <2> QED BY <2>1, <2>2, <2>4, NoneLostSame
<1>7. CASE WriterTakes
  <2>1. UNCHANGED <<wsFrames, taken, subCtx>> /\ writerAt.step = "ranging" /\ library.step = "holding" BY <1>7 DEF WriterTakes
  <2>2. library'.step # "holding" BY <1>7, HandingIs DEF WriterTakes
  <2>3. InHand = 0 /\ Held' = 0 BY <2>1, <2>2 DEF InHand, Held
  <2>4. CASE subCtx # "live"
    <3>1. writerAt'.step = "over" BY <1>7, <2>4, HandingIs DEF WriterTakes
    <3>2. InHand' = 0 BY <3>1 DEF InHand
    <3> QED BY <2>1, <2>4, <3>2, NoneLostSame
  <2>5. CASE subCtx = "live"
    <3>1. writerAt'.step = "writing" /\ writerAt'.code = library.code /\ writerAt'.event = library.event
      BY <1>7, <2>5, HandingIs DEF WriterTakes
    <3>2. CASE library.code # 0
      <4>1. Held = 0 /\ InHand' = 0 BY <3>1, <3>2 DEF Held, InHand
      <4> QED BY <2>1, <2>3, <4>1, NoneLostSame
    <3>3. CASE library.code = 0
      <4>1. Held = 1 /\ InHand' = 1 BY <2>1, <3>1, <3>3 DEF Held, InHand
      <4>2. NextCount' = NextCount BY <2>1 DEF NextCount, Ended
      <4>3. Len(taken) = NextCount + 1 /\ taken[NextCount + 1] = library.event BY <2>3, <2>5, <4>1 DEF NoneLost
      <4> QED BY <2>1, <2>3, <3>1, <4>1, <4>2, <4>3 DEF NoneLost
    <3> QED BY <3>2, <3>3
  <2> QED BY <2>4, <2>5
<1>8. CASE WriterWrites
  <2>1. writerAt.step = "writing" /\ writerAt'.step \in {"over", "ranging"} BY <1>8, HandingIs DEF WriterWrites
  <2>2. UNCHANGED <<subCtx, taken, library>> BY <1>8 DEF WriterWrites, dispatchVars
  <2>3. InHand' = 0 /\ Held' = Held /\ Held \in {0, 1} BY <2>1, <2>2 DEF InHand, Held
  <2>4. CASE subCtx = "lost"
    <3>1. UNCHANGED wsFrames BY <1>8, <2>4 DEF WriterWrites, Written
    <3> QED BY <2>2, <2>3, <2>4, <3>1, NoneLostSame
  <2>5. CASE subCtx # "lost" /\ writerAt.code # 0
    <3> DEFINE f == Frame("error", writerAt.code, NoData)
    <3>1. wsFrames' = Append(wsFrames, f) BY <1>8, <2>5 DEF WriterWrites, Written
    <3>2. f \in Frames /\ f.kind = "error" BY WriterFrames, FrameIs
    <3> HIDE DEF f
    <3>3. NextCount' = NextCount /\ NextCount = Len(wsFrames) /\ \A i \in 1 .. NextCount : wsFrames'[i] = wsFrames[i]
      BY <2>1, <3>1, <3>2, FrameWritten
    <3>4. InHand = 0 BY <2>5 DEF InHand
    <3>5. \A i \in 1 .. NextCount' : i <= Len(taken') /\ wsFrames'[i].event = taken'[i] BY <2>2, <3>3 DEF NoneLost
    <3>6. subCtx' = "live" => Len(taken') = NextCount' + InHand' + Held' BY <2>2, <2>3, <3>3, <3>4 DEF NoneLost
    <3>7. NextCount' + InHand' + 1 = NextCount + InHand + 1 BY <2>3, <3>3, <3>4
    <3>8. subCtx' = "live" /\ Held' = 1 => taken'[NextCount' + InHand' + 1] = library'.event
      BY <2>2, <2>3, <3>7 DEF NoneLost
    <3> QED BY <2>3, <3>5, <3>6, <3>8 DEF NoneLost
  <2>6. CASE subCtx # "lost" /\ writerAt.code = 0
    <3> DEFINE f == Frame("next", 0, writerAt.event)
    <3>1. wsFrames' = Append(wsFrames, f) BY <1>8, <2>6 DEF WriterWrites, Written
    <3>2. f \in Frames /\ f.kind = "next" /\ f.event = writerAt.event BY WriterFrames, FrameIs
    <3> HIDE DEF f
    <3>3. /\ NextCount' = NextCount + 1 /\ NextCount = Len(wsFrames) /\ wsFrames'[NextCount + 1] = f
          /\ \A i \in 1 .. NextCount : wsFrames'[i] = wsFrames[i]
      BY <2>1, <3>1, <3>2, FrameWritten
    <3>4. InHand = 1 BY <2>1, <2>6 DEF InHand
    <3>5. NextCount + 1 <= Len(taken) /\ taken[NextCount + 1] = writerAt.event BY <2>6, <3>4 DEF NoneLost
    <3>6. \A i \in 1 .. NextCount' : i \in 1 .. NextCount \/ i = NextCount + 1 BY <3>3
    <3>7. \A i \in 1 .. NextCount' : i <= Len(taken') /\ wsFrames'[i].event = taken'[i]
      BY <2>2, <3>2, <3>3, <3>5, <3>6 DEF NoneLost
    <3>8. subCtx' = "live" => Len(taken') = NextCount' + InHand' + Held' BY <2>2, <2>3, <3>3, <3>4 DEF NoneLost
    <3>9. NextCount' + InHand' + 1 = NextCount + InHand + 1 BY <2>3, <3>3, <3>4
    <3>10. subCtx' = "live" /\ Held' = 1 => taken'[NextCount' + InHand' + 1] = library'.event
      BY <2>2, <2>3, <3>9 DEF NoneLost
    <3> QED BY <2>3, <3>7, <3>8, <3>10 DEF NoneLost
  <2> QED BY <2>4, <2>5, <2>6
<1>9. CASE WriterCompletes
  <2>1. writerAt.step = "ranging" /\ writerAt'.step = "over" BY <1>9, HandingIs DEF WriterCompletes
  <2>2. UNCHANGED <<subCtx, taken, library>> BY <1>9 DEF WriterCompletes, dispatchVars
  <2>3. InHand' = 0 /\ InHand = 0 /\ Held' = Held BY <2>1, <2>2 DEF InHand, Held
  <2>4. CASE UNCHANGED wsFrames BY <2>2, <2>3, <2>4, NoneLostSame
  <2>5. CASE wsFrames' = Append(wsFrames, Frame("complete", 0, NoData))
    <3> DEFINE f == Frame("complete", 0, NoData)
    <3>1. wsFrames' = Append(wsFrames, f) BY <2>5
    <3>2. f \in Frames /\ f.kind = "complete" BY WriterFrames, FrameIs
    <3> HIDE DEF f
    <3>3. NextCount' = NextCount /\ NextCount = Len(wsFrames) /\ \A i \in 1 .. NextCount : wsFrames'[i] = wsFrames[i]
      BY <2>1, <3>1, <3>2, FrameWritten
    <3> QED BY <2>2, <2>3, <3>3 DEF NoneLost
  <2> QED BY <1>9, <2>4, <2>5 DEF WriterCompletes, Written
<1>10. CASE ClientEnds
  <2>1. UNCHANGED <<wsFrames, taken, library, writerAt>> /\ subCtx = "live" /\ subCtx' # "live" BY <1>10 DEF ClientEnds, dispatchVars
  <2>2. InHand' = InHand /\ Held' = Held BY <2>1 DEF InHand, Held
  <2> QED BY <2>1, <2>2, NoneLostSame
<1>11. CASE RPCStep \/ RPCClientEnds \/ UNCHANGED streamsVars BY <1>11, RPCSame, StreamSame
<1> QED BY <1>2, <1>3, <1>4, <1>5, <1>6, <1>7, <1>8, <1>9, <1>10, <1>11 DEF StreamsNext, ServerStep

LEMMA PassedGoesOn ==
  ASSUME StreamInv, NEW k \in Nat, k <= Len(streamOp.sends), Passed(k)
  PROVE ~Stops(k)
BY StreamTypes DEF Passed, Stops

LEMMA OneMore ==
  ASSUME NEW n \in Nat \ {0}
  PROVE n + 1 \in Nat \ {0} /\ \A k \in 1 .. (n + 1) - 1 : k \in 1 .. n - 1 \/ k = n
OBVIOUS

\* RunsToEnd, for the two runs apart.
WSToEnd ==
    /\ running.nth <= Len(streamOp.sends) + 1
    /\ running.step = "offering" => running.nth <= Len(streamOp.sends) /\ Passed(running.nth)
    /\ subCtx = "live" =>
          /\ \A k \in 1 .. running.nth - 1 : ~Stops(k)
          /\ running.step = "returning" \/ (running.step \in {"closing", "over"} /\ startedCh) => Stops(running.nth)
RPCToEnd ==
    /\ rpcRunning.nth <= Len(streamOp.sends) + 1
    /\ rpcRunning.step = "gate" => rpcEnd = <<>>
    /\ rpcEnd # <<>> => rpcRunning.step = "over"
    /\ rpcRunning.step \notin {"gate", "over"} => streamOp.refuses = 0
    /\ streamOp.refuses # 0 => rpcSent = <<>>
    /\ rpcCtx = "live" =>
          /\ \A k \in 1 .. rpcRunning.nth - 1 : ~Stops(k)
          /\ rpcRunning.step = "returning" \/ (rpcRunning.step = "over" /\ streamOp.refuses = 0) => Stops(rpcRunning.nth)
          /\ rpcEnd # <<>> => rpcEnd[1] = ConnectCode(streamOp.refuses)

LEMMA ToEndApart == RunsToEnd <=> WSToEnd /\ RPCToEnd
BY DEF RunsToEnd, WSToEnd, RPCToEnd

LEMMA StopsSame ==
  ASSUME UNCHANGED streamOp
  PROVE \A k \in Nat : (Stops(k)' <=> Stops(k)) /\ (Passed(k)' <=> Passed(k))
BY DEF Stops, Passed, Quiet, EventKnown, IsUnion

LEMMA OpKept == ASSUME [StreamsNext]_streamsVars PROVE UNCHANGED streamOp
BY DEF StreamsNext, RunStep, ServerStep, RPCStep, RunStarts, RunRefused, RunMoves, RunOffers, Handover, OfferFails,
       RunReturns, RunCloses, Resolves, LibraryResolves, LibraryEnds, WriterTakes, WriterWrites, WriterCompletes,
       ClientEnds, RPCStarts, RPCRefused, RPCMoves, RPCSends, RPCReturns, RPCClientEnds, streamsVars

\* What a step of the run comes down to.
LEMMA WSMoves ==
  ASSUME StreamInv, running'.nth \in {running.nth, running.nth + 1}, running' \in RunAt, UNCHANGED <<streamOp, subCtx>>,
         running'.nth = running.nth + 1 => running.nth <= Len(streamOp.sends) /\ (subCtx = "live" => ~Stops(running.nth)),
         running'.step = "offering" => running'.nth <= Len(streamOp.sends) /\ Passed(running'.nth),
         subCtx = "live" /\ (running'.step = "returning" \/ (running'.step \in {"closing", "over"} /\ startedCh'))
            => Stops(running'.nth)
  PROVE WSToEnd'
<1> USE StreamTypes
<1>1. WSToEnd BY ToEndApart DEF StreamInv
<1>2. running'.nth \in Nat \ {0} BY DEF RunAt
<1>3. \A k \in Nat : (Stops(k)' <=> Stops(k)) /\ (Passed(k)' <=> Passed(k)) BY StopsSame
<1>4. running'.nth <= Len(streamOp.sends) + 1 BY <1>1 DEF WSToEnd
<1>5. ASSUME subCtx = "live" PROVE \A k \in 1 .. running'.nth - 1 : ~Stops(k)
  <2>1. \A k \in 1 .. running.nth - 1 : ~Stops(k) BY <1>1, <1>5 DEF WSToEnd
  <2>2. CASE running'.nth = running.nth BY <2>1, <2>2
  <2>3. CASE running'.nth = running.nth + 1
    <3>1. \A k \in 1 .. running'.nth - 1 : k \in 1 .. running.nth - 1 \/ k = running.nth BY <2>3, OneMore
    <3> QED BY <1>5, <2>1, <2>3, <3>1
  <2> QED BY <2>2, <2>3
<1>6. ASSUME subCtx' = "live" PROVE \A k \in 1 .. running'.nth - 1 : ~(Stops(k)')
  <2> SUFFICES ASSUME NEW k \in 1 .. running'.nth - 1 PROVE ~(Stops(k)') OBVIOUS
  <2>1. k \in Nat OBVIOUS
  <2> QED BY <1>3, <1>5, <1>6, <2>1
<1>7. running'.step = "offering" => running'.nth <= Len(streamOp'.sends) /\ Passed(running.nth)' BY <1>2, <1>3 DEF Passed, Quiet, EventKnown, IsUnion
<1>8. Stops(running'.nth) <=> Stops(running.nth)' BY DEF Stops, Quiet, EventKnown, IsUnion
<1> QED BY <1>4, <1>6, <1>7, <1>8 DEF WSToEnd

LEMMA WSSame ==
  ASSUME StreamInv, UNCHANGED <<streamOp, running, startedCh>>, subCtx' = "live" => subCtx = "live"
  PROVE WSToEnd'
<1>1. WSToEnd BY ToEndApart DEF StreamInv
<1> QED BY <1>1 DEF WSToEnd, Stops, Passed, Quiet, EventKnown, IsUnion

LEMMA WSToEndStep == ASSUME StreamInv, [StreamsNext]_streamsVars PROVE WSToEnd'
<1> USE StreamTypes
<1>1. WSToEnd /\ HandedOn BY ToEndApart DEF StreamInv
<1>2. running' \in RunAt BY StreamDataStep DEF StreamData
<1>3. UNCHANGED streamOp BY OpKept
<1>4. CASE RunStarts
  BY <1>2, <1>3, <1>4, RunPlaces, WSMoves DEF RunStarts
<1>5. CASE RunRefused
  <2>1. ~startedCh' BY <1>1, <1>5 DEF RunRefused, MayRefuse, HandedOn
  <2> QED BY <1>2, <1>3, <1>5, <2>1, RunPlaces, WSMoves DEF RunRefused
<1>6. CASE RunMoves
  <2>1. running' = Moved(running) /\ Moves(running, subCtx) /\ UNCHANGED subCtx BY <1>6 DEF RunMoves
  <2>2. \/ /\ running'.step = "returning" /\ running'.nth = running.nth
           /\ subCtx = "live" => Stops(running.nth)
        \/ /\ running'.step = "started" /\ running'.nth = running.nth + 1 /\ running.nth <= Len(streamOp.sends)
           /\ subCtx = "live" => ~Passed(running.nth) /\ ~Stops(running.nth)
    BY <2>1, MovedTo
  <2> QED BY <1>2, <1>3, <2>1, <2>2, WSMoves
<1>7. CASE RunOffers
  <2>1. running.nth <= Len(streamOp.sends) /\ Passed(running.nth) BY <1>7, SendsPassed DEF RunOffers
  <2> QED BY <1>2, <1>3, <1>7, <2>1, RunPlaces, WSMoves DEF RunOffers
<1>8. CASE Handover
  <2>1. running.nth <= Len(streamOp.sends) /\ Passed(running.nth) BY <1>1, <1>8 DEF Handover, WSToEnd
  <2>2. ~Stops(running.nth) BY <2>1, PassedGoesOn
  <2>3. running'.step = "started" /\ running'.nth = running.nth + 1 BY <1>8, RunPlaces
  <2> QED BY <1>2, <1>3, <1>8, <2>1, <2>2, <2>3, WSMoves DEF Handover
<1>9. CASE OfferFails
  <2>1. running.nth <= Len(streamOp.sends) /\ subCtx # "live" BY <1>1, <1>9 DEF OfferFails, WSToEnd
  <2>2. running' = AfterFailure(running) /\ UNCHANGED subCtx BY <1>9 DEF OfferFails
  <2>3. running'.step \in {"started", "returning"} /\ running'.nth \in {running.nth, running.nth + 1} BY <2>2, RunFailed
  <2> QED BY <1>2, <1>3, <2>1, <2>2, <2>3, WSMoves
<1>10. CASE RunReturns
  <2>1. subCtx = "live" => Stops(running.nth) BY <1>1, <1>10 DEF RunReturns, WSToEnd
  <2>2. UNCHANGED subCtx BY <1>10 DEF RunReturns
  <2> QED BY <1>2, <1>3, <1>10, <2>1, <2>2, RunPlaces, WSMoves
<1>11. CASE RunCloses
  <2>1. subCtx = "live" /\ startedCh' => Stops(running.nth) BY <1>1, <1>11 DEF RunCloses, WSToEnd
  <2>2. UNCHANGED subCtx BY <1>11 DEF RunCloses
  <2> QED BY <1>2, <1>3, <1>11, <2>1, <2>2, RunPlaces, WSMoves
<1>12. CASE ServerStep \/ ClientEnds \/ RPCStep \/ RPCClientEnds \/ UNCHANGED streamsVars
  <2>1. UNCHANGED <<streamOp, running, startedCh>> /\ (subCtx' = "live" => subCtx = "live")
    <3>1. CASE ServerStep BY <3>1 DEF ServerStep, Resolves, LibraryResolves, LibraryEnds, WriterTakes, WriterWrites,
                                      WriterCompletes, dispatchVars
    <3>2. CASE ClientEnds BY <3>2 DEF ClientEnds, dispatchVars
    <3>3. CASE RPCStep \/ RPCClientEnds \/ UNCHANGED streamsVars BY <3>3, RPCSame DEF streamsSeen, dispatchVars
    <3> QED BY <1>12, <3>1, <3>2, <3>3
  <2> QED BY <2>1, WSSame
<1> QED BY <1>4, <1>5, <1>6, <1>7, <1>8, <1>9, <1>10, <1>11, <1>12 DEF StreamsNext, RunStep

\* Where each move of the gRPC run leaves it.
LEMMA RPCPlaces ==
  ASSUME StreamInv
  PROVE /\ RPCStarts => rpcRunning'.step = "started" /\ rpcRunning'.nth = rpcRunning.nth
        /\ RPCRefused => rpcRunning'.step = "over" /\ rpcRunning'.nth = rpcRunning.nth
        /\ RPCReturns => rpcRunning'.step = "over" /\ rpcRunning'.nth = rpcRunning.nth
        /\ RPCSends /\ rpcCtx = "live" => rpcRunning'.step = "started" /\ rpcRunning'.nth = rpcRunning.nth + 1
        /\ RPCSends /\ rpcCtx # "live" => /\ rpcRunning'.step \in {"started", "returning"}
                                          /\ rpcRunning'.nth \in {rpcRunning.nth, rpcRunning.nth + 1}
<1> USE StreamTypes
<1>1. \A s \in Steps : [rpcRunning EXCEPT !.step = s] \in RunAt /\ [rpcRunning EXCEPT !.step = s].step = s
                       /\ [rpcRunning EXCEPT !.step = s].nth = rpcRunning.nth
  BY RunGoes
<1>2. RPCStarts => rpcRunning'.step = "started" /\ rpcRunning'.nth = rpcRunning.nth BY <1>1 DEF RPCStarts, Steps
<1>3. RPCRefused => rpcRunning'.step = "over" /\ rpcRunning'.nth = rpcRunning.nth BY <1>1 DEF RPCRefused, Steps
<1>4. RPCReturns => rpcRunning'.step = "over" /\ rpcRunning'.nth = rpcRunning.nth BY <1>1 DEF RPCReturns, Steps
<1>5. RPCSends /\ rpcCtx = "live" => rpcRunning'.step = "started" /\ rpcRunning'.nth = rpcRunning.nth + 1
  BY RunSkips, SendsPassed DEF RPCSends
<1>6. RPCSends /\ rpcCtx # "live" => /\ rpcRunning'.step \in {"started", "returning"}
                                     /\ rpcRunning'.nth \in {rpcRunning.nth, rpcRunning.nth + 1}
  BY RunFailed DEF RPCSends
<1> QED BY <1>2, <1>3, <1>4, <1>5, <1>6

LEMMA RPCMoved ==
  ASSUME StreamInv, rpcRunning'.nth \in {rpcRunning.nth, rpcRunning.nth + 1}, rpcRunning' \in RunAt,
         UNCHANGED <<streamOp, rpcCtx>>, rpcRunning'.step # "gate",
         rpcRunning'.nth = rpcRunning.nth + 1 =>
            rpcRunning.nth <= Len(streamOp.sends) /\ (rpcCtx = "live" => ~Stops(rpcRunning.nth)),
         rpcEnd' # <<>> => rpcRunning'.step = "over" /\ (rpcCtx = "live" => rpcEnd'[1] = ConnectCode(streamOp.refuses)),
         rpcRunning'.step # "over" => streamOp.refuses = 0,
         streamOp.refuses # 0 => rpcSent' = <<>>,
         rpcCtx = "live" /\ (rpcRunning'.step = "returning" \/ (rpcRunning'.step = "over" /\ streamOp.refuses = 0))
            => Stops(rpcRunning'.nth)
  PROVE RPCToEnd'
<1> USE StreamTypes
<1>1. RPCToEnd BY ToEndApart DEF StreamInv
<1>2. rpcRunning'.nth \in Nat \ {0} BY DEF RunAt
<1>3. \A k \in Nat : (Stops(k)' <=> Stops(k)) BY StopsSame
<1>4. rpcRunning'.nth <= Len(streamOp.sends) + 1 BY <1>1 DEF RPCToEnd
<1>5. ASSUME rpcCtx = "live" PROVE \A k \in 1 .. rpcRunning'.nth - 1 : ~Stops(k)
  <2>1. \A k \in 1 .. rpcRunning.nth - 1 : ~Stops(k) BY <1>1, <1>5 DEF RPCToEnd
  <2>2. CASE rpcRunning'.nth = rpcRunning.nth BY <2>1, <2>2
  <2>3. CASE rpcRunning'.nth = rpcRunning.nth + 1
    <3>1. \A k \in 1 .. rpcRunning'.nth - 1 : k \in 1 .. rpcRunning.nth - 1 \/ k = rpcRunning.nth BY <2>3, OneMore
    <3> QED BY <1>5, <2>1, <2>3, <3>1
  <2> QED BY <2>2, <2>3
<1>6. ASSUME rpcCtx' = "live" PROVE \A k \in 1 .. rpcRunning'.nth - 1 : ~(Stops(k)')
  <2> SUFFICES ASSUME NEW k \in 1 .. rpcRunning'.nth - 1 PROVE ~(Stops(k)') OBVIOUS
  <2>1. k \in Nat OBVIOUS
  <2> QED BY <1>3, <1>5, <1>6, <2>1
<1>7. Stops(rpcRunning'.nth) <=> Stops(rpcRunning.nth)' BY DEF Stops, Quiet, EventKnown, IsUnion
<1> QED BY <1>4, <1>6, <1>7 DEF RPCToEnd

LEMMA RPCToEndSame ==
  ASSUME StreamInv, UNCHANGED <<streamOp, rpcRunning, rpcEnd, rpcSent>>, rpcCtx' = "live" => rpcCtx = "live"
  PROVE RPCToEnd'
<1>1. RPCToEnd BY ToEndApart DEF StreamInv
<1> QED BY <1>1 DEF RPCToEnd, Stops, Quiet, EventKnown, IsUnion

LEMMA RPCToEndStep == ASSUME StreamInv, [StreamsNext]_streamsVars PROVE RPCToEnd'
<1> USE StreamTypes
<1>1. RPCToEnd BY ToEndApart DEF StreamInv
<1>2. rpcRunning' \in RunAt BY StreamDataStep DEF StreamData
<1>3. UNCHANGED streamOp BY OpKept
<1>4. CASE RPCStarts
  <2>1. streamOp.refuses = 0 /\ rpcEnd' = <<>> /\ UNCHANGED rpcCtx BY <1>1, <1>4 DEF RPCStarts, PassesGate, RPCToEnd
  <2> QED BY <1>2, <1>3, <1>4, <2>1, RPCPlaces, RPCMoved
<1>5. CASE RPCRefused
  <2>1. UNCHANGED <<rpcCtx, rpcSent>> /\ rpcEnd' = <<ErrorCode>> BY <1>5 DEF RPCRefused
  <2>2. rpcCtx = "live" => streamOp.refuses # 0 BY <1>5 DEF RPCRefused, MayRefuse
  <2>3. rpcCtx = "live" => ErrorCode = ConnectCode(streamOp.refuses) BY <2>2 DEF ErrorCode, ConnectCode
  <2>4. rpcEnd'[1] = ErrorCode BY <2>1
  <2>5. streamOp.refuses # 0 => rpcSent' = <<>> BY <1>1, <2>1 DEF RPCToEnd
  <2>6. rpcRunning'.step = "over" /\ rpcRunning'.nth = rpcRunning.nth BY <1>5, RPCPlaces
  <2> QED BY <1>2, <1>3, <2>1, <2>2, <2>3, <2>4, <2>5, <2>6, RPCMoved
<1>6. CASE RPCMoves
  <2>1. rpcRunning' = Moved(rpcRunning) /\ Moves(rpcRunning, rpcCtx) /\ UNCHANGED <<rpcCtx, rpcEnd, rpcSent>>
    BY <1>6 DEF RPCMoves
  <2>2. /\ rpcRunning.step = "started"
        /\ \/ /\ rpcRunning'.step = "returning" /\ rpcRunning'.nth = rpcRunning.nth
              /\ rpcCtx = "live" => Stops(rpcRunning.nth)
           \/ /\ rpcRunning'.step = "started" /\ rpcRunning'.nth = rpcRunning.nth + 1
              /\ rpcRunning.nth <= Len(streamOp.sends)
              /\ rpcCtx = "live" => ~Passed(rpcRunning.nth) /\ ~Stops(rpcRunning.nth)
    BY <2>1, MovedTo
  <2>3. rpcEnd' = <<>> /\ streamOp.refuses = 0 BY <1>1, <2>1, <2>2 DEF RPCToEnd
  <2> QED BY <1>2, <1>3, <2>1, <2>2, <2>3, RPCMoved
<1>7. CASE RPCSends
  <2>1. rpcRunning.step = "started" /\ rpcRunning.nth <= Len(streamOp.sends) /\ Passed(rpcRunning.nth)
    BY <1>7, SendsPassed DEF RPCSends
  <2>2. ~Stops(rpcRunning.nth) BY <2>1, PassedGoesOn
  <2>3. rpcEnd' = <<>> /\ streamOp.refuses = 0 /\ UNCHANGED rpcCtx BY <1>1, <1>7, <2>1 DEF RPCToEnd, RPCSends
  <2>4. /\ rpcRunning'.step \in {"started", "returning"} /\ rpcRunning'.nth \in {rpcRunning.nth, rpcRunning.nth + 1}
        /\ rpcCtx = "live" => rpcRunning'.step = "started"
    BY <1>7, RPCPlaces
  <2> QED BY <1>2, <1>3, <2>1, <2>2, <2>3, <2>4, RPCMoved
<1>8. CASE RPCReturns
  <2>1. rpcRunning.step = "returning" /\ UNCHANGED <<rpcCtx, rpcSent>> /\ rpcEnd' = <<CodeOK>> BY <1>8 DEF RPCReturns
  <2>2. streamOp.refuses = 0 /\ (rpcCtx = "live" => Stops(rpcRunning.nth)) BY <1>1, <2>1 DEF RPCToEnd
  <2>3. rpcEnd'[1] = ConnectCode(streamOp.refuses) BY <2>1, <2>2 DEF ConnectCode
  <2>4. rpcRunning'.step = "over" /\ rpcRunning'.nth = rpcRunning.nth BY <1>8, RPCPlaces
  <2> QED BY <1>2, <1>3, <2>1, <2>2, <2>3, <2>4, RPCMoved
<1>9. CASE RunStep \/ ServerStep \/ ClientEnds \/ RPCClientEnds \/ UNCHANGED streamsVars
  <2>1. UNCHANGED <<streamOp, rpcRunning, rpcEnd, rpcSent>> /\ (rpcCtx' = "live" => rpcCtx = "live")
    BY <1>9 DEF RunStep, ServerStep, RunStarts, RunRefused, RunMoves, RunOffers, Handover, OfferFails,
       RunReturns, RunCloses, Resolves, LibraryResolves, LibraryEnds, WriterTakes, WriterWrites, WriterCompletes,
       ClientEnds, RPCClientEnds, streamsVars, rpcVars
  <2> QED BY <2>1, RPCToEndSame
<1> QED BY <1>4, <1>5, <1>6, <1>7, <1>8, <1>9 DEF StreamsNext, RPCStep

LEMMA RunsToEndStep == ASSUME StreamInv, [StreamsNext]_streamsVars PROVE RunsToEnd'
<1>1. WSToEnd' /\ RPCToEnd' BY WSToEndStep, RPCToEndStep
<1> QED BY <1>1 DEF RunsToEnd, WSToEnd, RPCToEnd

\* A log goes on to the next value, unless it already does.
LEMMA LogGoesOn ==
  ASSUME StreamInv, NEW g \in Seq(Seq(STRING)), Log(g), NEW n \in 1 .. Len(g), n <= Len(streamOp.sends)
  PROVE \E h \in Seq(Seq(STRING)) :
           /\ Log(h) /\ Len(h) >= Len(g) /\ \A k \in 1 .. Len(g) : h[k] = g[k]
           /\ n + 1 \in 1 .. Len(h) /\ h[n + 1] = Grown(g[n], n)
<1> USE StreamTypes
<1>1. Len(g) \in Nat /\ n \in Nat \ {0} /\ n <= Len(g) OBVIOUS
<1>2. CASE n < Len(g)
  <2>1. n \in 1 .. Len(g) - 1 /\ n + 1 \in 1 .. Len(g) BY <1>1, <1>2
  <2>2. g[n + 1] = Grown(g[n], n) BY <2>1 DEF Log
  <2> QED BY <2>1, <2>2
<1>3. CASE n = Len(g)
  <2> DEFINE m == Grown(g[n], n)
             h == Append(g, m)
  <2>1. g[n] \in Seq(STRING) BY ElementOfSeq
  <2>2. streamOp.sends[n] \in STRING
    <3>1. n \in 1 .. Len(streamOp.sends) BY <1>1
    <3> QED BY <3>1, ElementOfSeq
  <2>3. Append(g[n], streamOp.sends[n]) \in Seq(STRING) BY <2>1, <2>2, AppendProperties
  <2>4. m \in Seq(STRING) BY <2>1, <2>3 DEF Grown
  <2> HIDE DEF m
  <2>5. /\ h \in Seq(Seq(STRING)) /\ Len(h) = Len(g) + 1 /\ h[Len(g) + 1] = m
        /\ \A k \in 1 .. Len(g) : h[k] = g[k]
    BY <2>4, AppendProperties
  <2> HIDE DEF h
  <2>6. Log(h)
    <3>1. Len(h) >= 1 BY <1>1, <2>5
    <3>2. 1 \in 1 .. Len(g) BY <1>1
    <3>3. h[1] = <<>> BY <2>5, <3>2 DEF Log
    <3>4. ASSUME NEW k \in 1 .. Len(h) - 1 PROVE h[k + 1] = Grown(h[k], k)
      <4>1. k \in 1 .. Len(g) BY <1>1, <2>5
      <4>2. h[k] = g[k] BY <2>5, <4>1
      <4>3. CASE k < Len(g)
        <5>1. k \in 1 .. Len(g) - 1 /\ k + 1 \in 1 .. Len(g) BY <1>1, <4>1, <4>3
        <5>2. g[k + 1] = Grown(g[k], k) BY <5>1 DEF Log
        <5>3. h[k + 1] = g[k + 1] BY <2>5, <5>1
        <5> QED BY <4>2, <5>2, <5>3
      <4>4. CASE k = Len(g) BY <1>3, <2>5, <4>2, <4>4 DEF m
      <4> QED BY <1>1, <4>1, <4>3, <4>4
    <3> QED BY <3>1, <3>3, <3>4 DEF Log
  <2>7. n + 1 \in 1 .. Len(h) /\ h[n + 1] = m /\ Len(h) >= Len(g) BY <1>1, <1>3, <2>5
  <2> QED BY <2>5, <2>6, <2>7 DEF m
<1> QED BY <1>1, <1>2, <1>3

LEMMA LogSame ==
  ASSUME UNCHANGED streamOp, NEW g, Log(g), Len(g) \in Nat
  PROVE Log(g)'
<1>1. ASSUME NEW k \in 1 .. Len(g) - 1 PROVE g[k + 1] = Grown(g[k], k)'
  <2>1. g[k + 1] = Grown(g[k], k) BY DEF Log
  <2>2. k \in Nat OBVIOUS
  <2>3. Passed(k)' <=> Passed(k) BY <2>2, StopsSame
  <2> QED BY <2>1, <2>3 DEF Grown
<1> QED BY <1>1 DEF Log

\* A step with the log that was there.
LEMMA SourceKept ==
  ASSUME StreamInv, UNCHANGED streamOp,
         subCtx' = "live" => subCtx = "live" /\ running'.nth = running.nth /\ UNCHANGED taken,
         rpcCtx' = "live" => rpcCtx = "live" /\ rpcRunning'.nth = rpcRunning.nth /\ UNCHANGED rpcSent
  PROVE SameSource'
<1>1. PICK g \in Seq(Seq(STRING)) : Log(g) /\ Matches(g) BY DEF StreamInv, SameSource
<1>2. Len(g) \in Nat OBVIOUS
<1>3. Log(g)' BY <1>1, <1>2, LogSame
<1>4. Matches(g)' BY <1>1 DEF Matches
<1> QED BY <1>3, <1>4 DEF SameSource

\* A step of the GraphQL run past a value, and one of the gRPC run.
LEMMA WSGoesOn ==
  ASSUME StreamInv, UNCHANGED <<streamOp, subCtx, rpcCtx, rpcRunning, rpcSent>>, running.nth <= Len(streamOp.sends),
         running'.nth = running.nth + 1,
         subCtx = "live" => taken' = Grown(taken, running.nth)
  PROVE SameSource'
<1> USE StreamTypes
<1>1. PICK g \in Seq(Seq(STRING)) : Log(g) /\ Matches(g) BY DEF StreamInv, SameSource
<1>2. CASE subCtx # "live"
  BY <1>2, SourceKept
<1>3. CASE subCtx = "live"
  <2>1. running.nth \in 1 .. Len(g) /\ taken = g[running.nth] BY <1>1, <1>3 DEF Matches
  <2>2. PICK h \in Seq(Seq(STRING)) :
           /\ Log(h) /\ Len(h) >= Len(g) /\ \A k \in 1 .. Len(g) : h[k] = g[k]
           /\ running.nth + 1 \in 1 .. Len(h) /\ h[running.nth + 1] = Grown(g[running.nth], running.nth)
    BY <1>1, <2>1, LogGoesOn
  <2>3. Len(h) \in Nat /\ Len(g) \in Nat OBVIOUS
  <2>4. Log(h)' BY <2>2, <2>3, LogSame
  <2>5. taken' = h[running'.nth] /\ running'.nth \in 1 .. Len(h) BY <1>3, <2>1, <2>2
  <2>6. rpcCtx = "live" => rpcRunning.nth \in 1 .. Len(h) /\ rpcSent = h[rpcRunning.nth]
    <3>1. rpcCtx = "live" => rpcRunning.nth \in 1 .. Len(g) /\ rpcSent = g[rpcRunning.nth] BY <1>1 DEF Matches
    <3>2. \A k \in 1 .. Len(g) : k \in 1 .. Len(h) /\ h[k] = g[k]
      <4>1. \A k \in 1 .. Len(g) : k \in 1 .. Len(h) BY <2>2, <2>3
      <4> QED BY <2>2, <4>1
    <3> QED BY <3>1, <3>2
  <2>7. Matches(h)' BY <2>5, <2>6 DEF Matches
  <2> QED BY <2>4, <2>7 DEF SameSource
<1> QED BY <1>2, <1>3

LEMMA RPCGoesOn ==
  ASSUME StreamInv, UNCHANGED <<streamOp, subCtx, rpcCtx, running, taken>>, rpcRunning.nth <= Len(streamOp.sends),
         rpcRunning'.nth = rpcRunning.nth + 1,
         rpcCtx = "live" => rpcSent' = Grown(rpcSent, rpcRunning.nth)
  PROVE SameSource'
<1> USE StreamTypes
<1>1. PICK g \in Seq(Seq(STRING)) : Log(g) /\ Matches(g) BY DEF StreamInv, SameSource
<1>2. CASE rpcCtx # "live"
  BY <1>2, SourceKept
<1>3. CASE rpcCtx = "live"
  <2>1. rpcRunning.nth \in 1 .. Len(g) /\ rpcSent = g[rpcRunning.nth] BY <1>1, <1>3 DEF Matches
  <2>2. PICK h \in Seq(Seq(STRING)) :
           /\ Log(h) /\ Len(h) >= Len(g) /\ \A k \in 1 .. Len(g) : h[k] = g[k]
           /\ rpcRunning.nth + 1 \in 1 .. Len(h) /\ h[rpcRunning.nth + 1] = Grown(g[rpcRunning.nth], rpcRunning.nth)
    BY <1>1, <2>1, LogGoesOn
  <2>3. Len(h) \in Nat /\ Len(g) \in Nat OBVIOUS
  <2>4. Log(h)' BY <2>2, <2>3, LogSame
  <2>5. rpcSent' = h[rpcRunning'.nth] /\ rpcRunning'.nth \in 1 .. Len(h) BY <1>3, <2>1, <2>2
  <2>6. subCtx = "live" => running.nth \in 1 .. Len(h) /\ taken = h[running.nth]
    <3>1. subCtx = "live" => running.nth \in 1 .. Len(g) /\ taken = g[running.nth] BY <1>1 DEF Matches
    <3>2. \A k \in 1 .. Len(g) : k \in 1 .. Len(h) /\ h[k] = g[k]
      <4>1. \A k \in 1 .. Len(g) : k \in 1 .. Len(h) BY <2>2, <2>3
      <4> QED BY <2>2, <4>1
    <3> QED BY <3>1, <3>2
  <2>7. Matches(h)' BY <2>5, <2>6 DEF Matches
  <2> QED BY <2>4, <2>7 DEF SameSource
<1> QED BY <1>2, <1>3

LEMMA SameSourceStep == ASSUME StreamInv, [StreamsNext]_streamsVars PROVE SameSource'
<1> USE StreamTypes
<1>1. UNCHANGED streamOp BY OpKept
<1>2. CASE Handover
  <2>1. running.nth <= Len(streamOp.sends) /\ Passed(running.nth) BY <1>2 DEF Handover, StreamInv, RunsToEnd
  <2>2. taken' = Grown(taken, running.nth) BY <1>2, <2>1 DEF Handover, Grown, Value
  <2>3. UNCHANGED <<subCtx, rpcCtx, rpcRunning, rpcSent>> BY <1>2 DEF Handover, rpcVars
  <2>4. running'.nth = running.nth + 1 BY <1>2, RunPlaces
  <2> QED BY <1>1, <2>1, <2>2, <2>3, <2>4, WSGoesOn
<1>3. CASE RunMoves
  <2>1. running' = Moved(running) /\ Moves(running, subCtx) /\ UNCHANGED <<taken, subCtx, rpcCtx, rpcRunning, rpcSent>>
    BY <1>3 DEF RunMoves, rpcVars
  <2>2. \/ running'.nth = running.nth
        \/ /\ running'.nth = running.nth + 1 /\ running.nth <= Len(streamOp.sends)
           /\ subCtx = "live" => ~Passed(running.nth)
    BY <2>1, MovedTo
  <2>3. CASE running'.nth = running.nth BY <1>1, <2>1, <2>3, SourceKept
  <2>4. CASE /\ running'.nth = running.nth + 1 /\ running.nth <= Len(streamOp.sends)
             /\ subCtx = "live" => ~Passed(running.nth)
    <3>1. subCtx = "live" => taken' = Grown(taken, running.nth) BY <2>1, <2>4 DEF Grown
    <3> QED BY <1>1, <2>1, <2>4, <3>1, WSGoesOn
  <2> QED BY <2>2, <2>3, <2>4
<1>4. CASE OfferFails
  <2>1. UNCHANGED <<subCtx, rpcCtx, rpcRunning, rpcSent>> /\ subCtx # "live" BY <1>4 DEF OfferFails, rpcVars
  <2> QED BY <1>1, <2>1, SourceKept
<1>5. CASE RunStarts \/ RunRefused \/ RunOffers \/ RunReturns \/ RunCloses
  <2>1. running'.nth = running.nth BY <1>5, RunPlaces
  <2>2. UNCHANGED <<taken, subCtx, rpcCtx, rpcRunning, rpcSent>>
    BY <1>5 DEF RunStarts, RunRefused, RunOffers, RunReturns, RunCloses, rpcVars
  <2> QED BY <1>1, <2>1, <2>2, SourceKept
<1>6. CASE RPCSends
  <2>1. rpcRunning.nth <= Len(streamOp.sends) /\ Passed(rpcRunning.nth) BY <1>6, SendsPassed DEF RPCSends
  <2>2. UNCHANGED <<subCtx, rpcCtx, running, taken>> BY <1>6 DEF RPCSends, dispatchVars
  <2>3. CASE rpcCtx = "live"
    <3>1. rpcSent' = Grown(rpcSent, rpcRunning.nth) BY <1>6, <2>1, <2>3 DEF RPCSends, Grown, Value
    <3>2. rpcRunning'.nth = rpcRunning.nth + 1 BY <1>6, <2>3, RPCPlaces
    <3> QED BY <1>1, <2>1, <2>2, <3>1, <3>2, RPCGoesOn
  <2>4. CASE rpcCtx # "live" BY <1>1, <2>2, <2>4, SourceKept
  <2> QED BY <2>3, <2>4
<1>7. CASE RPCMoves
  <2>1. /\ rpcRunning' = Moved(rpcRunning) /\ Moves(rpcRunning, rpcCtx)
        /\ UNCHANGED <<subCtx, rpcCtx, running, taken, rpcSent>>
    BY <1>7 DEF RPCMoves, dispatchVars
  <2>2. \/ rpcRunning'.nth = rpcRunning.nth
        \/ /\ rpcRunning'.nth = rpcRunning.nth + 1 /\ rpcRunning.nth <= Len(streamOp.sends)
           /\ rpcCtx = "live" => ~Passed(rpcRunning.nth)
    BY <2>1, MovedTo
  <2>3. CASE rpcRunning'.nth = rpcRunning.nth BY <1>1, <2>1, <2>3, SourceKept
  <2>4. CASE /\ rpcRunning'.nth = rpcRunning.nth + 1 /\ rpcRunning.nth <= Len(streamOp.sends)
             /\ rpcCtx = "live" => ~Passed(rpcRunning.nth)
    <3>1. rpcCtx = "live" => rpcSent' = Grown(rpcSent, rpcRunning.nth) BY <2>1, <2>4 DEF Grown
    <3> QED BY <1>1, <2>1, <2>4, <3>1, RPCGoesOn
  <2> QED BY <2>2, <2>3, <2>4
<1>8. CASE RPCStarts \/ RPCRefused \/ RPCReturns
  <2>1. rpcRunning'.nth = rpcRunning.nth BY <1>8, RPCPlaces
  <2>2. UNCHANGED <<subCtx, rpcCtx, running, taken, rpcSent>> BY <1>8 DEF RPCStarts, RPCRefused, RPCReturns, dispatchVars
  <2> QED BY <1>1, <2>1, <2>2, SourceKept
<1>9. CASE ServerStep \/ ClientEnds \/ RPCClientEnds \/ UNCHANGED streamsVars
  <2>1. /\ UNCHANGED <<running, taken, rpcRunning, rpcSent>>
        /\ subCtx' = "live" => subCtx = "live"
        /\ rpcCtx' = "live" => rpcCtx = "live"
    BY <1>9 DEF ServerStep, Resolves, LibraryResolves, LibraryEnds, WriterTakes, WriterWrites, WriterCompletes,
       ClientEnds, RPCClientEnds, streamsVars, rpcVars, dispatchVars
  <2> QED BY <1>1, <2>1, SourceKept
<1> QED BY <1>2, <1>3, <1>4, <1>5, <1>6, <1>7, <1>8, <1>9 DEF StreamsNext, RunStep, RPCStep

LEMMA StreamsKept == ASSUME StreamInv, [StreamsNext]_streamsVars PROVE StreamInv'
BY StreamDataStep, HandedOnStep, EndsToldStep, NoneLostStep, RunsToEndStep, SameSourceStep DEF StreamInv

\* The next frames are what was taken, up to where the frames got.
LEMMA NextsAre ==
  ASSUME StreamInv
  PROVE /\ Nexts \in Seq(STRING) /\ Len(Nexts) = NextCount /\ NextCount <= Len(taken)
        /\ \A i \in 1 .. NextCount : Nexts[i] = taken[i]
<1> USE StreamTypes, CountIs
<1>1. \A i \in 1 .. NextCount : i <= Len(taken) /\ wsFrames[i].event = taken[i] BY DEF StreamInv, NoneLost
<1>2. \A i \in 1 .. NextCount : Nexts[i] = taken[i] BY <1>1 DEF Nexts
<1>3. NextCount <= Len(taken)
  <2>1. CASE NextCount = 0 BY <2>1
  <2>2. CASE NextCount # 0
    <3>1. NextCount \in 1 .. NextCount BY <2>2
    <3> QED BY <1>1, <3>1
  <2> QED BY <2>1, <2>2
<1>4. \A i \in 1 .. NextCount : taken[i] \in STRING
  <2> SUFFICES ASSUME NEW i \in 1 .. NextCount PROVE taken[i] \in STRING OBVIOUS
  <2>1. i \in 1 .. Len(taken) BY <1>3
  <2> QED BY <2>1, ElementOfSeq
<1>5. Nexts \in [1 .. NextCount -> STRING] BY <1>1, <1>4 DEF Nexts
<1>6. Nexts \in Seq(STRING) BY <1>5, SeqDef
<1>7. DOMAIN Nexts = 1 .. NextCount BY DEF Nexts
<1>8. Len(Nexts) = NextCount BY <1>6, <1>7, LenProperties
<1> QED BY <1>2, <1>3, <1>6, <1>8

\* Both runs stop at the first value that stops one.
LEMMA SameStop ==
  ASSUME NEW m \in Nat \ {0}, NEW n \in Nat \ {0}, Stops(m), Stops(n),
         \A k \in 1 .. m - 1 : ~Stops(k), \A k \in 1 .. n - 1 : ~Stops(k)
  PROVE m = n
<1>1. ~(m < n)
  <2> SUFFICES ASSUME m < n PROVE FALSE OBVIOUS
  <2>1. m \in 1 .. n - 1 OBVIOUS
  <2> QED BY <2>1
<1>2. ~(n < m)
  <2> SUFFICES ASSUME n < m PROVE FALSE OBVIOUS
  <2>1. n \in 1 .. m - 1 OBVIOUS
  <2> QED BY <2>1
<1> QED BY <1>1, <1>2

LEMMA FramesFollow == StreamInv => StreamFrames
<1> SUFFICES ASSUME StreamInv PROVE StreamFrames OBVIOUS
<1> USE StreamTypes, CountIs
<1>1. HandedOn /\ EndsTold /\ NoneLost /\ RunsToEnd /\ StreamData BY DEF StreamInv
<1>2. /\ Nexts \in Seq(STRING) /\ Len(Nexts) = NextCount /\ NextCount <= Len(taken)
      /\ \A i \in 1 .. NextCount : Nexts[i] = taken[i]
  BY NextsAre
<1>3. Last(wsFrames) = wsFrames[Len(wsFrames)] BY DEF Last
<1>4. IsPrefix(Nexts, taken)
  <2>1. SubSeq(Nexts, 1, Len(Nexts)) = [i \in 1 .. Len(Nexts) |-> Nexts[i]] BY <1>2
  <2>2. SubSeq(taken, 1, Len(Nexts)) = [i \in 1 .. Len(Nexts) |-> taken[i]] BY <1>2
  <2>3. [i \in 1 .. Len(Nexts) |-> Nexts[i]] = [i \in 1 .. Len(Nexts) |-> taken[i]] BY <1>2
  <2> QED BY <1>2, <2>1, <2>2, <2>3 DEF IsPrefix
<1>5. \A i \in DOMAIN wsFrames : wsFrames[i].kind # "next" => i = Len(wsFrames) BY <1>1 DEF EndsTold
<1>6. ASSUME subCtx = "live", InHand = 0, Held = 0 PROVE Nexts = taken
  <2>1. Len(taken) = NextCount BY <1>1, <1>6 DEF NoneLost
  <2> QED BY <1>2, <2>1, SeqEqual
<1>7. ASSUME Ended PROVE writerAt.step = "over" /\ InHand = 0
  <2>1. wsFrames # <<>> /\ wsFrames[Len(wsFrames)].kind # "next" BY <1>3, <1>7 DEF Ended
  <2>2. Len(wsFrames) \in DOMAIN wsFrames BY <2>1
  <2>3. writerAt.step = "over" BY <1>1, <2>1, <2>2 DEF EndsTold
  <2> QED BY <2>3 DEF InHand
<1>8. ASSUME Ended, subCtx = "live" PROVE Nexts = taken
  <2>1. library.step = "over" /\ InHand = 0 BY <1>1, <1>7, <1>8 DEF EndsTold
  <2>2. Held = 0 BY <2>1 DEF Held
  <2> QED BY <1>6, <1>8, <2>1, <2>2
<1>9. ASSUME Ended, subCtx = "live", Last(wsFrames).kind = "complete"
      PROVE Nexts = taken /\ streamOp.refuses = 0 /\ startedCh /\ running.step = "over" /\ Last(wsFrames).code = 0
  BY <1>1, <1>3, <1>8, <1>9 DEF EndsTold, HandedOn
<1>10. ASSUME Ended, Last(wsFrames).kind = "error"
       PROVE /\ Len(wsFrames) = 1 /\ ~startedCh /\ taken = <<>> /\ resolverAt.step = "error"
             /\ Last(wsFrames).code = resolverAt.code
  <2>1. /\ resolverAt.step = "error" /\ ~startedCh /\ taken = <<>> /\ resolverAt.code # 0
        /\ Last(wsFrames).code = resolverAt.code
    BY <1>1, <1>3, <1>10 DEF EndsTold, HandedOn
  <2>2. Len(taken) = 0 BY <2>1
  <2>3. NextCount = 0 BY <1>2, <2>2
  <2>4. NextCount = Len(wsFrames) - 1 BY <1>10 DEF NextCount
  <2>5. Len(wsFrames) = 1 BY <2>3, <2>4
  <2> QED BY <2>1, <2>5
<1>11. ASSUME writerAt.step = "over", subCtx = "live", rpcEnd # <<>>, rpcCtx = "live"
       PROVE Nexts = rpcSent /\ rpcEnd[1] = ConnectCode(Last(wsFrames).code)
  <2>1. Ended BY <1>1, <1>11 DEF EndsTold
  <2>2. Nexts = taken BY <1>8, <1>11, <2>1
  <2>3. rpcRunning.step = "over" /\ rpcEnd[1] = ConnectCode(streamOp.refuses) /\ \A k \in 1 .. rpcRunning.nth - 1 : ~Stops(k)
    BY <1>1, <1>11 DEF RunsToEnd
  <2>4. Last(wsFrames).kind \in {"error", "complete"}
    <3>1. wsFrames # <<>> /\ wsFrames[Len(wsFrames)].kind # "next" BY <1>3, <2>1 DEF Ended
    <3>2. Len(wsFrames) \in 1 .. Len(wsFrames) BY <3>1
    <3>3. wsFrames[Len(wsFrames)] \in Frames BY <3>2, ElementOfSeq
    <3>4. wsFrames[Len(wsFrames)].kind \in {"next", "error", "complete"} BY <3>3 DEF Frames
    <3> QED BY <1>3, <3>1, <3>4
  <2>5. CASE Last(wsFrames).kind = "error"
    <3>1. taken = <<>> /\ Last(wsFrames).code = resolverAt.code /\ resolverAt.step = "error" BY <1>10, <2>1, <2>5
    <3>2. resolverAt.code = streamOp.refuses /\ resolverAt.code # 0 BY <1>1, <1>11, <3>1 DEF HandedOn
    <3>3. rpcSent = <<>> BY <1>1, <3>2 DEF RunsToEnd
    <3> QED BY <2>2, <2>3, <3>1, <3>2, <3>3
  <2>6. CASE Last(wsFrames).kind = "complete"
    <3>1. streamOp.refuses = 0 /\ startedCh /\ running.step = "over" /\ Last(wsFrames).code = 0
      BY <1>9, <1>11, <2>1, <2>6
    <3>2. Stops(running.nth) /\ \A k \in 1 .. running.nth - 1 : ~Stops(k) BY <1>1, <1>11, <3>1 DEF RunsToEnd
    <3>3. Stops(rpcRunning.nth) BY <1>1, <1>11, <2>3, <3>1 DEF RunsToEnd
    <3>4. running.nth = rpcRunning.nth BY <2>3, <3>2, <3>3, SameStop
    <3>5. PICK g \in Seq(Seq(STRING)) : Log(g) /\ Matches(g) BY DEF StreamInv, SameSource
    <3>6. taken = rpcSent BY <1>11, <3>4, <3>5 DEF Matches
    <3> QED BY <2>2, <2>3, <3>1, <3>6
  <2> QED BY <2>4, <2>5, <2>6
<1> QED BY <1>4, <1>5, <1>9, <1>10, <1>11 DEF StreamFrames

(***************************************************************************)
(* A client's frames say what the handler sent and how it ended, for any   *)
(* operation: next frames in order and none lost while it stays, an ending *)
(* frame only at the end, a refusal as an error and never as an empty      *)
(* stream, and the same over gRPC (gw/gat/stream.go streamDispatcher and   *)
(* connectStream, gw/gat/graphql_ws.go runGraphQLSubscription).            *)
(***************************************************************************)
THEOREM StreamFramesHolds == StreamsSpec => []StreamFrames
<1>1. StreamInv /\ [StreamsNext]_streamsVars => StreamInv' BY StreamsKept
<1> QED BY <1>1, StreamInit, FramesFollow, PTL DEF StreamsSpec
=============================================================================
