------------------------- MODULE StableAliasProofs --------------------------
(***************************************************************************)
(* Proofs about StableAlias for any number of gateways, versions, KV       *)
(* failures and restarts.                                                  *)
(***************************************************************************)
EXTENDS StableAlias, TLAPS

(***************************************************************************)
(* What is in a gateway's watch queue: no value at all, or values of which *)
(* the last is v.                                                          *)
(***************************************************************************)
NoValue(q) == \A i \in 1..Len(q) : q[i] = Ready
EndsWith(q, v) ==
    \A i \in 1..Len(q) :
        q[i] # Ready /\ (\A j \in 1..Len(q) : j > i => q[j] = Ready) => q[i] = v

(***************************************************************************)
(* A write-back that will still put its version: it has not yet read the   *)
(* bucket, or has read the revision that is there.                         *)
(***************************************************************************)
WillPut(w) == w.vn > kv /\ (w.phase = "cas" => w.rev = rev)
Pending(g) == retracts[g] # 0 \/ \E w \in writers : w.gw = g /\ WillPut(w)

(***************************************************************************)
(* The inductive invariant.  A write-back about to compare and set at the  *)
(* current revision has seen a lower value.  The last value in a queue is  *)
(* the bucket's, and there is none while the bucket is empty.  A gateway   *)
(* whose queue holds no value either has the bucket's value or is about to *)
(* put its own, unless a KV call failed.                                   *)
(***************************************************************************)
CasRaises == \A w \in writers : w.rev <= rev /\ (w.phase = "cas" /\ w.rev = rev => w.vn > kv)
QueueEndsWithBucket ==
    \A g \in Gateways : EndsWith(queue[g], kv) /\ (kv = 0 => NoValue(queue[g]))
CaughtUp == \A g \in Gateways : NoValue(queue[g]) => stable[g] = kv \/ Pending(g)

IInv == TypeOK /\ CasRaises /\ QueueEndsWithBucket /\ (count.fail = 0 => CaughtUp)

-----------------------------------------------------------------------------
(* The queues.                                                             *)

LEMMA HeadTail ==
    ASSUME NEW S, NEW q \in Seq(S), q # <<>>
    PROVE  Head(q) \in S /\ Tail(q) \in Seq(S)
OBVIOUS

\* A put ends every queue with the value that was put.
LEMMA AppendEnds ==
    ASSUME NEW q \in Seq(0..MaxVN), NEW v \in VN
    PROVE  EndsWith(Append(q, v), v) /\ ~NoValue(Append(q, v))
<1>1. /\ Len(Append(q, v)) = Len(q) + 1 /\ Len(q) \in Nat
      /\ Append(q, v)[Len(q) + 1] = v
  OBVIOUS
<1>2. v # Ready BY StableAssumption DEF VN, Ready
<1>3. ~NoValue(Append(q, v)) BY <1>1, <1>2 DEF NoValue
<1>4. EndsWith(Append(q, v), v) BY <1>1, <1>2 DEF EndsWith
<1> QED BY <1>3, <1>4

\* Taking the first update off a queue keeps its last value; if no value is left
\* there was none, or the update was the last value.
LEMMA TailEnds ==
    ASSUME NEW q \in Seq(0..MaxVN), q # <<>>, NEW v, EndsWith(q, v)
    PROVE  /\ EndsWith(Tail(q), v)
           /\ NoValue(Tail(q)) => NoValue(q) \/ (Head(q) # Ready /\ Head(q) = v)
<1>1. /\ Len(q) \in Nat \ {0} /\ Len(Tail(q)) = Len(q) - 1 /\ Head(q) = q[1]
      /\ \A i \in 1..Len(Tail(q)) : Tail(q)[i] = q[i + 1]
  OBVIOUS
<1>2. EndsWith(Tail(q), v)
  <2> SUFFICES ASSUME NEW i \in 1..Len(Tail(q)), Tail(q)[i] # Ready,
                      \A j \in 1..Len(Tail(q)) : j > i => Tail(q)[j] = Ready
               PROVE  Tail(q)[i] = v
    BY DEF EndsWith
  <2>1. i + 1 \in 1..Len(q) /\ q[i + 1] # Ready BY <1>1
  <2>2. ASSUME NEW j \in 1..Len(q), j > i + 1 PROVE q[j] = Ready
    <3>1. j - 1 \in 1..Len(Tail(q)) /\ j - 1 > i BY <1>1, <2>2
    <3>2. Tail(q)[j - 1] = q[(j - 1) + 1] BY <1>1, <3>1
    <3> QED BY <3>1, <3>2
  <2> QED BY <1>1, <2>1, <2>2 DEF EndsWith
<1>3. ASSUME NoValue(Tail(q)), ~NoValue(q) PROVE Head(q) # Ready /\ Head(q) = v
  <2>1. ASSUME NEW j \in 1..Len(q), j > 1 PROVE q[j] = Ready
    <3>1. j - 1 \in 1..Len(Tail(q)) BY <1>1, <2>1
    <3>2. Tail(q)[j - 1] = q[(j - 1) + 1] BY <1>1, <3>1
    <3> QED BY <1>3, <3>1, <3>2 DEF NoValue
  <2>2. 1 \in 1..Len(q) BY <1>1
  <2>3. q[1] # Ready BY <1>1, <1>3, <2>1 DEF NoValue
  <2>4. q[1] = v BY <2>1, <2>2, <2>3 DEF EndsWith
  <2> QED BY <1>1, <2>3, <2>4
<1> QED BY <1>2, <1>3

\* The replay of a watch ends with the bucket's value, and has none only if the
\* bucket is empty.
LEMMA ReplayEnds ==
    ASSUME kv \in 0..MaxVN
    PROVE  /\ Replay \in Seq(0..MaxVN)
           /\ EndsWith(Replay, kv)
           /\ NoValue(Replay) => kv = 0
           /\ kv = 0 => Replay = <<Ready>>
<1> USE StableAssumption
<1>1. CASE kv = 0
  <2>1. Replay = <<Ready>> BY <1>1 DEF Replay
  <2>2. Ready \in 0..MaxVN BY DEF Ready
  <2>3. Len(<<Ready>>) = 1 /\ <<Ready>>[1] = Ready OBVIOUS
  <2> QED BY <1>1, <2>1, <2>2, <2>3 DEF EndsWith
<1>2. CASE kv # 0
  <2>1. Replay = <<kv, Ready>> BY <1>2 DEF Replay
  <2>2. Ready \in 0..MaxVN BY DEF Ready
  <2>3. Len(<<kv, Ready>>) = 2 /\ <<kv, Ready>>[1] = kv /\ <<kv, Ready>>[2] = Ready OBVIOUS
  <2>4. EndsWith(<<kv, Ready>>, kv) BY <2>3 DEF EndsWith
  <2>5. ~NoValue(<<kv, Ready>>) BY <1>2, <2>3 DEF NoValue, Ready
  <2> QED BY <1>2, <2>1, <2>2, <2>4, <2>5
<1> QED BY <1>1, <1>2

-----------------------------------------------------------------------------
(* Types.                                                                  *)

\* A write-back's next attempt is one of its own.
LEMMA RetryFacts ==
    ASSUME NEW w \in Writer
    PROVE  /\ Retry(w) \subseteq Writer
           /\ \A u \in Retry(w) : u.gw = w.gw /\ u.vn = w.vn /\ u.phase = "get" /\ u.rev = 0
<1> USE StableAssumption
<1>1. CASE w.left = 1 BY <1>1 DEF Retry
<1>2. CASE w.left # 1
  <2>1. Retry(w) = {[w EXCEPT !.phase = "get", !.rev = 0, !.left = @ - 1]} BY <1>2 DEF Retry
  <2>2. w.left - 1 \in 1..MaxAttempts BY <1>2 DEF Writer
  <2>3. [w EXCEPT !.phase = "get", !.rev = 0, !.left = @ - 1] \in Writer BY <2>2 DEF Writer
  <2> QED BY <2>1, <2>3 DEF Writer
<1> QED BY <1>1, <1>2

\* A put keeps the bucket within its types.
LEMMA PutType ==
    ASSUME TypeOK, NEW v \in VN, Put(v)
    PROVE  kv' \in 0..MaxVN /\ rev' \in Nat /\ queue' \in [Gateways -> Seq(0..MaxVN)]
<1>1. v \in 0..MaxVN BY StableAssumption DEF VN
<1>2. \A g \in Gateways : Append(queue[g], v) \in Seq(0..MaxVN) BY <1>1 DEF TypeOK
<1> QED BY <1>1, <1>2 DEF TypeOK, Put

\* A failed call stays within its bound and is counted.
LEMMA FailType ==
    ASSUME TypeOK, Fail
    PROVE  /\ count' \in [reg: 0..MaxRegisters, retract: 0..MaxRetracts,
                          fail: 0..MaxFailures, restart: 0..MaxRestarts]
           /\ count'.fail # 0
<1>1. count.fail + 1 \in 0..MaxFailures /\ count.fail + 1 # 0 BY StableAssumption DEF TypeOK, Fail
<1> QED BY <1>1 DEF TypeOK, Fail

LEMMA RestartedType ==
    ASSUME TypeOK, count.restart < MaxRestarts, Restarted
    PROVE  /\ count' \in [reg: 0..MaxRegisters, retract: 0..MaxRetracts,
                          fail: 0..MaxFailures, restart: 0..MaxRestarts]
           /\ count'.fail = count.fail
<1>1. count.restart + 1 \in 0..MaxRestarts BY StableAssumption DEF TypeOK
<1> QED BY <1>1 DEF TypeOK, Restarted

LEMMA TypeStep == TypeOK /\ [Next]_vars => TypeOK'
<1> SUFFICES ASSUME TypeOK, [Next]_vars PROVE TypeOK' OBVIOUS
<1> USE StableAssumption
<1> DEFINE Counts == [reg: 0..MaxRegisters, retract: 0..MaxRetracts,
                      fail: 0..MaxFailures, restart: 0..MaxRestarts]
<1>1. ASSUME NEW n \in VN, Register(n) PROVE TypeOK'
  <2>1. count' \in Counts
    <3>1. count.reg + 1 \in 0..MaxRegisters BY <1>1 DEF TypeOK, Register
    <3> QED BY <1>1, <3>1 DEF TypeOK, Register
  <2> QED BY <1>1, <2>1 DEF TypeOK, Register, bucket
<1>2. ASSUME NEW n \in VN, Leave(n) PROVE TypeOK' BY <1>2 DEF TypeOK, Leave, bucket
<1>3. ASSUME NEW g \in Gateways, NEW n \in VN, Create(g, n) PROVE TypeOK'
  <2>1. has' \in [Gateways -> SUBSET VN] BY <1>3 DEF TypeOK, Create
  <2>2. stable' \in [Gateways -> 0..MaxVN] /\ writers' \subseteq Writer
    <3>1. n \in 0..MaxVN BY DEF VN
    <3>2. [gw |-> g, vn |-> n, phase |-> "get", rev |-> 0, left |-> MaxAttempts] \in Writer
      BY DEF Writer
    <3> QED BY <1>3, <3>1, <3>2 DEF TypeOK, Create
  <2>3. Alias(has'[g], stable'[g]) \in 0..MaxVN BY <2>2 DEF Alias
  <2>4. served' \in [Gateways -> 0..MaxVN] BY <1>3, <2>3 DEF TypeOK, Create
  <2> QED BY <1>3, <2>1, <2>2, <2>4 DEF TypeOK, Create, bucket
<1>4. ASSUME NEW g \in Gateways, NEW n \in VN, Release(g, n) PROVE TypeOK'
  <2>1. has' \in [Gateways -> SUBSET VN] BY <1>4 DEF TypeOK, Release
  <2>2. Alias(has'[g], stable[g]) \in 0..MaxVN BY DEF Alias, TypeOK
  <2>3. served' \in [Gateways -> 0..MaxVN] BY <1>4, <2>2 DEF TypeOK, Release
  <2> QED BY <1>4, <2>1, <2>3 DEF TypeOK, Release, bucket
<1>5. ASSUME NEW g \in Gateways, NEW n \in VN, Retract(g, n) PROVE TypeOK'
  <2>1. n \in 0..MaxVN BY DEF VN
  <2>2. count' \in Counts
    <3>1. count.retract + 1 \in 0..MaxRetracts BY <1>5 DEF TypeOK, Retract
    <3> QED BY <1>5, <3>1 DEF TypeOK, Retract
  <2> QED BY <1>5, <2>1, <2>2 DEF TypeOK, Retract, bucket
<1>6. ASSUME NEW g \in Gateways, RetractPut(g) PROVE TypeOK'
  <2>1. retracts[g] \in VN BY <1>6 DEF TypeOK, RetractPut, VN
  <2>2. kv' \in 0..MaxVN /\ rev' \in Nat /\ queue' \in [Gateways -> Seq(0..MaxVN)]
    <3>1. CASE Put(retracts[g]) BY <2>1, <3>1, PutType
    <3>2. CASE UNCHANGED bucket BY <3>2 DEF TypeOK, bucket
    <3> QED BY <1>6, <3>1, <3>2 DEF RetractPut
  <2>3. count' \in Counts BY <1>6, FailType DEF RetractPut, TypeOK
  <2>4. settled' \in BOOLEAN
    <3>1. (writers = {} /\ \A h \in Gateways : registered \subseteq has[h]) \in BOOLEAN
      BY Zenon
    <3> QED BY <1>6, <3>1, Zenon DEF RetractPut, TypeOK
  <2>5. retracts' \in [Gateways -> 0..MaxVN] BY <1>6 DEF RetractPut, TypeOK
  <2> QED BY <1>6, <2>2, <2>3, <2>4, <2>5 DEF TypeOK, RetractPut
<1>7. ASSUME NEW g \in Gateways, Watch(g) PROVE TypeOK'
  <2>1. queue[g] \in Seq(0..MaxVN) /\ queue[g] # <<>> BY <1>7 DEF TypeOK, Watch
  <2>2. Head(queue[g]) \in 0..MaxVN /\ Tail(queue[g]) \in Seq(0..MaxVN) BY <2>1, HeadTail
  <2>3. stable' \in [Gateways -> 0..MaxVN] BY <1>7, <2>2 DEF TypeOK, Watch
  <2>4. Alias(has[g], stable'[g]) \in 0..MaxVN BY <2>3 DEF Alias
  <2>5. served' \in [Gateways -> 0..MaxVN] BY <1>7, <2>4 DEF TypeOK, Watch
  <2>6. queue' \in [Gateways -> Seq(0..MaxVN)] BY <1>7, <2>2 DEF TypeOK, Watch
  <2>7. ready' \subseteq Gateways BY <1>7 DEF TypeOK, Watch
  <2> QED BY <1>7, <2>3, <2>5, <2>6, <2>7 DEF TypeOK, Watch
<1>8. ASSUME NEW g \in Gateways, Skip(g) PROVE TypeOK'
  <2>1. queue[g] \in Seq(0..MaxVN) BY DEF TypeOK
  <2>2. queue[g] # <<>> BY <1>8, <2>1 DEF Skip
  <2>3. Tail(queue[g]) \in Seq(0..MaxVN) BY <2>1, <2>2, HeadTail
  <2> QED BY <1>8, <2>3 DEF TypeOK, Skip
<1>9. ASSUME NEW g \in Gateways, Rewatch(g) PROVE TypeOK'
  <2>1. Replay \in Seq(0..MaxVN) BY ReplayEnds DEF TypeOK
  <2>2. count' \in Counts BY <1>9, RestartedType DEF Rewatch
  <2>3. queue' \in [Gateways -> Seq(0..MaxVN)] BY <1>9, <2>1 DEF Rewatch, TypeOK
  <2> QED BY <1>9, <2>2, <2>3 DEF TypeOK, Rewatch
<1>10. ASSUME NEW g \in Gateways, Restart(g) PROVE TypeOK'
  <2>1. Replay \in Seq(0..MaxVN) BY ReplayEnds DEF TypeOK
  <2>2. count' \in Counts BY <1>10, RestartedType DEF Restart
  <2>3. queue' \in [Gateways -> Seq(0..MaxVN)] BY <1>10, <2>1 DEF Restart, TypeOK
  <2>4. has' \in [Gateways -> SUBSET VN] /\ stable' \in [Gateways -> 0..MaxVN]
    BY <1>10 DEF Restart, TypeOK
  <2>5. served' \in [Gateways -> 0..MaxVN] /\ retracts' \in [Gateways -> 0..MaxVN]
    BY <1>10 DEF Restart, TypeOK
  <2>6. ready' \subseteq Gateways /\ writers' \subseteq Writer BY <1>10 DEF Restart, TypeOK
  <2> QED BY <1>10, <2>2, <2>3, <2>4, <2>5, <2>6 DEF TypeOK, Restart
<1>11. ASSUME NEW w \in writers, WriterGet(w) PROVE TypeOK'
  <2>1. w \in Writer BY DEF TypeOK
  <2>2. [w EXCEPT !.phase = "cas", !.rev = rev] \in Writer BY <2>1 DEF Writer, TypeOK
  <2>3. writers' \subseteq Writer BY <1>11, <2>1, <2>2, RetryFacts DEF WriterGet, TypeOK
  <2>4. count' \in Counts BY <1>11, FailType DEF WriterGet, TypeOK
  <2>5. UNCHANGED bucket BY <1>11 DEF WriterGet
  <2> QED BY <1>11, <2>3, <2>4, <2>5 DEF TypeOK, WriterGet, bucket
<1>12. ASSUME NEW w \in writers, WriterCas(w) PROVE TypeOK'
  <2>1. w \in Writer /\ w.vn \in VN BY DEF TypeOK, Writer
  <2>2. kv' \in 0..MaxVN /\ rev' \in Nat /\ queue' \in [Gateways -> Seq(0..MaxVN)]
    <3>1. CASE Put(w.vn) BY <2>1, <3>1, PutType
    <3>2. CASE UNCHANGED bucket BY <3>2 DEF TypeOK, bucket
    <3> QED BY <1>12, <3>1, <3>2 DEF WriterCas
  <2>3. writers' \subseteq Writer BY <1>12, <2>1, RetryFacts DEF WriterCas, TypeOK
  <2>4. count' \in Counts BY <1>12, FailType DEF WriterCas, TypeOK
  <2> QED BY <1>12, <2>2, <2>3, <2>4 DEF TypeOK, WriterCas
<1>13. CASE UNCHANGED vars BY <1>13 DEF TypeOK, vars
<1> QED
  BY <1>1, <1>2, <1>3, <1>4, <1>5, <1>6, <1>7, <1>8, <1>9, <1>10, <1>11, <1>12, <1>13 DEF Next

LEMMA InitType == Init => TypeOK
<1> SUFFICES ASSUME Init PROVE TypeOK OBVIOUS
<1>1. <<Ready>> \in Seq(0..MaxVN) BY StableAssumption DEF Ready
<1>2. settled \in BOOLEAN BY Zenon DEF Init
<1> QED BY <1>1, <1>2, StableAssumption DEF Init, TypeOK

(***************************************************************************)
(* Any number of gateways, versions and failures: the alias, the bucket    *)
(* and the write-backs stay within their types (gw/stable.go).             *)
(***************************************************************************)
THEOREM TypeCorrect == Spec => []TypeOK
BY InitType, TypeStep, PTL DEF Spec

-----------------------------------------------------------------------------
(* What a step does to the bucket and the watches: nothing; a put of a     *)
(* write-back at the revision it read, or of a retract; an update taken    *)
(* off a queue; or a queue that starts anew.                               *)

PutOf(v) == \/ \E w \in writers : w.phase = "cas" /\ w.rev = rev /\ w.vn = v
            \/ \E g \in Gateways : retracts[g] = v /\ retracts'[g] = 0

BucketStep ==
    \/ UNCHANGED <<kv, rev, queue>>
    \/ \E v \in VN : Put(v) /\ PutOf(v)
    \/ \E g \in Gateways : /\ queue[g] # <<>> /\ UNCHANGED <<kv, rev>>
                           /\ queue' = [queue EXCEPT ![g] = Tail(@)]
    \/ \E g \in Gateways : UNCHANGED <<kv, rev>> /\ queue' = [queue EXCEPT ![g] = Replay]

LEMMA BucketSteps == TypeOK /\ [Next]_vars => BucketStep
<1> SUFFICES ASSUME TypeOK, [Next]_vars PROVE BucketStep OBVIOUS
<1>1. ASSUME NEW n \in VN, Register(n) \/ Leave(n) PROVE BucketStep
  BY <1>1 DEF Register, Leave, bucket, BucketStep
<1>2. ASSUME NEW g \in Gateways, NEW n \in VN, Create(g, n) \/ Release(g, n) \/ Retract(g, n)
      PROVE  BucketStep
  BY <1>2 DEF Create, Release, Retract, bucket, BucketStep
<1>3. ASSUME NEW g \in Gateways, RetractPut(g) PROVE BucketStep
  <2>1. retracts[g] \in VN BY <1>3 DEF TypeOK, RetractPut, VN
  <2>2. retracts'[g] = 0 BY <1>3 DEF TypeOK, RetractPut
  <2>3. PutOf(retracts[g]) BY <2>2 DEF PutOf
  <2>4. Put(retracts[g]) \/ UNCHANGED <<kv, rev, queue>> BY <1>3 DEF RetractPut, bucket
  <2> QED BY <2>1, <2>3, <2>4 DEF BucketStep
<1>4. ASSUME NEW g \in Gateways, Watch(g) PROVE BucketStep BY <1>4 DEF Watch, BucketStep
<1>5. ASSUME NEW g \in Gateways, Skip(g) PROVE BucketStep
  <2>1. queue[g] \in Seq(0..MaxVN) BY DEF TypeOK
  <2>2. queue[g] # <<>> BY <1>5, <2>1 DEF Skip
  <2> QED BY <1>5, <2>2 DEF Skip, BucketStep
<1>6. ASSUME NEW g \in Gateways, Rewatch(g) \/ Restart(g) PROVE BucketStep
  BY <1>6 DEF Rewatch, Restart, BucketStep
<1>7. ASSUME NEW w \in writers, WriterGet(w) PROVE BucketStep
  BY <1>7 DEF WriterGet, bucket, BucketStep
<1>8. ASSUME NEW w \in writers, WriterCas(w) PROVE BucketStep
  <2>1. w.vn \in VN BY DEF TypeOK, Writer
  <2>2. rev = w.rev => PutOf(w.vn) BY <1>8 DEF PutOf, WriterCas
  <2>3. (rev = w.rev /\ Put(w.vn)) \/ UNCHANGED <<kv, rev, queue>> BY <1>8 DEF WriterCas, bucket
  <2> QED BY <2>1, <2>2, <2>3 DEF BucketStep
<1>9. CASE UNCHANGED vars BY <1>9 DEF vars, BucketStep
<1> QED BY <1>1, <1>2, <1>3, <1>4, <1>5, <1>6, <1>7, <1>8, <1>9 DEF Next

\* The last value in a queue stays the bucket's.
LEMMA QueueStep == TypeOK /\ QueueEndsWithBucket /\ BucketStep => QueueEndsWithBucket'
<1> SUFFICES ASSUME TypeOK, QueueEndsWithBucket, BucketStep, NEW h \in Gateways
             PROVE  EndsWith(queue'[h], kv') /\ (kv' = 0 => NoValue(queue'[h]))
  BY DEF QueueEndsWithBucket
<1>0. /\ queue[h] \in Seq(0..MaxVN) /\ EndsWith(queue[h], kv)
      /\ kv = 0 => NoValue(queue[h])
  BY DEF TypeOK, QueueEndsWithBucket
<1>1. CASE UNCHANGED <<kv, rev, queue>> BY <1>0, <1>1
<1>2. ASSUME NEW v \in VN, Put(v)
      PROVE  EndsWith(queue'[h], kv') /\ (kv' = 0 => NoValue(queue'[h]))
  <2>1. queue'[h] = Append(queue[h], v) /\ kv' = v BY <1>2 DEF Put
  <2>2. v # 0 BY DEF VN
  <2> QED BY <1>0, <2>1, <2>2, AppendEnds
<1>3. ASSUME NEW g \in Gateways, queue[g] # <<>>, UNCHANGED <<kv, rev>>,
             queue' = [queue EXCEPT ![g] = Tail(@)]
      PROVE  EndsWith(queue'[h], kv') /\ (kv' = 0 => NoValue(queue'[h]))
  <2>1. queue'[h] = IF h = g THEN Tail(queue[h]) ELSE queue[h] BY <1>3 DEF TypeOK
  <2>2. h = g => EndsWith(Tail(queue[h]), kv) BY <1>0, <1>3, TailEnds
  <2>3. h = g /\ NoValue(queue[h]) => NoValue(Tail(queue[h])) BY <1>0, <1>3 DEF NoValue
  <2> QED BY <1>0, <1>3, <2>1, <2>2, <2>3
<1>4. ASSUME NEW g \in Gateways, UNCHANGED <<kv, rev>>, queue' = [queue EXCEPT ![g] = Replay]
      PROVE  EndsWith(queue'[h], kv') /\ (kv' = 0 => NoValue(queue'[h]))
  <2>1. queue'[h] = IF h = g THEN Replay ELSE queue[h] BY <1>4 DEF TypeOK
  <2>2. EndsWith(Replay, kv) /\ (kv = 0 => Replay = <<Ready>>) BY ReplayEnds DEF TypeOK
  <2>3. NoValue(<<Ready>>) BY DEF NoValue
  <2> QED BY <1>0, <1>4, <2>1, <2>2, <2>3
<1> QED BY <1>1, <1>2, <1>3, <1>4 DEF BucketStep

\* What a write-back has read stays true until somebody puts.
LEMMA CasStep == TypeOK /\ CasRaises /\ [Next]_vars => CasRaises'
<1> SUFFICES ASSUME TypeOK, CasRaises, [Next]_vars PROVE CasRaises' OBVIOUS
<1>0. BucketStep BY BucketSteps
<1>1. rev \in Nat /\ \A w \in writers : w \in Writer /\ w.rev \in Nat /\ w.rev <= rev
  BY DEF TypeOK, CasRaises, Writer
<1>2. \A w \in writers' : \/ w \in writers
                          \/ w.rev = 0 /\ w.phase = "get"
                          \/ w.rev = rev /\ w.vn > kv /\ UNCHANGED <<kv, rev>>
  <2> SUFFICES ASSUME NEW u \in writers', u \notin writers
               PROVE  \/ u.rev = 0 /\ u.phase = "get"
                      \/ u.rev = rev /\ u.vn > kv /\ UNCHANGED <<kv, rev>>
    OBVIOUS
  <2>1. ASSUME NEW g \in Gateways, NEW n \in VN, Create(g, n) PROVE u.rev = 0 /\ u.phase = "get"
    BY <2>1 DEF Create
  <2>2. ASSUME NEW w \in writers, WriterGet(w)
        PROVE  \/ u.rev = 0 /\ u.phase = "get"
               \/ u.rev = rev /\ u.vn > kv /\ UNCHANGED <<kv, rev>>
    <3>1. w \in Writer /\ w.vn \in VN BY DEF TypeOK, Writer
    <3>2. UNCHANGED <<kv, rev>> BY <2>2 DEF WriterGet, bucket
    <3>3. u \in Retry(w) \/ (~(w.vn <= kv) /\ u = [w EXCEPT !.phase = "cas", !.rev = rev])
      BY <2>2 DEF WriterGet
    <3>4. CASE u \in Retry(w) BY <3>1, <3>4, RetryFacts
    <3>5. CASE ~(w.vn <= kv) /\ u = [w EXCEPT !.phase = "cas", !.rev = rev]
      <4>1. w.vn > kv BY <3>1, <3>5 DEF TypeOK, VN
      <4> QED BY <3>1, <3>2, <3>5, <4>1 DEF Writer
    <3> QED BY <3>3, <3>4, <3>5
  <2>3. ASSUME NEW w \in writers, WriterCas(w) PROVE u.rev = 0 /\ u.phase = "get"
    <3>1. w \in Writer BY DEF TypeOK
    <3>2. u \in Retry(w) BY <2>3 DEF WriterCas
    <3> QED BY <3>1, <3>2, RetryFacts
  <2>4. writers' # writers => \/ \E g \in Gateways, n \in VN : Create(g, n)
                              \/ \E g \in Gateways : Restart(g)
                              \/ \E w \in writers : WriterGet(w) \/ WriterCas(w)
    BY DEF Next, vars, Register, Leave, Release, Retract, RetractPut, Watch, Skip, Rewatch
  <2>5. \A g \in Gateways : ~Restart(g) BY DEF Restart
  <2> QED BY <2>1, <2>2, <2>3, <2>4, <2>5
<1>3. CASE UNCHANGED <<kv, rev>>
  <2> SUFFICES ASSUME NEW w \in writers'
               PROVE  w.rev <= rev /\ (w.phase = "cas" /\ w.rev = rev => w.vn > kv)
    BY <1>3 DEF CasRaises
  <2> QED BY <1>1, <1>2 DEF CasRaises
<1>4. ASSUME NEW v \in VN, Put(v) PROVE CasRaises'
  <2>1. rev' = rev + 1 BY <1>4 DEF Put
  <2>2. \A w \in writers' : w.rev \in Nat /\ w.rev <= rev BY <1>1, <1>2
  <2>3. \A w \in writers' : w.rev <= rev' /\ w.rev # rev' BY <1>1, <2>1, <2>2
  <2> QED BY <2>3 DEF CasRaises
<1> QED BY <1>0, <1>3, <1>4 DEF BucketStep

-----------------------------------------------------------------------------
(* The gateways follow the bucket.                                         *)

\* A queue that a put has reached holds a value.
LEMMA PutReaches ==
    ASSUME TypeOK, NEW v \in VN, Put(v), NEW h \in Gateways
    PROVE  ~NoValue(queue'[h])
<1>1. queue[h] \in Seq(0..MaxVN) BY DEF TypeOK
<1>2. queue'[h] = Append(queue[h], v) BY DEF Put
<1> QED BY <1>1, <1>2, AppendEnds

\* No step that fails a call is counted away.
LEMMA FailCounted == TypeOK /\ [Next]_vars /\ count'.fail = 0 => count.fail = 0
<1> SUFFICES ASSUME TypeOK, [Next]_vars, count'.fail = 0 PROVE count.fail = 0 OBVIOUS
<1>1. CASE Fail BY <1>1, FailType
<1>2. CASE Restarted BY <1>2 DEF Restarted, TypeOK
<1>3. ASSUME NEW n \in VN, Register(n) PROVE count'.fail = count.fail BY <1>3 DEF Register, TypeOK
<1>4. ASSUME NEW g \in Gateways, NEW n \in VN, Retract(g, n) PROVE count'.fail = count.fail
  BY <1>4 DEF Retract, TypeOK
<1>5. \/ Fail \/ Restarted \/ UNCHANGED count
      \/ \E n \in VN : Register(n)
      \/ \E g \in Gateways, n \in VN : Retract(g, n)
  BY DEF Next, vars, Leave, Create, Release, RetractPut, Watch, Skip, Rewatch, Restart,
         WriterGet, WriterCas
<1> QED BY <1>1, <1>2, <1>3, <1>4, <1>5

LEMMA CaughtStep == IInv /\ [Next]_vars /\ count'.fail = 0 => CaughtUp'
<1> SUFFICES ASSUME IInv, [Next]_vars, count'.fail = 0, NEW h \in Gateways,
                    NoValue(queue'[h])
             PROVE  stable'[h] = kv' \/ Pending(h)'
  BY DEF CaughtUp
<1>0. TypeOK /\ CasRaises /\ QueueEndsWithBucket BY DEF IInv
<1>1. count.fail = 0 BY <1>0, FailCounted
<1>2. NoValue(queue[h]) => stable[h] = kv \/ Pending(h) BY <1>1 DEF IInv, CaughtUp
<1>3. ~Fail BY <1>0, FailType
<1>4. queue[h] \in Seq(0..MaxVN) /\ EndsWith(queue[h], kv) BY <1>0 DEF TypeOK, QueueEndsWithBucket
<1>5. ASSUME UNCHANGED <<kv, rev>>, retracts'[h] = retracts[h], writers \subseteq writers', Pending(h)
      PROVE  Pending(h)'
  BY <1>5 DEF Pending, WillPut
<1>6. ASSUME NEW n \in VN, Register(n) \/ Leave(n) PROVE stable'[h] = kv' \/ Pending(h)'
  BY <1>2, <1>5, <1>6 DEF Register, Leave, bucket
<1>7. ASSUME NEW g \in Gateways, NEW n \in VN, Create(g, n) PROVE stable'[h] = kv' \/ Pending(h)'
  <2>1. UNCHANGED <<kv, rev, queue, retracts>> /\ writers \subseteq writers'
    BY <1>7 DEF Create, bucket
  <2>2. CASE Pending(h) BY <1>5, <2>1, <2>2
  <2>3. CASE stable[h] = kv /\ g = h /\ n > stable[g]
    <3> DEFINE u == [gw |-> g, vn |-> n, phase |-> "get", rev |-> 0, left |-> MaxAttempts]
    <3>1. u \in writers' BY <1>7, <2>3 DEF Create
    <3>2. u.gw = h /\ u.vn > kv' /\ u.phase # "cas" BY <2>1, <2>3
    <3> QED BY <3>1, <3>2 DEF Pending, WillPut
  <2>4. CASE stable[h] = kv /\ ~(g = h /\ n > stable[g])
    <3>1. stable'[h] = stable[h] BY <1>0, <1>7, <2>4 DEF Create, TypeOK
    <3> QED BY <2>1, <2>4, <3>1
  <2> QED BY <1>2, <2>1, <2>2, <2>3, <2>4
<1>8. ASSUME NEW g \in Gateways, NEW n \in VN, Release(g, n) PROVE stable'[h] = kv' \/ Pending(h)'
  BY <1>2, <1>5, <1>8 DEF Release, bucket
<1>9. ASSUME NEW g \in Gateways, NEW n \in VN, Retract(g, n) PROVE stable'[h] = kv' \/ Pending(h)'
  <2>1. UNCHANGED <<kv, rev, queue, writers>> BY <1>9 DEF Retract, bucket
  <2>2. CASE g = h
    <3>1. retracts'[h] = n /\ n # 0 BY <1>0, <1>9, <2>2 DEF Retract, TypeOK, VN
    <3> QED BY <3>1 DEF Pending
  <2>3. CASE g # h
    <3>1. retracts'[h] = retracts[h] /\ stable'[h] = stable[h] BY <1>0, <1>9, <2>3 DEF Retract, TypeOK
    <3> QED BY <1>2, <1>5, <2>1, <3>1
  <2> QED BY <2>2, <2>3
<1>10. ASSUME NEW g \in Gateways, RetractPut(g) PROVE stable'[h] = kv' \/ Pending(h)'
  <2>1. retracts[g] \in VN BY <1>0, <1>10 DEF TypeOK, RetractPut, VN
  <2>2. Put(retracts[g]) BY <1>3, <1>10 DEF RetractPut
  <2> QED BY <1>0, <2>1, <2>2, PutReaches
<1>11. ASSUME NEW g \in Gateways, Watch(g) PROVE stable'[h] = kv' \/ Pending(h)'
  <2>1. UNCHANGED <<kv, rev, writers, retracts>> /\ queue[g] # <<>> BY <1>11 DEF Watch
  <2>2. CASE g # h
    <3>1. queue'[h] = queue[h] /\ stable'[h] = stable[h] BY <1>0, <1>11, <2>2 DEF Watch, TypeOK
    <3> QED BY <1>2, <1>5, <2>1, <3>1
  <2>3. CASE g = h
    <3>1. queue'[h] = Tail(queue[h]) BY <1>0, <1>11, <2>3 DEF Watch, TypeOK
    <3>2. NoValue(queue[h]) \/ (Head(queue[h]) # Ready /\ Head(queue[h]) = kv)
      BY <1>4, <2>1, <2>3, <3>1, TailEnds
    <3>3. CASE NoValue(queue[h])
      <4>1. Len(queue[h]) >= 1 /\ Head(queue[h]) = queue[h][1] BY <1>4, <2>1, <2>3
      <4>2. Head(queue[h]) = Ready BY <1>4, <3>3, <4>1 DEF NoValue
      <4>3. stable' = stable BY <1>11, <2>3, <4>2 DEF Watch
      <4> QED BY <1>2, <1>5, <2>1, <3>3, <4>3
    <3>4. CASE Head(queue[h]) # Ready /\ Head(queue[h]) = kv
      <4>1. stable'[h] = kv BY <1>0, <1>11, <2>3, <3>4 DEF Watch, TypeOK
      <4> QED BY <2>1, <4>1
    <3> QED BY <3>2, <3>3, <3>4
  <2> QED BY <2>2, <2>3
<1>12. ASSUME NEW g \in Gateways, Skip(g) PROVE stable'[h] = kv' \/ Pending(h)'
  <2>1. UNCHANGED <<kv, rev, writers, retracts, stable>> BY <1>12 DEF Skip
  <2>2. CASE g # h
    <3>1. queue'[h] = queue[h] BY <1>0, <1>12, <2>2 DEF Skip, TypeOK
    <3> QED BY <1>2, <1>5, <2>1, <3>1
  <2>3. CASE g = h
    <3>1. PICK i \in 2..Len(queue[h]) : queue[h][i] # Ready BY <1>12, <2>3 DEF Skip
    <3>2. queue'[h] = Tail(queue[h]) BY <1>0, <1>12, <2>3 DEF Skip, TypeOK
    <3>3. i - 1 \in 1..Len(Tail(queue[h])) /\ Tail(queue[h])[i - 1] = queue[h][i] BY <1>4, <3>1
    <3> QED BY <3>1, <3>2, <3>3 DEF NoValue
  <2> QED BY <2>2, <2>3
<1>13. ASSUME NEW g \in Gateways, Rewatch(g) PROVE stable'[h] = kv' \/ Pending(h)'
  <2>1. UNCHANGED <<kv, rev, writers, retracts, stable>> BY <1>13 DEF Rewatch
  <2>2. CASE g # h
    <3>1. queue'[h] = queue[h] BY <1>0, <1>13, <2>2 DEF Rewatch, TypeOK
    <3> QED BY <1>2, <1>5, <2>1, <3>1
  <2>3. CASE g = h
    <3>1. queue'[h] = Replay BY <1>0, <1>13, <2>3 DEF Rewatch, TypeOK
    <3>2. kv = 0 BY <1>0, <3>1, ReplayEnds DEF TypeOK
    <3>3. NoValue(queue[h]) BY <1>0, <3>2 DEF QueueEndsWithBucket
    <3> QED BY <1>2, <1>5, <2>1, <3>3
  <2> QED BY <2>2, <2>3
<1>14. ASSUME NEW g \in Gateways, Restart(g) PROVE stable'[h] = kv' \/ Pending(h)'
  <2>1. UNCHANGED <<kv, rev>> /\ \A w \in writers : w.gw # g => w \in writers' BY <1>14 DEF Restart
  <2>2. CASE g # h
    <3>1. queue'[h] = queue[h] /\ retracts'[h] = retracts[h] /\ stable'[h] = stable[h]
      BY <1>0, <1>14, <2>2 DEF Restart, TypeOK
    <3>2. Pending(h) => Pending(h)' BY <2>1, <2>2, <3>1 DEF Pending, WillPut
    <3> QED BY <1>2, <2>1, <3>1, <3>2
  <2>3. CASE g = h
    <3>1. queue'[h] = Replay /\ stable'[h] = 0 BY <1>0, <1>14, <2>3 DEF Restart, TypeOK
    <3>2. kv = 0 BY <1>0, <3>1, ReplayEnds DEF TypeOK
    <3> QED BY <2>1, <3>1, <3>2
  <2> QED BY <2>2, <2>3
<1>15. ASSUME NEW w \in writers, WriterGet(w) PROVE stable'[h] = kv' \/ Pending(h)'
  <2>0. w \in Writer /\ w.vn \in Nat /\ kv \in Nat BY <1>0 DEF TypeOK, Writer, VN
  <2>1. UNCHANGED <<kv, rev, queue, retracts, stable>> BY <1>15 DEF WriterGet, bucket
  <2>2. writers' = (writers \ {w}) \cup
           IF w.vn <= kv THEN {} ELSE {[w EXCEPT !.phase = "cas", !.rev = rev]}
    BY <1>3, <1>15 DEF WriterGet
  <2>3. Pending(h) => Pending(h)'
    <3>1. CASE retracts[h] # 0 BY <2>1, <3>1 DEF Pending
    <3>2. ASSUME NEW u \in writers, u.gw = h, WillPut(u) PROVE Pending(h)'
      <4>1. CASE u # w BY <2>1, <2>2, <3>2, <4>1 DEF Pending, WillPut
      <4>2. CASE u = w
        <5> DEFINE x == [w EXCEPT !.phase = "cas", !.rev = rev]
        <5>1. ~(w.vn <= kv) BY <2>0, <3>2, <4>2 DEF WillPut
        <5>2. x \in writers' BY <2>2, <5>1
        <5>3. x.gw = h /\ x.vn > kv' /\ x.rev = rev' BY <2>0, <2>1, <3>2, <4>2 DEF WillPut, Writer
        <5> QED BY <5>2, <5>3 DEF Pending, WillPut
      <4> QED BY <4>1, <4>2
    <3> QED BY <3>1, <3>2 DEF Pending
  <2> QED BY <1>2, <2>1, <2>3
<1>16. ASSUME NEW w \in writers, WriterCas(w) PROVE stable'[h] = kv' \/ Pending(h)'
  <2>0. w.vn \in VN BY <1>0 DEF TypeOK, Writer
  <2>1. CASE Put(w.vn) BY <1>0, <2>0, <2>1, PutReaches
  <2>2. CASE ~Put(w.vn)
    <3>1. /\ w.phase = "cas" /\ rev # w.rev
          /\ UNCHANGED <<kv, rev, queue, retracts, stable>> /\ writers \ {w} \subseteq writers'
      BY <1>3, <1>16, <2>2 DEF WriterCas, bucket
    <3>2. ~WillPut(w) BY <3>1 DEF WillPut
    <3>3. Pending(h) => Pending(h)' BY <3>1, <3>2 DEF Pending, WillPut
    <3> QED BY <1>2, <3>1, <3>3
  <2> QED BY <2>1, <2>2
<1>17. CASE UNCHANGED vars BY <1>2, <1>5, <1>17 DEF vars
<1> QED
  BY <1>6, <1>7, <1>8, <1>9, <1>10, <1>11, <1>12, <1>13, <1>14, <1>15, <1>16, <1>17 DEF Next

LEMMA Inductive == Spec => []IInv
<1>1. Init => IInv
  <2> SUFFICES ASSUME Init PROVE IInv OBVIOUS
  <2>1. TypeOK BY InitType
  <2>2. CasRaises BY DEF Init, CasRaises
  <2>3. \A g \in Gateways : queue[g] = <<Ready>> /\ stable[g] = kv /\ kv = 0 BY DEF Init
  <2>4. Len(<<Ready>>) = 1 /\ <<Ready>>[1] = Ready OBVIOUS
  <2>5. QueueEndsWithBucket BY <2>3, <2>4 DEF QueueEndsWithBucket, EndsWith, NoValue
  <2>6. CaughtUp BY <2>3 DEF CaughtUp
  <2> QED BY <2>1, <2>2, <2>5, <2>6 DEF IInv
<1>2. IInv /\ [Next]_vars => IInv'
  <2> SUFFICES ASSUME IInv, [Next]_vars PROVE IInv' OBVIOUS
  <2>0. TypeOK /\ CasRaises /\ QueueEndsWithBucket BY DEF IInv
  <2>1. TypeOK' BY <2>0, TypeStep
  <2>2. CasRaises' BY <2>0, CasStep
  <2>3. QueueEndsWithBucket' BY <2>0, BucketSteps, QueueStep
  <2>4. (count.fail = 0)' => CaughtUp' BY CaughtStep
  <2> QED BY <2>1, <2>2, <2>3, <2>4 DEF IInv
<1>3. QED BY <1>1, <1>2, PTL DEF Spec

(***************************************************************************)
(* Every gateway ends with the value of the bucket, for any number of      *)
(* gateways, colliding write-backs, retracts and restarts: when goroutines *)
(* are done and watches handled, and no KV call failed, its alias is what  *)
(* the bucket holds (stable.go stableWatchLoop, writeStableMonotonic).     *)
(***************************************************************************)
THEOREM GatewaysFollowBucketHolds == Spec => []GatewaysFollowBucket
<1>1. IInv => GatewaysFollowBucket
  <2> SUFFICES ASSUME IInv, Quiet, count.fail = 0, NEW g \in Gateways PROVE stable[g] = kv
    BY DEF GatewaysFollowBucket
  <2>1. NoValue(queue[g]) BY DEF Quiet, NoValue
  <2>2. ~Pending(g) BY DEF Quiet, Pending
  <2> QED BY <2>1, <2>2 DEF IInv, CaughtUp
<1>2. QED BY <1>1, Inductive, PTL

(***************************************************************************)
(* The bucket's alias is monotonic but for retracts: no write-back, not    *)
(* even one that is retried, delayed or reported failed, lowers it         *)
(* (stable.go writeStableMonotonic against putStableForce).                *)
(***************************************************************************)
THEOREM BucketLoweredByRetractHolds == Spec => BucketLoweredByRetract
<1> DEFINE Lowered == kv' < kv => \E g \in Gateways : retracts[g] = kv' /\ retracts'[g] = 0
<1>1. IInv /\ [Next]_vars => [Lowered]_vars
  <2> SUFFICES ASSUME IInv, [Next]_vars, kv' < kv
               PROVE  \E g \in Gateways : retracts[g] = kv' /\ retracts'[g] = 0
    OBVIOUS
  <2>1. TypeOK /\ CasRaises BY DEF IInv
  <2>2. kv \in Nat BY <2>1 DEF TypeOK
  <2>3. kv' # kv BY <2>2
  <2>4. PICK v \in VN : Put(v) /\ PutOf(v) BY <2>1, <2>3, BucketSteps DEF BucketStep
  <2>5. kv' = v BY <2>4 DEF Put
  <2>6. ASSUME NEW w \in writers, w.phase = "cas", w.rev = rev, w.vn = v PROVE FALSE
    <3>1. v > kv BY <2>1, <2>6 DEF CasRaises
    <3>2. v \in Nat BY DEF VN
    <3> QED BY <2>2, <2>5, <3>1, <3>2
  <2> QED BY <2>4, <2>5, <2>6 DEF PutOf
<1>2. QED BY <1>1, Inductive, PTL DEF Spec, BucketLoweredByRetract
=============================================================================
