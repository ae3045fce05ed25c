--------------------------- MODULE DispatchProofs ---------------------------
(***************************************************************************)
(* Proofs about Dispatch for any number of calls, replicas, slots and      *)
(* attempts, and about GatRequests, the requests of the embedded gateway,  *)
(* for any schemas, documents, operations and limits, and for whatever the *)
(* algorithms on documents and data compute that GatDocuments defines.     *)
(***************************************************************************)
EXTENDS Dispatch, GatRequests, FiniteSetTheorems, SequenceTheorems, WellFoundedInduction, TLAPS

-----------------------------------------------------------------------------
(* pickHealthy.                                                            *)

LEMMA LeastNat == ASSUME NEW T \in SUBSET Nat, T # {} PROVE \E m \in T : \A n \in T : m <= n
<1>1. PICK m \in T : \A n \in T : ~(<<n, m>> \in OpToRel(<, Nat))
  BY NatLessThanWellFounded, WFMin
<1>2. ASSUME NEW n \in T PROVE m <= n
  <2>1. <<n, m>> \in Nat \X Nat /\ <<n, m>>[1] = n /\ <<n, m>>[2] = m OBVIOUS
  <2>2. ~(n < m) BY <1>1, <2>1 DEF OpToRel
  <2> QED BY <2>1, <2>2
<1> QED BY <1>2

\* Better, as an order on positions: not ejected first, then the least loaded,
\* then the first: a set of positions that is not empty has a best one.
LEMMA BestExists ==
    ASSUME NEW F \in SUBSET Nat, F # {}, NEW at \in [F -> Replicas],
           inflight \in [Replicas -> Nat]
    PROVE  \E i \in F : \A j \in F : ~Better(at[j], at[i]) /\ (j < i => Better(at[i], at[j]))
<1> DEFINE G == IF \E i \in F : ~Ejected(at[i]) THEN {i \in F : ~Ejected(at[i])} ELSE F
           L == {inflight[at[i]] : i \in G}
<1>1. /\ G \in SUBSET F /\ G # {}
      /\ \A i \in G, j \in F : j \notin G => ~Ejected(at[i]) /\ Ejected(at[j])
      /\ \A i, j \in G : Ejected(at[i]) <=> Ejected(at[j])
  OBVIOUS
<1> HIDE DEF G
<1>2. L \in SUBSET Nat /\ L # {}
  <2>1. \A i \in G : inflight[at[i]] \in Nat BY <1>1
  <2>2. PICK i \in G : TRUE BY <1>1
  <2>3. inflight[at[i]] \in L OBVIOUS
  <2> QED BY <2>1, <2>3
<1>3. PICK m \in L : \A n \in L : m <= n BY <1>2, LeastNat
<1> DEFINE H == {i \in G : inflight[at[i]] = m}
<1>4. H \in SUBSET Nat /\ H # {} BY <1>1, <1>3
<1>5. PICK i \in H : \A j \in H : i <= j BY <1>4, LeastNat
<1>6. i \in G /\ i \in F /\ inflight[at[i]] = m /\ i \in Nat BY <1>1, <1>5
<1>7. ASSUME NEW j \in F PROVE ~Better(at[j], at[i]) /\ (j < i => Better(at[i], at[j]))
  <2>1. CASE j \notin G BY <1>1, <1>6, <2>1 DEF Better
  <2>2. CASE j \in G
    <3>1. inflight[at[j]] \in L /\ inflight[at[j]] \in Nat /\ m \in Nat BY <1>1, <1>2, <2>2
    <3>2. m <= inflight[at[j]] BY <1>3, <3>1
    <3>3. Ejected(at[i]) = Ejected(at[j]) BY <1>1, <1>6, <2>2 DEF Ejected
    <3>4. ~Better(at[j], at[i]) BY <1>6, <3>1, <3>2, <3>3 DEF Better
    <3>5. j < i => inflight[at[j]] # m
      <4>1. j \in Nat OBVIOUS
      <4>2. inflight[at[j]] = m => j \in H BY <2>2
      <4>3. inflight[at[j]] = m => i <= j BY <4>2, <1>5
      <4> QED BY <4>1, <4>3, <1>6
    <3>6. j < i => Better(at[i], at[j]) BY <1>6, <3>1, <3>2, <3>3, <3>5 DEF Better
    <3> QED BY <3>4, <3>6
  <2> QED BY <2>1, <2>2
<1> QED BY <1>6, <1>7

\* The pick is a replica of the pool that was not tried, if there is one.
LEMMA PickFresh ==
    ASSUME NEW rs \in Seq(Replicas), rs # <<>>, NEW hint \in Nat, NEW tried \in Seq(Replicas),
           inflight \in [Replicas -> Nat]
    PROVE  LET r == PickHealthy(rs, hint, tried)
           IN  /\ r # NoReplica => r \in Replicas /\ \A k \in 1..Len(tried) : tried[k] # r
               /\ tried = <<>> => r # NoReplica
<1> DEFINE at(i) == rs[((hint + i) % Len(rs)) + 1]
           fresh == {i \in 0 .. Len(rs) - 1 : \A k \in 1..Len(tried) : tried[k] # at(i)}
           P(i) == \A j \in fresh : ~Better(at(j), at(i)) /\ (j < i => Better(at(i), at(j)))
           r == PickHealthy(rs, hint, tried)
<1>1. Len(rs) \in Nat \ {0} OBVIOUS
<1>2. \A i \in 0 .. Len(rs) - 1 : at(i) \in Replicas
  <2> SUFFICES ASSUME NEW i \in 0 .. Len(rs) - 1 PROVE at(i) \in Replicas OBVIOUS
  <2>1. ((hint + i) % Len(rs)) \in 0 .. Len(rs) - 1 BY <1>1
  <2>2. ((hint + i) % Len(rs)) + 1 \in 1 .. Len(rs) BY <1>1, <2>1
  <2> QED BY <2>2
<1>3. CASE fresh = {}
  <2>1. r = NoReplica BY <1>3 DEF PickHealthy
  <2>2. 0 \in 0 .. Len(rs) - 1 BY <1>1
  <2>3. ASSUME tried = <<>> PROVE FALSE
    <3>1. Len(tried) = 0 /\ 1..0 = {} BY <2>3
    <3>2. 0 \in fresh BY <2>2, <3>1
    <3> QED BY <1>3, <3>2
  <2> QED BY <2>1, <2>3
<1>4. CASE fresh # {}
  <2>1. r = at(CHOOSE i \in fresh : P(i)) BY <1>4, Zenon DEF PickHealthy
  <2>2. \E i \in fresh : P(i)
    <3> DEFINE f == [i \in fresh |-> at(i)]
    <3>1. fresh \in SUBSET Nat /\ f \in [fresh -> Replicas] /\ \A i \in fresh : f[i] = at(i)
      BY <1>1, <1>2
    <3> HIDE DEF f, at, fresh
    <3>2. \E i \in fresh : \A j \in fresh : ~Better(f[j], f[i]) /\ (j < i => Better(f[i], f[j]))
      BY <1>4, <3>1, BestExists
    <3> QED BY <3>1, <3>2
  <2>3. (CHOOSE i \in fresh : P(i)) \in fresh
    <3> HIDE DEF fresh, P
    <3> QED BY <2>2, Zenon
  <2>4. PICK i \in fresh : r = at(i) BY <2>1, <2>3
  <2>5. r \in Replicas /\ \A k \in 1..Len(tried) : tried[k] # r BY <1>2, <2>4
  <2> QED BY <2>5, DispatchAssumption
<1> QED BY <1>3, <1>4

-----------------------------------------------------------------------------
(* The inductive invariant.                                                *)

Outside == {"new", "queued", "done"}   \* no service slot
Before == Outside \cup {"pick"}        \* no attempt yet, or no more

(***************************************************************************)
(* What a call record x always satisfies.  A request is delivered by the   *)
(* current attempt only, and then it is sent; an attempt that may be       *)
(* retried was not sent and is not the last; what `probed` and `retry` say *)
(* is stale once the next attempt has begun.                               *)
(***************************************************************************)
LastTried(x) == x.tried[Len(x.tried)]
CallOK(x) ==
    /\ x \in Call
    /\ Len(x.tried) <= MaxAttempts
    /\ \A i, j \in 1..Len(x.tried) : i # j => x.tried[i] # x.tried[j]
    /\ x.pc \in Before => x.tried = <<>> /\ x.delivered = {}
    /\ x.pc \notin Before => Len(x.tried) >= 1
    /\ x.pc \in {"slot", "waiting"} => x.delivered = {}
    /\ x.delivered # {} => x.sent /\ x.delivered = {LastTried(x)}
    /\ x.pc = "invoke" /\ x.probed => Len(x.tried) < MaxAttempts
    /\ x.pc \in {"count", "eject", "decide"} /\ x.retry => ~x.sent /\ Len(x.tried) < MaxAttempts

CallsOK == \A c \in Calls : CallOK(call[c])

InSlot(x) == x.pc \notin Outside
RunsOn(x, r) == x.pc = "invoke" /\ LastTried(x) = r
Active == {c \in Calls : InSlot(call[c])}
Running(r) == {c \in Calls : RunsOn(call[c], r)}

IInv == TypeOK /\ CallsOK /\ SlotsExact

\* The step is one of call c: what it does to the other calls, and to the sets
\* the counters count.
Moves(c) == call' = [d \in Calls |-> IF d = c THEN call'[c] ELSE call[d]]

LEMMA ExactForm ==
    SlotsExact <=> /\ serviceSem = Cardinality(Active)
                   /\ \A r \in Replicas : sem[r] = Cardinality(Running(r))
                                          /\ inflight[r] = Cardinality(Running(r))
<1>1. Active = {c \in Calls : call[c].pc \notin {"new", "queued", "done"}}
  BY DEF Active, InSlot, Outside
<1>2. \A r : Running(r) = {c \in Calls : call[c].pc = "invoke" /\ Replica(c) = r}
  BY DEF Running, RunsOn, Replica, LastTried
<1> QED BY <1>1, <1>2 DEF SlotsExact

LEMMA ExactFormNext ==
    SlotsExact' <=> /\ serviceSem' = Cardinality(Active')
                    /\ \A r \in Replicas : sem'[r] = Cardinality(Running(r)')
                                           /\ inflight'[r] = Cardinality(Running(r)')
<1>1. Active' = {c \in Calls : call'[c].pc \notin {"new", "queued", "done"}}
  BY DEF Active, InSlot, Outside
<1>2. \A r : Running(r)' = {c \in Calls : call'[c].pc = "invoke" /\ Replica(c)' = r}
  BY DEF Running, RunsOn, Replica, LastTried
<1> QED BY <1>1, <1>2 DEF SlotsExact

\* One element more, one less: a set of calls is finite.
LEMMA CountOne ==
    ASSUME NEW S \in SUBSET Calls, NEW c \in Calls
    PROVE  /\ Cardinality(S) \in Nat
           /\ c \notin S => Cardinality(S \cup {c}) = Cardinality(S) + 1
           /\ c \in S => Cardinality(S) >= 1 /\ Cardinality(S \ {c}) = Cardinality(S) - 1
           /\ Cardinality(S \cup {c}) \in Nat /\ Cardinality(S \ {c}) \in Nat
<1>1. IsFiniteSet(S) BY DispatchAssumption, FS_Subset
<1>2. IsFiniteSet(S \ {c}) /\ IsFiniteSet(S \cup {c}) BY <1>1, FS_Subset, FS_AddElement, FS_RemoveElement
<1>3. Cardinality(S) \in Nat /\ Cardinality(S \ {c}) \in Nat /\ Cardinality(S \cup {c}) \in Nat
  BY <1>1, <1>2, FS_CardinalityType
<1>4. c \notin S => Cardinality(S \cup {c}) = Cardinality(S) + 1 BY <1>1, FS_AddElement
<1>5. c \in S => Cardinality(S \ {c}) = Cardinality(S) - 1 BY <1>1, FS_RemoveElement
<1> QED BY <1>3, <1>4, <1>5

LEMMA Accounting ==
    ASSUME NEW c \in Calls, Moves(c)
    PROVE  /\ Cardinality(Active) \in Nat
           /\ (InSlot(call[c]) <=> InSlot(call'[c])) => Active' = Active
           /\ ~InSlot(call[c]) /\ InSlot(call'[c]) => Cardinality(Active') = Cardinality(Active) + 1
           /\ InSlot(call[c]) /\ ~InSlot(call'[c]) =>
                 Cardinality(Active) >= 1 /\ Cardinality(Active') = Cardinality(Active) - 1
<1>1. \A d \in Calls : call'[d] = IF d = c THEN call'[c] ELSE call[d] BY DEF Moves
<1>2. Active' = {d \in Calls : InSlot(call'[d])} BY DEF Active, InSlot
<1>3. Active \in SUBSET Calls /\ (c \in Active <=> InSlot(call[c])) BY DEF Active
<1>4. (InSlot(call[c]) <=> InSlot(call'[c])) => Active' = Active BY <1>1, <1>2 DEF Active
<1>5. InSlot(call'[c]) => Active' = Active \cup {c} BY <1>1, <1>2 DEF Active
<1>6. ~InSlot(call'[c]) => Active' = Active \ {c} BY <1>1, <1>2 DEF Active
<1> QED BY <1>3, <1>4, <1>5, <1>6, CountOne

LEMMA AccountingOn ==
    ASSUME NEW c \in Calls, Moves(c), NEW r
    PROVE  /\ Cardinality(Running(r)) \in Nat
           /\ (RunsOn(call[c], r) <=> RunsOn(call'[c], r)) => Running(r)' = Running(r)
           /\ ~RunsOn(call[c], r) /\ RunsOn(call'[c], r) =>
                 Cardinality(Running(r)') = Cardinality(Running(r)) + 1
           /\ RunsOn(call[c], r) /\ ~RunsOn(call'[c], r) =>
                 /\ Cardinality(Running(r)) >= 1
                 /\ Cardinality(Running(r)') = Cardinality(Running(r)) - 1
<1>1. \A d \in Calls : call'[d] = IF d = c THEN call'[c] ELSE call[d] BY DEF Moves
<1>2. Running(r)' = {d \in Calls : RunsOn(call'[d], r)} BY DEF Running, RunsOn, LastTried
<1>3. Running(r) \in SUBSET Calls /\ (c \in Running(r) <=> RunsOn(call[c], r)) BY DEF Running
<1>4. (RunsOn(call[c], r) <=> RunsOn(call'[c], r)) => Running(r)' = Running(r) BY <1>1, <1>2 DEF Running
<1>5. RunsOn(call'[c], r) => Running(r)' = Running(r) \cup {c} BY <1>1, <1>2 DEF Running
<1>6. ~RunsOn(call'[c], r) => Running(r)' = Running(r) \ {c} BY <1>1, <1>2 DEF Running
<1> QED BY <1>3, <1>4, <1>5, <1>6, CountOne

-----------------------------------------------------------------------------
(* The shapes of a call's step.                                            *)

\* The counters follow the sets they count.
LEMMA CountedOnce ==
    ASSUME IInv, NEW c \in Calls, Moves(c), CallOK(call'[c]),
           serviceSem' = IF InSlot(call[c])
                         THEN IF InSlot(call'[c]) THEN serviceSem ELSE serviceSem - 1
                         ELSE IF InSlot(call'[c]) THEN serviceSem + 1 ELSE serviceSem,
           \A r \in Replicas :
              /\ sem'[r] = IF RunsOn(call[c], r)
                           THEN IF RunsOn(call'[c], r) THEN sem[r] ELSE sem[r] - 1
                           ELSE IF RunsOn(call'[c], r) THEN sem[r] + 1 ELSE sem[r]
              /\ inflight'[r] = IF RunsOn(call[c], r)
                                THEN IF RunsOn(call'[c], r) THEN inflight[r] ELSE inflight[r] - 1
                                ELSE IF RunsOn(call'[c], r) THEN inflight[r] + 1 ELSE inflight[r]
    PROVE  /\ CallsOK' /\ SlotsExact' /\ call' \in [Calls -> Call]
           /\ serviceSem' \in Nat /\ serviceSem' <= serviceSem + 1
           /\ \A r \in Replicas : sem'[r] \in Nat /\ inflight'[r] \in Nat
<1>1. CallsOK' /\ call' \in [Calls -> Call]
  <2>1. \A d \in Calls : call'[d] = IF d = c THEN call'[c] ELSE call[d] BY DEF Moves
  <2>2. \A d \in Calls : CallOK(call'[d]) BY <2>1 DEF IInv, CallsOK
  <2>3. \A d \in Calls : call'[d] \in Call BY <2>2 DEF CallOK
  <2>4. call' = [d \in Calls |-> call'[d]] BY DEF Moves
  <2>5. CallsOK' BY <2>2 DEF CallsOK, CallOK, LastTried
  <2> QED BY <2>3, <2>4, <2>5
<1>2. /\ serviceSem = Cardinality(Active)
      /\ \A r \in Replicas : sem[r] = Cardinality(Running(r)) /\ inflight[r] = Cardinality(Running(r))
  BY ExactForm DEF IInv
<1>3. serviceSem' = Cardinality(Active') /\ serviceSem' \in Nat /\ serviceSem' <= serviceSem + 1
  BY <1>2, Accounting
<1>4. ASSUME NEW r \in Replicas
      PROVE  /\ sem'[r] = Cardinality(Running(r)') /\ inflight'[r] = Cardinality(Running(r)')
             /\ sem'[r] \in Nat /\ inflight'[r] \in Nat
  BY <1>2, AccountingOn
<1> QED BY <1>1, <1>3, <1>4, ExactFormNext

LEMMA UpdateMoves ==
    ASSUME call \in [Calls -> Call], NEW c \in Calls, NEW x, call' = [call EXCEPT ![c] = x]
    PROVE  Moves(c) /\ call'[c] = x
BY DEF Moves

\* A step of a call that takes and gives no slot.
LEMMA Unslotted ==
    ASSUME IInv, NEW c \in Calls, NEW x, CallOK(x), call' = [call EXCEPT ![c] = x],
           InSlot(x) <=> InSlot(call[c]), x.pc # "invoke" /\ call[c].pc # "invoke",
           UNCHANGED slotVars
    PROVE  CallsOK' /\ SlotsExact' /\ call' \in [Calls -> Call]
<1>1. Moves(c) /\ call'[c] = x BY UpdateMoves DEF IInv, TypeOK
<1>2. \A r : ~RunsOn(call[c], r) /\ ~RunsOn(call'[c], r) BY <1>1 DEF RunsOn
<1>3. UNCHANGED serviceSem /\ UNCHANGED sem /\ UNCHANGED inflight BY DEF slotVars
<1> QED BY <1>1, <1>2, <1>3, CountedOnce

\* The call returns, from a state in which it has the service slot only.
LEMMA EndsStep ==
    ASSUME IInv, NEW c \in Calls, Ends(c), call[c].pc \notin Outside \cup {"invoke"},
           UNCHANGED instanceVars
    PROVE  CallsOK' /\ SlotsExact' /\ call' \in [Calls -> Call] /\ serviceSem' \in 0..ServiceCap
<1> DEFINE x == [NewCall EXCEPT !.pc = "done"]
<1>0. NewCall \in Call
  <2>1. <<>> \in Seq(Replicas) /\ {} \in SUBSET Replicas OBVIOUS
  <2> QED BY <2>1 DEF NewCall, Call
<1>1. x \in Call /\ x.pc = "done" /\ x.tried = <<>> /\ x.delivered = {}
  BY <1>0 DEF NewCall, Call
<1>2. CallOK(x)
  <2>1. Len(<<>>) = 0 /\ 1..0 = {} /\ 0 <= MaxAttempts BY DispatchAssumption
  <2> QED BY <1>1, <2>1 DEF CallOK, Before, Outside
<1>3. ~InSlot(x) /\ InSlot(call[c]) BY <1>1 DEF InSlot, Outside
<1>4. x.pc # "invoke" BY <1>1
<1> HIDE DEF x
<1>5. Moves(c) /\ call'[c] = x BY UpdateMoves DEF IInv, TypeOK, Ends, x
<1>6. \A r : ~RunsOn(call[c], r) /\ ~RunsOn(call'[c], r) BY <1>4, <1>5 DEF RunsOn
<1>7. serviceSem' = serviceSem - 1 /\ UNCHANGED sem /\ UNCHANGED inflight BY DEF Ends, instanceVars
<1>8. CallsOK' /\ SlotsExact' /\ call' \in [Calls -> Call] /\ serviceSem' \in Nat
  BY <1>2, <1>3, <1>5, <1>6, <1>7, CountedOnce
<1>9. serviceSem' \in 0..ServiceCap BY <1>7, <1>8, DispatchAssumption DEF IInv, TypeOK
<1> QED BY <1>8, <1>9

\* An attempt on a replica that was not tried.
LEMMA OnStep ==
    ASSUME IInv, NEW c \in Calls, NEW r \in Replicas, On(c, r),
           \A k \in 1..Len(call[c].tried) : call[c].tried[k] # r,
           call[c].pc = "pick" \/ (call[c].pc = "decide" /\ call[c].retry),
           UNCHANGED instanceVars
    PROVE  CallsOK' /\ SlotsExact' /\ call' \in [Calls -> Call]
<1> DEFINE y == call[c]
           x == [y EXCEPT !.pc = "slot", !.tried = Append(y.tried, r)]
<1>1. y \in Call /\ CallOK(y) /\ y.tried \in Seq(Replicas) BY DEF IInv, CallsOK, CallOK, Call
<1>2. /\ x.pc = "slot" /\ x.tried = Append(y.tried, r) /\ x.delivered = y.delivered
      /\ x.sent = y.sent /\ x \in Call
  <2>1. Append(y.tried, r) \in Seq(Replicas) BY <1>1
  <2> HIDE DEF y
  <2> QED BY <1>1, <2>1 DEF Call
<1>3. y.delivered = {} /\ Len(y.tried) < MaxAttempts
  BY <1>1, DispatchAssumption DEF CallOK, Before, Outside
<1>4. /\ Len(x.tried) = Len(y.tried) + 1 /\ Len(y.tried) \in Nat
      /\ \A k \in 1..Len(y.tried) : x.tried[k] = y.tried[k]
      /\ x.tried[Len(y.tried) + 1] = r
  BY <1>1, <1>2
<1>5. \A i, j \in 1..Len(x.tried) : i # j => x.tried[i] # x.tried[j]
  <2> SUFFICES ASSUME NEW i \in 1..Len(x.tried), NEW j \in 1..Len(x.tried), i # j
               PROVE  x.tried[i] # x.tried[j]
    OBVIOUS
  <2>1. i \in 1..Len(y.tried) \/ i = Len(y.tried) + 1 BY <1>4
  <2>2. j \in 1..Len(y.tried) \/ j = Len(y.tried) + 1 BY <1>4
  <2>3. \A k, l \in 1..Len(y.tried) : k # l => y.tried[k] # y.tried[l] BY <1>1 DEF CallOK
  <2> QED BY <1>4, <2>1, <2>2, <2>3
<1>6. CallOK(x)
  <2>1. MaxAttempts \in Nat BY DispatchAssumption
  <2>2. Len(x.tried) <= MaxAttempts /\ Len(x.tried) >= 1 BY <1>3, <1>4, <2>1
  <2> QED BY <1>2, <1>3, <1>5, <2>2 DEF CallOK, Before, Outside
<1>7. InSlot(x) /\ InSlot(y) BY <1>2 DEF InSlot, Outside
<1>8. call' = [call EXCEPT ![c] = x] BY DEF On, IInv, TypeOK
<1>9. UNCHANGED slotVars BY DEF On, instanceVars, slotVars
<1>10. x.pc # "invoke" /\ y.pc # "invoke" BY <1>2
<1> HIDE DEF x, y
<1> QED BY <1>6, <1>7, <1>8, <1>9, <1>10, Unslotted DEF y

\* The call goes on to another state with what it has.
LEMMA GotoOK ==
    ASSUME NEW y, CallOK(y), NEW p \in {"queued", "done", "pick", "waiting", "clear", "uneject",
                                        "eject", "decide"},
           y.pc \in Before <=> p \in Before,
           p = "waiting" => y.pc = "slot",
           p \in {"eject", "decide"} => y.pc \in {"count", "eject"}
    PROVE  CallOK([y EXCEPT !.pc = p])
<1> DEFINE x == [y EXCEPT !.pc = p]
<1>1. /\ x \in Call /\ x.pc = p /\ x.tried = y.tried /\ x.delivered = y.delivered
      /\ x.sent = y.sent /\ x.probed = y.probed /\ x.retry = y.retry
  BY DEF CallOK, Call
<1> HIDE DEF x
<1>2. CallOK(x) BY <1>1 DEF CallOK, LastTried
<1> QED BY <1>2 DEF x

LEMMA GotoStep ==
    ASSUME IInv, NEW c \in Calls, NEW p \in {"queued", "done", "waiting", "clear", "uneject",
                                             "eject", "decide"},
           Goto(c, p), UNCHANGED slotVars,
           call[c].pc # "invoke", call[c].pc \in Before <=> p \in Before,
           InSlot(call[c]) <=> p \notin Outside,
           p = "waiting" => call[c].pc = "slot",
           p \in {"eject", "decide"} => call[c].pc \in {"count", "eject"}
    PROVE  CallsOK' /\ SlotsExact' /\ call' \in [Calls -> Call]
<1> DEFINE y == call[c]
           x == [y EXCEPT !.pc = p]
<1>1. CallOK(y) /\ y \in Call BY DEF IInv, CallsOK, CallOK
<1>2. CallOK(x) BY <1>1, GotoOK
<1>3. x.pc = p BY <1>1 DEF Call
<1>4. call' = [call EXCEPT ![c] = x] BY DEF Goto, IInv, TypeOK
<1>5. InSlot(x) <=> InSlot(y) BY <1>3 DEF InSlot
<1>6. x.pc # "invoke" BY <1>3
<1> HIDE DEF x
<1> QED BY <1>2, <1>4, <1>5, <1>6, Unslotted

\* A call in an attempt has a replica.
LEMMA InAttempt ==
    ASSUME IInv, NEW c \in Calls, call[c].pc \notin Before
    PROVE  /\ Replica(c) \in Replicas /\ Replica(c) = LastTried(call[c])
           /\ call[c].tried \in Seq(Replicas) /\ Len(call[c].tried) >= 1
<1>1. call[c].tried \in Seq(Replicas) /\ Len(call[c].tried) >= 1
  BY DEF IInv, CallsOK, CallOK, Call
<1>2. Len(call[c].tried) \in 1..Len(call[c].tried) BY <1>1
<1> QED BY <1>1, <1>2 DEF Replica, LastTried

\* The parts of the invariant that do not depend on the calls.
Rest == /\ pool \in Seq(Replicas)
        /\ made \in 0..MaxReplicas /\ leaves \in 0..MaxLeaves /\ ends \in 0..MaxEnds
        /\ fails \in [Replicas -> Nat]
        /\ until \in [Replicas -> {"clear", "ejected", "lapsed"}]
Slots == /\ serviceSem \in 0..ServiceCap
         /\ sem \in [Replicas -> 0..InstanceCap]
         /\ inflight \in [Replicas -> Nat]

LEMMA Together ==
    ASSUME Rest', Slots', CallsOK', SlotsExact', call' \in [Calls -> Call] PROVE IInv'
BY DEF Rest, Slots, IInv, TypeOK

LEMMA ServiceSteps ==
    ASSUME IInv, NEW c \in Calls, AcquireService(c) \/ QueueService(c) \/ GiveUpService(c)
    PROVE  IInv'
<1>0. Rest' BY DEF IInv, TypeOK, Rest, AcquireService, QueueService, GiveUpService, poolVars, healthVars
<1>1. CASE AcquireService(c)
  <2> DEFINE y == call[c]
             x == [y EXCEPT !.pc = "pick"]
  <2>1. CallOK(y) /\ y \in Call /\ y.pc \in {"new", "queued"}
    BY <1>1 DEF IInv, CallsOK, CallOK, AcquireService
  <2>2. CallOK(x) BY <2>1, GotoOK DEF Before, Outside
  <2>3. x.pc = "pick" BY <2>1 DEF Call
  <2>4. call' = [call EXCEPT ![c] = x] BY <1>1 DEF AcquireService, Goto, IInv, TypeOK
  <2> HIDE DEF x
  <2>5. Moves(c) /\ call'[c] = x BY <2>4, UpdateMoves DEF IInv, TypeOK
  <2>6. ~InSlot(call[c]) /\ InSlot(call'[c]) BY <2>1, <2>3, <2>5 DEF InSlot, Outside
  <2>7. \A r : ~RunsOn(call[c], r) /\ ~RunsOn(call'[c], r) BY <2>1, <2>3, <2>5 DEF RunsOn
  <2>8. serviceSem' = serviceSem + 1 /\ UNCHANGED sem /\ UNCHANGED inflight /\ serviceSem < ServiceCap
    BY <1>1 DEF AcquireService, instanceVars
  <2>9. CallsOK' /\ SlotsExact' /\ call' \in [Calls -> Call] /\ serviceSem' \in Nat
    BY <2>2, <2>5, <2>6, <2>7, <2>8, CountedOnce
  <2>10. Slots' BY <2>8, <2>9, DispatchAssumption DEF Slots, IInv, TypeOK
  <2> QED BY <1>0, <2>9, <2>10, Together
<1>2. CASE QueueService(c)
  <2>1. CallsOK' /\ SlotsExact' /\ call' \in [Calls -> Call]
    BY <1>2, GotoStep DEF QueueService, Before, Outside, InSlot
  <2>2. Slots' BY <1>2 DEF QueueService, slotVars, Slots, IInv, TypeOK
  <2> QED BY <1>0, <2>1, <2>2, Together
<1>3. CASE GiveUpService(c)
  <2>1. CallsOK' /\ SlotsExact' /\ call' \in [Calls -> Call]
    BY <1>3, GotoStep DEF GiveUpService, Before, Outside, InSlot
  <2>2. Slots' BY <1>3 DEF GiveUpService, slotVars, Slots, IInv, TypeOK
  <2> QED BY <1>0, <2>1, <2>2, Together
<1> QED BY <1>1, <1>2, <1>3

LEMMA PickSteps ==
    ASSUME IInv, NEW c \in Calls, Pick(c) \/ Decide(c)
    PROVE  IInv'
<1>0. Rest' BY DEF IInv, TypeOK, Rest, Pick, Decide, poolVars, healthVars
<1>1. UNCHANGED instanceVars /\ call[c].pc \in {"pick", "decide"} BY DEF Pick, Decide
<1>2. pool \in Seq(Replicas) /\ inflight \in [Replicas -> Nat] /\ call[c] \in Call
  BY DEF IInv, TypeOK
<1>3. CASE Ends(c)
  <2>1. call[c].pc \notin Outside \cup {"invoke"} BY <1>1 DEF Outside
  <2>2. CallsOK' /\ SlotsExact' /\ call' \in [Calls -> Call] /\ serviceSem' \in 0..ServiceCap
    BY <1>1, <1>3, <2>1, EndsStep
  <2>3. Slots' BY <1>1, <2>2 DEF Slots, IInv, TypeOK, instanceVars
  <2> QED BY <1>0, <2>2, <2>3, Together
<1>4. ASSUME NEW r \in Replicas, On(c, r), \A k \in 1..Len(call[c].tried) : call[c].tried[k] # r,
             call[c].pc = "pick" \/ (call[c].pc = "decide" /\ call[c].retry)
      PROVE  IInv'
  <2>1. CallsOK' /\ SlotsExact' /\ call' \in [Calls -> Call] BY <1>1, <1>4, OnStep
  <2>2. Slots' BY <1>1, <1>4 DEF Slots, IInv, TypeOK, instanceVars, On
  <2> QED BY <1>0, <2>1, <2>2, Together
<1>5. CASE Pick(c) /\ ~Ends(c)
  <2>1. pool # <<>> /\ call[c].pc = "pick" BY <1>5 DEF Pick
  <2>2. PICK hint \in Hints : On(c, PickHealthy(pool, hint, <<>>)) BY <1>5 DEF Pick
  <2>3. PickHealthy(pool, hint, <<>>) \in Replicas
    <3>1. hint \in Nat /\ <<>> \in Seq(Replicas) BY DispatchAssumption
    <3> QED BY <1>2, <2>1, <3>1, PickFresh
  <2>4. call[c].tried = <<>> BY <2>1 DEF IInv, CallsOK, CallOK, Before
  <2>5. \A k \in 1..Len(call[c].tried) : call[c].tried[k] # PickHealthy(pool, hint, <<>>)
    BY <2>4
  <2> QED BY <1>4, <2>1, <2>2, <2>3, <2>5
<1>6. CASE Decide(c) /\ ~Ends(c)
  <2>1. pool # <<>> /\ call[c].pc = "decide" /\ call[c].retry BY <1>6 DEF Decide
  <2>2. PICK hint \in Hints : /\ PickHealthy(pool, hint, call[c].tried) # NoReplica
                              /\ On(c, PickHealthy(pool, hint, call[c].tried))
    BY <1>6 DEF Decide
  <2>3. /\ PickHealthy(pool, hint, call[c].tried) \in Replicas
        /\ \A k \in 1..Len(call[c].tried) : call[c].tried[k] # PickHealthy(pool, hint, call[c].tried)
    <3>1. hint \in Nat /\ call[c].tried \in Seq(Replicas) BY <1>2, DispatchAssumption DEF Call
    <3> QED BY <1>2, <2>1, <2>2, <3>1, PickFresh
  <2> QED BY <1>4, <2>1, <2>2, <2>3
<1> QED BY <1>3, <1>5, <1>6

LEMMA InstanceSteps ==
    ASSUME IInv, NEW c \in Calls, AcquireInstance(c) \/ QueueInstance(c) \/ GiveUpInstance(c)
    PROVE  IInv'
<1>0. Rest' BY DEF IInv, TypeOK, Rest, AcquireInstance, QueueInstance, GiveUpInstance, poolVars, healthVars
<1> DEFINE y == call[c]
<1>1. CallOK(y) /\ y \in Call /\ y.pc \in {"slot", "waiting"} /\ y.pc \notin Before
  BY DEF IInv, CallsOK, CallOK, AcquireInstance, QueueInstance, GiveUpInstance, Before, Outside
<1>2. CASE AcquireInstance(c)
  <2> DEFINE x == [y EXCEPT !.pc = "invoke", !.probed = MayRetry(c), !.sent = FALSE, !.retry = FALSE]
  <2>1. Replica(c) \in Replicas /\ Replica(c) = LastTried(y) /\ y.tried \in Seq(Replicas)
    BY <1>1, InAttempt
  <2>2. MayRetry(c) \in BOOLEAN /\ (MayRetry(c) => Len(y.tried) < MaxAttempts) BY DEF MayRetry
  <2>3. /\ x \in Call /\ x.pc = "invoke" /\ x.tried = y.tried /\ x.delivered = y.delivered
        /\ x.probed = MayRetry(c)
    BY <1>1, <2>2 DEF Call
  <2>4. call' = [call EXCEPT ![c] = x] BY <1>2 DEF AcquireInstance, IInv, TypeOK
  <2> HIDE DEF x
  <2>5. CallOK(x) BY <1>1, <2>2, <2>3 DEF CallOK, Before, Outside
  <2>6. Moves(c) /\ call'[c] = x BY <2>4, UpdateMoves DEF IInv, TypeOK
  <2>7. InSlot(call[c]) /\ InSlot(call'[c]) BY <1>1, <2>3, <2>6 DEF InSlot, Outside
  <2>8. \A r : ~RunsOn(call[c], r) /\ (RunsOn(call'[c], r) <=> r = Replica(c))
    BY <1>1, <2>1, <2>3, <2>6 DEF RunsOn, LastTried
  <2>9. /\ sem' = [sem EXCEPT ![Replica(c)] = @ + 1] /\ sem[Replica(c)] < InstanceCap
        /\ inflight' = [inflight EXCEPT ![Replica(c)] = @ + 1] /\ serviceSem' = serviceSem
    BY <1>2 DEF AcquireInstance
  <2>10. \A r \in Replicas :
            /\ sem'[r] = IF r = Replica(c) THEN sem[r] + 1 ELSE sem[r]
            /\ inflight'[r] = IF r = Replica(c) THEN inflight[r] + 1 ELSE inflight[r]
    BY <2>9 DEF IInv, TypeOK
  <2>11. CallsOK' /\ SlotsExact' /\ call' \in [Calls -> Call]
    BY <2>5, <2>6, <2>7, <2>8, <2>9, <2>10, CountedOnce
  <2>12. Slots' BY <2>1, <2>9, DispatchAssumption DEF Slots, IInv, TypeOK
  <2> QED BY <1>0, <2>11, <2>12, Together
<1>3. CASE QueueInstance(c)
  <2>1. CallsOK' /\ SlotsExact' /\ call' \in [Calls -> Call]
    BY <1>3, GotoStep DEF QueueInstance, Before, Outside, InSlot
  <2>2. Slots' BY <1>3 DEF QueueInstance, slotVars, Slots, IInv, TypeOK
  <2> QED BY <1>0, <2>1, <2>2, Together
<1>4. CASE GiveUpInstance(c)
  <2>1. CallsOK' /\ SlotsExact' /\ call' \in [Calls -> Call] /\ serviceSem' \in 0..ServiceCap
    BY <1>1, <1>4, EndsStep DEF GiveUpInstance, Outside
  <2>2. Slots' BY <1>4, <2>1 DEF GiveUpInstance, instanceVars, Slots, IInv, TypeOK
  <2> QED BY <1>0, <2>1, <2>2, Together
<1> QED BY <1>2, <1>3, <1>4

LEMMA SendStep == ASSUME IInv, NEW c \in Calls, Send(c) PROVE IInv'
<1>0. Rest' /\ Slots' BY DEF IInv, TypeOK, Rest, Slots, Send, poolVars, healthVars, slotVars
<1> DEFINE y == call[c]
           x == [y EXCEPT !.sent = TRUE, !.delivered = @ \cup {Replica(c)}]
<1>1. CallOK(y) /\ y \in Call /\ y.pc = "invoke" /\ ~y.sent /\ y.pc \notin Before
  BY DEF IInv, CallsOK, CallOK, Send, Before, Outside
<1>2. Replica(c) \in Replicas /\ Replica(c) = LastTried(y) BY <1>1, InAttempt
<1>3. y.delivered = {} BY <1>1 DEF CallOK
<1>4. /\ x \in Call /\ x.pc = "invoke" /\ x.tried = y.tried /\ x.delivered = {Replica(c)}
      /\ x.sent /\ x.probed = y.probed
  BY <1>1, <1>2, <1>3 DEF Call
<1>5. call' = [call EXCEPT ![c] = x] BY DEF Send, IInv, TypeOK
<1> HIDE DEF x
<1>6. CallOK(x) BY <1>1, <1>2, <1>4 DEF CallOK, Before, Outside, LastTried
<1>7. Moves(c) /\ call'[c] = x BY <1>5, UpdateMoves DEF IInv, TypeOK
<1>8. InSlot(call[c]) /\ InSlot(call'[c]) BY <1>1, <1>4, <1>7 DEF InSlot, Outside
<1>9. \A r : RunsOn(call[c], r) <=> RunsOn(call'[c], r) BY <1>1, <1>4, <1>7 DEF RunsOn, LastTried
<1>10. UNCHANGED serviceSem /\ UNCHANGED sem /\ UNCHANGED inflight BY DEF Send, slotVars
<1>11. CallsOK' /\ SlotsExact' /\ call' \in [Calls -> Call]
  BY <1>6, <1>7, <1>8, <1>9, <1>10, CountedOnce
<1> QED BY <1>0, <1>11, Together

\* However Invoke returns, the instance slot comes back.
LEMMA ReturnsStep ==
    ASSUME IInv, NEW c \in Calls, NEW p \in {"load", "count", "decide"}, NEW again \in BOOLEAN,
           Returns(c, p, again), again => call[c].probed /\ ~call[c].sent
    PROVE  IInv'
<1>0. Rest' BY DEF IInv, TypeOK, Rest, Returns, poolVars, healthVars
<1> DEFINE y == call[c]
           x == [y EXCEPT !.pc = p, !.retry = again]
<1>1. CallOK(y) /\ y \in Call /\ y.pc = "invoke" /\ y.pc \notin Before
  BY DEF IInv, CallsOK, CallOK, Returns, Before, Outside
<1>2. Replica(c) \in Replicas /\ Replica(c) = LastTried(y) BY <1>1, InAttempt
<1>3. /\ x \in Call /\ x.pc = p /\ x.tried = y.tried /\ x.delivered = y.delivered
      /\ x.sent = y.sent /\ x.probed = y.probed /\ x.retry = again
  BY <1>1 DEF Call
<1>4. call' = [call EXCEPT ![c] = x] BY DEF Returns, IInv, TypeOK
<1> HIDE DEF x
<1>5. CallOK(x) BY <1>1, <1>3 DEF CallOK, Before, Outside, LastTried
<1>6. Moves(c) /\ call'[c] = x BY <1>4, UpdateMoves DEF IInv, TypeOK
<1>7. InSlot(call[c]) /\ InSlot(call'[c]) BY <1>1, <1>3, <1>6 DEF InSlot, Outside
<1>8. \A r : (RunsOn(call[c], r) <=> r = Replica(c)) /\ ~RunsOn(call'[c], r)
  BY <1>1, <1>2, <1>3, <1>6 DEF RunsOn
<1>9. /\ sem' = [sem EXCEPT ![Replica(c)] = @ - 1]
      /\ inflight' = [inflight EXCEPT ![Replica(c)] = @ - 1] /\ serviceSem' = serviceSem
  BY DEF Returns
<1>10. \A r \in Replicas :
          /\ sem'[r] = IF r = Replica(c) THEN sem[r] - 1 ELSE sem[r]
          /\ inflight'[r] = IF r = Replica(c) THEN inflight[r] - 1 ELSE inflight[r]
  BY <1>9 DEF IInv, TypeOK
<1>11. /\ CallsOK' /\ SlotsExact' /\ call' \in [Calls -> Call]
       /\ \A r \in Replicas : sem'[r] \in Nat /\ inflight'[r] \in Nat
  BY <1>5, <1>6, <1>7, <1>8, <1>9, <1>10, CountedOnce
<1>12. \A r \in Replicas : sem'[r] \in 0..InstanceCap
  <2> SUFFICES ASSUME NEW r \in Replicas PROVE sem'[r] \in 0..InstanceCap OBVIOUS
  <2>1. sem[r] \in 0..InstanceCap /\ InstanceCap \in Nat BY DispatchAssumption DEF IInv, TypeOK
  <2>2. sem'[r] \in Nat /\ (sem'[r] = sem[r] \/ sem'[r] = sem[r] - 1) BY <1>10, <1>11
  <2> QED BY <2>1, <2>2
<1>13. sem' \in [Replicas -> 0..InstanceCap] BY <1>9, <1>12 DEF IInv, TypeOK
<1>14. inflight' \in [Replicas -> Nat] BY <1>9, <1>11 DEF IInv, TypeOK
<1>15. Slots' BY <1>9, <1>13, <1>14 DEF Slots, IInv, TypeOK
<1> QED BY <1>0, <1>11, <1>15, Together

LEMMA InvokeSteps ==
    ASSUME IInv, NEW c \in Calls, Succeed(c) \/ FailUnhealthy(c) \/ FailOther(c)
    PROVE  IInv'
<1>1. CASE Succeed(c) BY <1>1, ReturnsStep DEF Succeed
<1>2. CASE FailUnhealthy(c)
  <2>1. call[c].probed \in BOOLEAN /\ call[c].sent \in BOOLEAN BY DEF IInv, TypeOK, Call
  <2> DEFINE again == call[c].ctx = "live" /\ NotSent(c)
  <2>2. again \in BOOLEAN /\ (again => call[c].probed /\ ~call[c].sent) BY <2>1 DEF NotSent
  <2>3. Returns(c, "count", again) BY <1>2 DEF FailUnhealthy
  <2> HIDE DEF again
  <2> QED BY <2>2, <2>3, ReturnsStep
<1>3. CASE FailOther(c) BY <1>3, ReturnsStep DEF FailOther
<1> QED BY <1>1, <1>2, <1>3

LEMMA HealthSteps ==
    ASSUME IInv, NEW c \in Calls,
           LoadStreak(c) \/ ClearStreak(c) \/ Uneject(c) \/ CountFailure(c) \/ Eject(c)
    PROVE  IInv'
<1>1. /\ call[c].pc \in {"load", "clear", "uneject", "count", "eject"}
      /\ call[c].pc \notin Before /\ call[c].pc \notin Outside \cup {"invoke"} /\ InSlot(call[c])
  BY DEF LoadStreak, ClearStreak, Uneject, CountFailure, Eject, Before, Outside, InSlot
<1>2. Replica(c) \in Replicas BY <1>1, InAttempt
<1>3. Rest'
  <2>1. fails' \in [Replicas -> Nat]
    <3>1. fails \in [Replicas -> Nat] /\ fails[Replica(c)] + 1 \in Nat BY <1>2 DEF IInv, TypeOK
    <3>2. \/ UNCHANGED fails \/ fails' = [fails EXCEPT ![Replica(c)] = 0]
          \/ fails' = [fails EXCEPT ![Replica(c)] = fails[Replica(c)] + 1]
      BY DEF LoadStreak, ClearStreak, Uneject, CountFailure, Eject, healthVars
    <3> QED BY <3>1, <3>2
  <2>2. until' \in [Replicas -> {"clear", "ejected", "lapsed"}]
    BY <1>2 DEF IInv, TypeOK, LoadStreak, ClearStreak, Uneject, CountFailure, Eject, healthVars
  <2> QED BY <2>1, <2>2
         DEF IInv, TypeOK, Rest, LoadStreak, ClearStreak, Uneject, CountFailure, Eject, poolVars
<1>4. CASE Ends(c) /\ UNCHANGED instanceVars
  <2>1. CallsOK' /\ SlotsExact' /\ call' \in [Calls -> Call] /\ serviceSem' \in 0..ServiceCap
    BY <1>1, <1>4, EndsStep
  <2>2. Slots' BY <1>4, <2>1 DEF instanceVars, Slots, IInv, TypeOK
  <2> QED BY <1>3, <2>1, <2>2, Together
<1>5. ASSUME NEW p \in {"clear", "uneject", "eject", "decide"}, Goto(c, p), UNCHANGED slotVars,
             p \in {"eject", "decide"} => call[c].pc \in {"count", "eject"}
      PROVE  IInv'
  <2>1. p \notin Before /\ p \notin Outside /\ p # "waiting" BY DEF Before, Outside
  <2>2. CallsOK' /\ SlotsExact' /\ call' \in [Calls -> Call] BY <1>1, <1>5, <2>1, GotoStep
  <2>3. Slots' BY <1>5 DEF slotVars, Slots, IInv, TypeOK
  <2> QED BY <1>3, <2>2, <2>3, Together
<1>6. CASE LoadStreak(c)
  <2>1. (Ends(c) /\ UNCHANGED instanceVars) \/ (Goto(c, "clear") /\ UNCHANGED slotVars)
    BY <1>6 DEF LoadStreak, instanceVars, slotVars
  <2> QED BY <1>4, <1>5, <2>1
<1>7. CASE ClearStreak(c) BY <1>5, <1>7 DEF ClearStreak
<1>8. CASE Uneject(c) BY <1>4, <1>8 DEF Uneject
<1>9. CASE CountFailure(c) BY <1>5, <1>9 DEF CountFailure
<1>10. CASE Eject(c) BY <1>5, <1>10 DEF Eject
<1> QED BY <1>6, <1>7, <1>8, <1>9, <1>10

LEMMA ContextStep == ASSUME IInv, NEW c \in Calls, ContextEnds(c) PROVE IInv'
<1>0. Rest' /\ Slots'
  <2>1. ends \in 0..MaxEnds /\ MaxEnds \in Nat BY DispatchAssumption DEF IInv, TypeOK
  <2>2. ends < MaxEnds /\ ends' = ends + 1 BY DEF ContextEnds
  <2>3. ends' \in 0..MaxEnds BY <2>1, <2>2
  <2> QED BY <2>3 DEF IInv, TypeOK, Rest, Slots, ContextEnds, poolVars, healthVars, slotVars
<1>1. PICK ctx \in {"cancelled", "late in queue", "late in call"} :
         call' = [call EXCEPT ![c].ctx = ctx]
  BY DEF ContextEnds
<1> DEFINE y == call[c]
           x == [y EXCEPT !.ctx = ctx]
<1>2. CallOK(y) /\ y \in Call BY DEF IInv, CallsOK, CallOK
<1>3. /\ x \in Call /\ x.pc = y.pc /\ x.tried = y.tried /\ x.delivered = y.delivered
      /\ x.sent = y.sent /\ x.probed = y.probed /\ x.retry = y.retry
  BY <1>2 DEF Call
<1>4. call' = [call EXCEPT ![c] = x] BY <1>1 DEF IInv, TypeOK
<1> HIDE DEF x
<1>5. CallOK(x) BY <1>2, <1>3 DEF CallOK, LastTried
<1>6. Moves(c) /\ call'[c] = x BY <1>4, UpdateMoves DEF IInv, TypeOK
<1>7. InSlot(call[c]) <=> InSlot(call'[c]) BY <1>3, <1>6 DEF InSlot
<1>8. \A r : RunsOn(call[c], r) <=> RunsOn(call'[c], r) BY <1>3, <1>6 DEF RunsOn, LastTried
<1>9. UNCHANGED serviceSem /\ UNCHANGED sem /\ UNCHANGED inflight BY DEF ContextEnds, slotVars
<1>10. CallsOK' /\ SlotsExact' /\ call' \in [Calls -> Call]
  BY <1>5, <1>6, <1>7, <1>8, <1>9, CountedOnce
<1> QED BY <1>0, <1>10, Together

\* Replicas join, leave and are readmitted: no call is touched.
LEMMA PoolSteps ==
    ASSUME IInv, AddReplica \/ \E r \in Replicas : Readmit(r) \/ RemoveReplica(r)
    PROVE  IInv'
<1>1. UNCHANGED slotVars /\ UNCHANGED call BY DEF AddReplica, Readmit, RemoveReplica
<1>2. CallsOK' /\ call' \in [Calls -> Call] BY <1>1 DEF IInv, TypeOK, CallsOK
<1>3. SlotsExact' BY <1>1 DEF IInv, SlotsExact, slotVars, Replica
<1>4. Slots' BY <1>1 DEF IInv, TypeOK, Slots, slotVars
<1>5. Rest'
  <2>1. CASE AddReplica
    <3>1. made + 1 \in Replicas /\ made + 1 \in 0..MaxReplicas
      BY <2>1, DispatchAssumption DEF AddReplica, Replicas, IInv, TypeOK
    <3>2. Append(pool, made + 1) \in Seq(Replicas) BY <3>1 DEF IInv, TypeOK
    <3> QED BY <2>1, <3>1, <3>2 DEF AddReplica, Rest, IInv, TypeOK, healthVars
  <2>2. ASSUME NEW r \in Replicas, Readmit(r) PROVE Rest'
    BY <2>2 DEF Readmit, Rest, IInv, TypeOK, poolVars
  <2>3. ASSUME NEW r \in Replicas, RemoveReplica(r) PROVE Rest'
    <3>1. PICK i \in 1..Len(pool) : pool' = SubSeq(pool, 1, i - 1) \o SubSeq(pool, i + 1, Len(pool))
      BY <2>3 DEF RemoveReplica
    <3>2. pool \in Seq(Replicas) BY DEF IInv, TypeOK
    <3>3. SubSeq(pool, 1, i - 1) \in Seq(Replicas) BY <3>2
    <3>4. SubSeq(pool, i + 1, Len(pool)) \in Seq(Replicas) BY <3>2
    <3>5. pool' \in Seq(Replicas) BY <3>1, <3>3, <3>4
    <3>6. leaves' \in 0..MaxLeaves BY <2>3, DispatchAssumption DEF RemoveReplica, IInv, TypeOK
    <3> QED BY <2>3, <3>5, <3>6 DEF RemoveReplica, Rest, IInv, TypeOK, healthVars
  <2> QED BY <2>1, <2>2, <2>3
<1> QED BY <1>2, <1>3, <1>4, <1>5, Together

LEMMA Inductive == Spec => []IInv
<1>1. Init => IInv
  <2> SUFFICES ASSUME Init PROVE IInv OBVIOUS
  <2>1. NewCall \in Call
    <3>1. <<>> \in Seq(Replicas) /\ {} \in SUBSET Replicas OBVIOUS
    <3> QED BY <3>1 DEF NewCall, Call
  <2>2. CallOK(NewCall)
    <3>1. Len(<<>>) = 0 /\ 1..0 = {} /\ 0 <= MaxAttempts BY DispatchAssumption
    <3>2. NewCall.pc = "new" /\ NewCall.tried = <<>> /\ NewCall.delivered = {} BY DEF NewCall
    <3> QED BY <2>1, <3>1, <3>2 DEF CallOK, Before, Outside
  <2>3. CallsOK BY <2>2 DEF CallsOK, Init
  <2>4. [i \in 1..AtStart |-> i] \in Seq(Replicas)
    <3>1. AtStart \in Nat /\ \A i \in 1..AtStart : i \in Replicas BY DispatchAssumption DEF Replicas
    <3> QED BY <3>1
  <2>5. TypeOK BY <2>1, <2>4, DispatchAssumption DEF TypeOK, Init
  <2>6. Active = {} /\ \A r : Running(r) = {}
    BY DEF Init, Active, Running, InSlot, RunsOn, Outside, NewCall
  <2>7. SlotsExact BY <2>6, ExactForm, FS_EmptySet DEF Init
  <2> QED BY <2>3, <2>5, <2>7 DEF IInv
<1>2. IInv /\ [Next]_vars => IInv'
  <2> SUFFICES ASSUME IInv, [Next]_vars PROVE IInv' OBVIOUS
  <2>1. CASE UNCHANGED vars
    <3>1. TypeOK' /\ CallsOK' BY <2>1 DEF IInv, TypeOK, CallsOK, vars
    <3>2. SlotsExact' BY <2>1 DEF IInv, SlotsExact, Replica, vars
    <3> QED BY <3>1, <3>2 DEF IInv
  <2>2. CASE Next
    BY <2>2, ServiceSteps, PickSteps, InstanceSteps, SendStep, InvokeSteps, HealthSteps,
       ContextStep, PoolSteps
    DEF Next
  <2> QED BY <2>1, <2>2
<1>3. QED BY <1>1, <1>2, PTL DEF Spec

-----------------------------------------------------------------------------
(***************************************************************************)
(* The dispatcher stays within its types: in particular no semaphore goes  *)
(* below zero or above its cap (backpressure.go), and pickHealthy always   *)
(* finds a replica in a pool that is not empty (upstream.go).              *)
(***************************************************************************)
THEOREM TypeCorrect == Spec => []TypeOK
<1>1. IInv => TypeOK BY DEF IInv
<1>2. QED BY <1>1, Inductive, PTL

(***************************************************************************)
(* Service slots, instance slots and in-flight counters count exactly the  *)
(* calls under way, whichever way an attempt ends and whatever happens to  *)
(* its replica (proto_dispatcher.go, backpressure.go): no slot leaks.      *)
(***************************************************************************)
THEOREM SlotsExactHolds == Spec => []SlotsExact
<1>1. IInv => SlotsExact BY DEF IInv
<1>2. QED BY <1>1, Inductive, PTL

(***************************************************************************)
(* No request reaches two replicas, and no call tries a replica twice or   *)
(* makes more attempts than the tried array holds (proto_dispatcher.go).   *)
(***************************************************************************)
THEOREM DeliveredOnceHolds == Spec => []DeliveredOnce
<1>1. IInv => DeliveredOnce
  <2> SUFFICES ASSUME IInv, NEW c \in Calls
               PROVE  /\ Cardinality(call[c].delivered) <= 1
                      /\ Len(call[c].tried) <= MaxAttempts
                      /\ \A i, j \in 1..Len(call[c].tried) : i # j => call[c].tried[i] # call[c].tried[j]
    BY DEF DeliveredOnce
  <2>1. CallOK(call[c]) BY DEF IInv, CallsOK
  <2>2. call[c].delivered = {} \/ call[c].delivered = {LastTried(call[c])} BY <2>1 DEF CallOK
  <2>3. Cardinality(call[c].delivered) <= 1
    <3>1. Cardinality({}) = 0 BY FS_EmptySet
    <3>2. Cardinality({LastTried(call[c])}) = 1 BY FS_Singleton
    <3> QED BY <2>2, <3>1, <3>2
  <2> QED BY <2>1, <2>3 DEF CallOK
<1>2. QED BY <1>1, Inductive, PTL

-----------------------------------------------------------------------------
(* Requests of the embedded gateway.                                       *)

\* A sequence of whatever elements.
IsSequence(s) == \E X : s \in Seq(X)

LEMMA SequenceShape == ASSUME NEW s, IsSequence(s) PROVE Len(s) \in Nat /\ DOMAIN s = 1 .. Len(s)
BY DEF IsSequence

LEMMA SequenceAppend ==
    ASSUME NEW s, NEW e, IsSequence(s)
    PROVE  LET t == Append(s, e)
           IN  /\ IsSequence(t) /\ Len(t) = Len(s) + 1 /\ DOMAIN t = 1 .. Len(s) + 1
               /\ \A j \in DOMAIN s : t[j] = s[j]
               /\ t[Len(s) + 1] = e
<1>1. PICK X : s \in Seq(X) BY DEF IsSequence
<1>2. X \subseteq X \cup {e} /\ e \in X \cup {e} OBVIOUS
<1>3. s \in Seq(X \cup {e}) BY <1>1, <1>2
<1>4. Append(s, e) \in Seq(X \cup {e}) BY <1>2, <1>3
<1> QED BY <1>1, <1>2, <1>3, <1>4 DEF IsSequence

LEMMA SequenceExcept ==
    ASSUME NEW s, NEW i \in DOMAIN s, NEW e, IsSequence(s), NEW t, t = [s EXCEPT ![i] = e]
    PROVE  /\ IsSequence(t) /\ Len(t) = Len(s) /\ DOMAIN t = DOMAIN s
           /\ t[i] = e /\ \A j \in DOMAIN s : j # i => t[j] = s[j]
<1>1. PICK X : s \in Seq(X) BY DEF IsSequence
<1>2. X \subseteq X \cup {e} /\ e \in X \cup {e} OBVIOUS
<1>3. s \in Seq(X \cup {e}) BY <1>1, <1>2
<1>4. t \in Seq(X \cup {e}) /\ Len(t) = Len(s) BY <1>2, <1>3, ExceptSeq
<1> QED BY <1>1, <1>4 DEF IsSequence

LEMMA SequenceConcat ==
    ASSUME NEW s, NEW t, IsSequence(s), IsSequence(t)
    PROVE  IsSequence(s \o t) /\ ToSet(s \o t) = ToSet(s) \cup ToSet(t)
<1>1. PICK X, Y : s \in Seq(X) /\ t \in Seq(Y) BY DEF IsSequence
<1>2. s \in Seq(X \cup Y) /\ t \in Seq(X \cup Y) BY <1>1
<1>3. s \o t \in Seq(X \cup Y) BY <1>2
<1>4. Len(s \o t) = Len(s) + Len(t) /\ Len(s) \in Nat /\ Len(t) \in Nat BY <1>2
<1>5. \A j \in 1 .. Len(s) + Len(t) : (s \o t)[j] = IF j <= Len(s) THEN s[j] ELSE t[j - Len(s)] BY <1>2
<1>6. DOMAIN s = 1 .. Len(s) /\ DOMAIN t = 1 .. Len(t) /\ DOMAIN (s \o t) = 1 .. Len(s) + Len(t) BY <1>2, <1>3, <1>4
<1>7. ASSUME NEW x \in ToSet(s \o t) PROVE x \in ToSet(s) \cup ToSet(t)
  <2>1. PICK j \in 1 .. Len(s) + Len(t) : x = (s \o t)[j] BY <1>6, <1>7 DEF ToSet
  <2>2. CASE j <= Len(s) BY <2>1, <2>2, <1>4, <1>5, <1>6 DEF ToSet
  <2>3. CASE ~(j <= Len(s))
    <3>1. j - Len(s) \in DOMAIN t /\ x = t[j - Len(s)] BY <2>1, <2>3, <1>4, <1>5, <1>6
    <3> QED BY <3>1 DEF ToSet
  <2> QED BY <2>2, <2>3
<1>8. ASSUME NEW x \in ToSet(s) \cup ToSet(t) PROVE x \in ToSet(s \o t)
  <2>1. CASE x \in ToSet(s)
    <3>1. PICK j \in 1 .. Len(s) : x = s[j] BY <1>6, <2>1 DEF ToSet
    <3>2. j \in DOMAIN (s \o t) /\ (s \o t)[j] = x BY <3>1, <1>4, <1>5, <1>6
    <3> QED BY <3>2 DEF ToSet
  <2>2. CASE x \in ToSet(t)
    <3>1. PICK j \in 1 .. Len(t) : x = t[j] BY <1>6, <2>2 DEF ToSet
    <3> DEFINE k == Len(s) + j
    <3>2. k \in 1 .. Len(s) + Len(t) /\ ~(k <= Len(s)) /\ k - Len(s) = j BY <3>1, <1>4
    <3>3. k \in DOMAIN (s \o t) /\ (s \o t)[k] = x BY <3>1, <3>2, <1>5, <1>6
    <3> QED BY <3>3 DEF ToSet
  <2> QED BY <1>8, <2>1, <2>2
<1> QED BY <1>3, <1>7, <1>8 DEF IsSequence

LEMMA OneTuple == \A x : <<x>> # <<>> /\ <<x>>[1] = x /\ DOMAIN <<x>> = {1}
OBVIOUS

LEMMA WithFacts ==
    ASSUME NEW f, NEW x, NEW v
    PROVE  /\ DOMAIN With(f, x, v) = DOMAIN f \cup {x}
           /\ With(f, x, v)[x] = v
           /\ \A y \in DOMAIN f : y # x => With(f, x, v)[y] = f[y]
BY DEF With

LEMMA WithoutFacts ==
    ASSUME NEW f, NEW x
    PROVE  /\ DOMAIN Without(f, x) = DOMAIN f \ {x}
           /\ \A y \in DOMAIN f \ {x} : Without(f, x)[y] = f[y]
BY DEF Without

\* The fields of a request under way.
RequestFields ==
    {"pc", "req", "held", "schema", "plans", "total", "pend", "i", "by", "n", "todo", "running", "results", "errors",
     "payloads", "exported", "fed", "outs", "ran", "attr", "fills", "cookies", "merge", "resp"}
CallFields == {"op", "seen", "schema", "result", "outcome"}

\* What planRequest may come up with for a request that met schema s.
PlanOK(s, p) ==
    /\ p.status = 0 <=> p.plan # None
    /\ p.plan # None => p.plan[1].schema = s /\ p.plan[1].doc \in DOMAIN Documents
PlansOK(s, plans) == IsSequence(plans) /\ \A j \in DOMAIN plans : PlanOK(s, plans[j])
ValidPlan(p) == p.plan # None /\ ~ BadPlan(p)
AnalysisOf(s, p) == Analysed[s][p.plan[1].doc]
PathsOf(s, p) == {AnalysisOf(s, p).units[k].path : k \in DOMAIN AnalysisOf(s, p).units}

\* The operations that the valid documents of a request may start.
Allowance(s, plans) == UNION {{j} \X PathsOf(s, plans[j]) : j \in {k \in DOMAIN plans : ValidPlan(plans[k])}}

LEMMA ValidAnalysis ==
    ASSUME NEW s \in DOMAIN Schemas, NEW p, PlanOK(s, p), ValidPlan(p)
    PROVE  LET a == AnalysisOf(s, p)
           IN  /\ IsSequence(a.units) /\ Len(a.units) <= a.count
               /\ \A j, k \in DOMAIN a.units : a.units[j].path = a.units[k].path => j = k
               /\ \A k \in DOMAIN a.units : a.units[k].op \in DOMAIN Operations
               /\ a.count \in Nat /\ a.count <= MaxOps
               /\ a.stages # None => /\ IsSequence(a.stages)
                                     /\ a.stage \in [DOMAIN a.units -> 1 .. Len(a.stages)]
                                     /\ Settled(a.units, a.stage)
<1>1. p.plan[1].doc \in DOMAIN Documents /\ p.plan[1].schema = s BY DEF PlanOK, ValidPlan
<1>2. ~ AnalysisOf(s, p).invalid BY <1>1 DEF ValidPlan, BadPlan, AnalysisOf
<1> DEFINE a == AnalysisOf(s, p)
<1>3. /\ a.units \in Seq(ToSet(a.units))
      /\ \A j, k \in DOMAIN a.units : a.units[j].path = a.units[k].path => j = k
      /\ \A k \in DOMAIN a.units : a.units[k].op \in DOMAIN Operations
      /\ a.count \in Nat /\ Len(a.units) <= a.count /\ a.count <= MaxOps
      /\ a.stages # None => /\ a.stages \in Seq(ToSet(a.stages))
                            /\ a.stage \in [DOMAIN a.units -> 1 .. Len(a.stages)]
                            /\ Settled(a.units, a.stage)
  BY <1>1, <1>2, AnalysisAssumption DEF AnalysisOf
<1> HIDE DEF a
<1>4. IsSequence(a.units) /\ (a.stages # None => IsSequence(a.stages)) BY <1>3 DEF IsSequence
<1> QED BY <1>3, <1>4 DEF a

\* A valid document has no more paths than the operations it was counted to have.
LEMMA PathsCounted ==
    ASSUME NEW s \in DOMAIN Schemas, NEW p, PlanOK(s, p), ValidPlan(p), NEW j
    PROVE  /\ IsFiniteSet({j} \X PathsOf(s, p))
           /\ Cardinality({j} \X PathsOf(s, p)) <= AnalysisOf(s, p).count
<1> DEFINE a == AnalysisOf(s, p)
           f == [k \in 1 .. Len(a.units) |-> <<j, a.units[k].path>>]
<1>1. Len(a.units) \in Nat /\ DOMAIN a.units = 1 .. Len(a.units) /\ Len(a.units) <= a.count /\ a.count \in Nat
  BY ValidAnalysis, SequenceShape
<1>2. IsFiniteSet(1 .. Len(a.units)) /\ Cardinality(1 .. Len(a.units)) = Len(a.units)
  <2>1. PICK L \in Nat : L = Len(a.units) BY <1>1
  <2>2. IsFiniteSet(1 .. L) /\ Cardinality(1 .. L) = IF 1 > L THEN 0 ELSE L - 1 + 1 BY FS_Interval
  <2>3. (IF 1 > L THEN 0 ELSE L - 1 + 1) = L OBVIOUS
  <2> QED BY <2>1, <2>2, <2>3
<1>3. f \in Surjection(1 .. Len(a.units), {j} \X PathsOf(s, p))
  <2>1. ASSUME NEW k \in 1 .. Len(a.units) PROVE f[k] \in {j} \X PathsOf(s, p) BY <1>1, <2>1 DEF PathsOf
  <2>2. ASSUME NEW x \in {j} \X PathsOf(s, p) PROVE \E k \in 1 .. Len(a.units) : f[k] = x
    <3>1. PICK k \in 1 .. Len(a.units) : x = <<j, a.units[k].path>> BY <1>1, <2>2 DEF PathsOf
    <3> QED BY <3>1
  <2> QED BY <2>1, <2>2 DEF Surjection
<1>4. IsFiniteSet({j} \X PathsOf(s, p)) /\ Cardinality({j} \X PathsOf(s, p)) <= Len(a.units)
  BY <1>2, <1>3, FS_Surjection
<1>5. Cardinality({j} \X PathsOf(s, p)) \in Nat BY <1>4, FS_CardinalityType
<1> QED BY <1>1, <1>4, <1>5

\* One more plan adds no more than its count.
LEMMA AllowanceAppend ==
    ASSUME NEW s \in DOMAIN Schemas, NEW plans, PlansOK(s, plans), NEW p, PlanOK(s, p),
           IsFiniteSet(Allowance(s, plans))
    PROVE  LET more == Append(plans, p)
           IN  /\ PlansOK(s, more)
               /\ IsFiniteSet(Allowance(s, more))
               /\ Cardinality(Allowance(s, more))
                      <= Cardinality(Allowance(s, plans)) + (IF ValidPlan(p) THEN AnalysisOf(s, p).count ELSE 0)
<1> DEFINE more == Append(plans, p)
           N == Len(plans) + 1
           new == IF ValidPlan(p) THEN {N} \X PathsOf(s, p) ELSE {}
<1>1. /\ IsSequence(more) /\ DOMAIN more = 1 .. N /\ DOMAIN plans = 1 .. Len(plans) /\ Len(plans) \in Nat
      /\ (\A j \in DOMAIN plans : more[j] = plans[j]) /\ more[N] = p
  BY SequenceAppend, SequenceShape DEF PlansOK
<1> HIDE DEF more
<1>2. \A j \in DOMAIN more : j \in DOMAIN plans \/ j = N BY <1>1
<1>3. PlansOK(s, more) BY <1>1, <1>2 DEF PlansOK
<1>4. Allowance(s, more) = Allowance(s, plans) \cup new
  <2>1. ASSUME NEW x \in Allowance(s, more) PROVE x \in Allowance(s, plans) \cup new
    <3>1. PICK j \in DOMAIN more : ValidPlan(more[j]) /\ x \in {j} \X PathsOf(s, more[j]) BY <2>1 DEF Allowance
    <3>2. CASE j \in DOMAIN plans BY <1>1, <3>1, <3>2 DEF Allowance
    <3>3. CASE j = N BY <1>1, <3>1, <3>3
    <3> QED BY <1>2, <3>2, <3>3
  <2>2. ASSUME NEW x \in Allowance(s, plans) PROVE x \in Allowance(s, more)
    <3>1. PICK j \in DOMAIN plans : ValidPlan(plans[j]) /\ x \in {j} \X PathsOf(s, plans[j]) BY <2>2 DEF Allowance
    <3>2. j \in DOMAIN more /\ more[j] = plans[j] BY <1>1
    <3> QED BY <3>1, <3>2 DEF Allowance
  <2>3. ASSUME NEW x \in new PROVE x \in Allowance(s, more)
    <3>1. ValidPlan(p) /\ x \in {N} \X PathsOf(s, p) BY <2>3
    <3>2. N \in DOMAIN more /\ more[N] = p BY <1>1
    <3> QED BY <3>1, <3>2 DEF Allowance
  <2> QED BY <2>1, <2>2, <2>3
<1>5. IsFiniteSet(new) /\ Cardinality(new) <= (IF ValidPlan(p) THEN AnalysisOf(s, p).count ELSE 0)
  <2>1. CASE ValidPlan(p) BY <2>1, PathsCounted
  <2>2. CASE ~ ValidPlan(p) BY <2>2, FS_EmptySet
  <2> QED BY <2>1, <2>2
<1>6. IsFiniteSet(Allowance(s, plans) \cup new) BY <1>5, FS_Union
<1>7. Cardinality(Allowance(s, plans) \cup new)
          = Cardinality(Allowance(s, plans)) + Cardinality(new) - Cardinality(Allowance(s, plans) \cap new)
  BY <1>5, FS_Union
<1>8. IsFiniteSet(Allowance(s, plans) \cap new) BY <1>5, FS_Intersection
<1>9. /\ Cardinality(Allowance(s, plans)) \in Nat /\ Cardinality(new) \in Nat
      /\ Cardinality(Allowance(s, plans) \cap new) \in Nat
  BY <1>5, <1>8, FS_CardinalityType
<1>10. (IF ValidPlan(p) THEN AnalysisOf(s, p).count ELSE 0) \in Nat
  <2>1. CASE ValidPlan(p) BY <2>1, ValidAnalysis
  <2> QED BY <2>1
<1> HIDE DEF new
<1>11. Cardinality(Allowance(s, more)) <= Cardinality(Allowance(s, plans)) + (IF ValidPlan(p) THEN AnalysisOf(s, p).count ELSE 0)
  BY <1>4, <1>5, <1>7, <1>9, <1>10
<1> QED BY <1>3, <1>4, <1>6, <1>11 DEF more

-----------------------------------------------------------------------------
(* The headers.                                                            *)

AgesOK(d) == \A n \in DOMAIN d.ages : d.ages[n] \in Nat

\* d forbids what o forbids, grants no more and for no longer.
Tighter(d, o) ==
    /\ o.bans \subseteq d.bans
    /\ d.grants \subseteq o.grants
    /\ \A n \in DOMAIN o.ages \ Grace : n \in DOMAIN d.ages /\ d.ages[n] <= o.ages[n]
    /\ \A n \in DOMAIN d.ages \cap Grace : n \in DOMAIN o.ages /\ d.ages[n] <= o.ages[n]

LEMMA TighterItself == ASSUME NEW d, AgesOK(d) PROVE Tighter(d, d)
BY DEF AgesOK, Tighter

LEMMA TighterChain ==
    ASSUME NEW d, NEW e, NEW o, AgesOK(d), AgesOK(e), AgesOK(o), Tighter(d, e), Tighter(e, o)
    PROVE  Tighter(d, o)
<1>1. o.bans \subseteq d.bans /\ d.grants \subseteq o.grants BY DEF Tighter
<1>2. ASSUME NEW n \in DOMAIN o.ages \ Grace PROVE n \in DOMAIN d.ages /\ d.ages[n] <= o.ages[n]
  <2>1. n \in DOMAIN e.ages /\ e.ages[n] <= o.ages[n] BY DEF Tighter
  <2>2. n \in DOMAIN d.ages /\ d.ages[n] <= e.ages[n] BY <2>1 DEF Tighter
  <2>3. d.ages[n] \in Nat /\ e.ages[n] \in Nat /\ o.ages[n] \in Nat BY <2>1, <2>2 DEF AgesOK
  <2> QED BY <2>1, <2>2, <2>3
<1>3. ASSUME NEW n \in DOMAIN d.ages \cap Grace PROVE n \in DOMAIN o.ages /\ d.ages[n] <= o.ages[n]
  <2>1. n \in DOMAIN e.ages /\ d.ages[n] <= e.ages[n] BY DEF Tighter
  <2>2. n \in DOMAIN o.ages /\ e.ages[n] <= o.ages[n] BY <2>1 DEF Tighter
  <2>3. d.ages[n] \in Nat /\ e.ages[n] \in Nat /\ o.ages[n] \in Nat BY <2>1, <2>2 DEF AgesOK
  <2> QED BY <2>1, <2>2, <2>3
<1> QED BY <1>1, <1>2, <1>3 DEF Tighter

LEMMA MinOfTwo == ASSUME NEW a \in Nat, NEW b \in Nat PROVE Min({a, b}) \in Nat /\ Min({a, b}) <= a /\ Min({a, b}) <= b
<1>1. \E x \in {a, b} : \A y \in {a, b} : x <= y OBVIOUS
<1>2. Min({a, b}) \in {a, b} /\ \A y \in {a, b} : Min({a, b}) <= y BY <1>1 DEF Min
<1> QED BY <1>2

\* restrict: the combination is tighter than both.
LEMMA RestrictedTighter ==
    ASSUME NEW d, NEW o, AgesOK(d), AgesOK(o)
    PROVE  AgesOK(Restricted(d, o)) /\ Tighter(Restricted(d, o), d) /\ Tighter(Restricted(d, o), o)
<1> DEFINE names == (DOMAIN d.ages \cup DOMAIN o.ages) \ (Grace \ (DOMAIN d.ages \cap DOMAIN o.ages))
           e == Restricted(d, o)
<1>1. /\ e.bans = d.bans \cup o.bans /\ e.grants = d.grants \cap o.grants
      /\ DOMAIN e.ages = names /\ \A n \in names : e.ages[n] = ShorterAge(d.ages, o.ages, n)
  BY DEF Restricted, Directives
<1>2. ASSUME NEW n \in names
      PROVE  /\ ShorterAge(d.ages, o.ages, n) \in Nat
             /\ n \in DOMAIN d.ages => ShorterAge(d.ages, o.ages, n) <= d.ages[n]
             /\ n \in DOMAIN o.ages => ShorterAge(d.ages, o.ages, n) <= o.ages[n]
  <2>1. (n \in DOMAIN d.ages => d.ages[n] \in Nat) /\ (n \in DOMAIN o.ages => o.ages[n] \in Nat) BY DEF AgesOK
  <2>2. CASE n \in DOMAIN d.ages /\ n \in DOMAIN o.ages BY <2>1, <2>2, MinOfTwo DEF ShorterAge
  <2>3. CASE n \in DOMAIN d.ages /\ n \notin DOMAIN o.ages BY <2>1, <2>3 DEF ShorterAge
  <2>4. CASE n \notin DOMAIN d.ages /\ n \in DOMAIN o.ages BY <2>1, <2>4 DEF ShorterAge
  <2> QED BY <2>2, <2>3, <2>4
<1> HIDE DEF e
<1>3. AgesOK(e) BY <1>1, <1>2 DEF AgesOK
<1>4. \A n \in DOMAIN d.ages \ Grace : n \in names OBVIOUS
<1>5. \A n \in DOMAIN o.ages \ Grace : n \in names OBVIOUS
<1>6. \A n \in names \cap Grace : n \in DOMAIN d.ages /\ n \in DOMAIN o.ages OBVIOUS
<1> HIDE DEF names
<1>7. Tighter(e, d) BY <1>1, <1>2, <1>4, <1>6 DEF Tighter
<1>8. Tighter(e, o) BY <1>1, <1>2, <1>5, <1>6 DEF Tighter
<1> QED BY <1>3, <1>7, <1>8 DEF e

\* String: what is left out when private or no-store is written means nothing.
LEMMA WrittenNoLooser == ASSUME NEW d, NEW o, Tighter(d, o) PROVE NoLooser(Written(d), o)
<1>1. CASE "no-store" \in d.bans
  <2>1. "no-store" \in Written(d).bans BY <1>1 DEF Written, NoStore, Directives
  <2> QED BY <2>1 DEF NoLooser
<1>2. CASE "no-store" \notin d.bans /\ "private" \in d.bans
  <2> DEFINE w == Written(d)
  <2>1. /\ w.bans = d.bans \ {"proxy-revalidate"} /\ w.grants = d.grants \ {"public"}
        /\ DOMAIN w.ages = DOMAIN d.ages \ {"s-maxage"} /\ \A n \in DOMAIN w.ages : w.ages[n] = d.ages[n]
    BY <1>2 DEF Written, Directives
  <2> HIDE DEF w
  <2>2. "private" \in w.bans BY <1>2, <2>1
  <2>3. o.bans \subseteq w.bans \cup {"proxy-revalidate"} BY <2>1 DEF Tighter
  <2>4. w.grants \subseteq o.grants BY <2>1 DEF Tighter
  <2>5. \A n \in DOMAIN o.ages \ Grace : (n \in DOMAIN w.ages /\ w.ages[n] <= o.ages[n]) \/ n = "s-maxage"
    BY <2>1 DEF Tighter
  <2>6. \A n \in DOMAIN w.ages \cap Grace : n \in DOMAIN o.ages /\ w.ages[n] <= o.ages[n] BY <2>1 DEF Tighter
  <2>7. NoLooser(w, o) BY <2>2, <2>3, <2>4, <2>5, <2>6 DEF NoLooser
  <2> QED BY <2>7 DEF w
<1>3. CASE "no-store" \notin d.bans /\ "private" \notin d.bans
  <2>1. Written(d) = d BY <1>3 DEF Written
  <2>2. NoLooser(d, o) BY <1>3 DEF NoLooser, Tighter
  <2> QED BY <2>1, <2>2
<1> QED BY <1>1, <1>2, <1>3

\* The merge, against the calls that it observed.
MergeFields == {"ops", "failed", "withCC", "first", "same", "cc", "withETag", "firstETag", "etagSum", "withLM", "lastMod", "vary"}
Covers(m, x) ==
    /\ x.outcome = "error" => m.failed
    /\ x.outcome = "ok" /\ Operations[x.op].headers.cc = None => m.withCC < m.ops
    /\ x.outcome = "ok" /\ Operations[x.op].headers.cc # None =>
           /\ m.withCC > 0
           /\ Tighter(m.cc, Operations[x.op].headers.cc[1])
           /\ m.same => m.first = Operations[x.op].headers.cc[1]
MergeOK(m) ==
    /\ DOMAIN m = MergeFields
    /\ m.ops \in Nat /\ m.withCC \in Nat /\ m.withCC <= m.ops
    /\ m.failed \in BOOLEAN /\ m.same \in BOOLEAN
    /\ AgesOK(m.cc) /\ AgesOK(m.first)

LEMMA HeaderOK ==
    ASSUME NEW o \in DOMAIN Operations, Operations[o].headers.cc # None
    PROVE  AgesOK(Operations[o].headers.cc[1])
BY OperationsAssumption DEF AgesOK

\* What observe does to the fields that the Cache-Control header is made of.
LEMMA ObserveFields ==
    ASSUME NEW m, MergeOK(m), NEW h, NEW failed, ~ failed, NEW w, w = Observe(m, failed, h)
    PROVE  /\ DOMAIN w = MergeFields /\ w.ops = m.ops + 1 /\ w.failed = m.failed
           /\ h.cc = None => w.withCC = m.withCC /\ w.first = m.first /\ w.same = m.same /\ w.cc = m.cc
           /\ h.cc # None /\ m.withCC = 0 =>
                  w.withCC = 1 /\ w.first = h.cc[1] /\ w.same = m.same /\ w.cc = h.cc[1]
           /\ h.cc # None /\ m.withCC # 0 =>
                  /\ w.withCC = m.withCC + 1 /\ w.first = m.first
                  /\ w.same = (m.same /\ h.cc[1] = m.first) /\ w.cc = Restricted(m.cc, h.cc[1])
<1> DEFINE b == [m EXCEPT !.ops = @ + 1]
           q == ObserveCC(b, h.cc)
           e == ObserveETag(q, h.etag)
           v == ObserveRest(e, h)
<1>0. DOMAIN m = MergeFields BY DEF MergeOK
<1>1. /\ DOMAIN b = MergeFields /\ b.ops = m.ops + 1 /\ b.failed = m.failed /\ b.withCC = m.withCC
      /\ b.first = m.first /\ b.same = m.same /\ b.cc = m.cc
  BY <1>0 DEF MergeFields
<1> HIDE DEF b
<1>2. DOMAIN q = MergeFields /\ q.ops = b.ops /\ q.failed = b.failed
  BY <1>1 DEF ObserveCC, MergeFields
<1>3. h.cc = None => q.withCC = b.withCC /\ q.first = b.first /\ q.same = b.same /\ q.cc = b.cc
  BY DEF ObserveCC
<1>4. h.cc # None /\ b.withCC = 0 => q.withCC = 1 /\ q.first = h.cc[1] /\ q.same = b.same /\ q.cc = h.cc[1]
  BY <1>1 DEF ObserveCC, MergeFields
<1>5. h.cc # None /\ b.withCC # 0 =>
          /\ q.withCC = b.withCC + 1 /\ q.first = b.first
          /\ q.same = (b.same /\ h.cc[1] = b.first) /\ q.cc = Restricted(b.cc, h.cc[1])
  BY <1>1 DEF ObserveCC, MergeFields
<1> HIDE DEF q
<1>6. /\ DOMAIN e = MergeFields
      /\ e.ops = q.ops /\ e.failed = q.failed /\ e.withCC = q.withCC /\ e.first = q.first
      /\ e.same = q.same /\ e.cc = q.cc
  BY <1>2 DEF ObserveETag, MergeFields
<1> HIDE DEF e
<1>7. /\ DOMAIN v = MergeFields
      /\ v.ops = e.ops /\ v.failed = e.failed /\ v.withCC = e.withCC /\ v.first = e.first
      /\ v.same = e.same /\ v.cc = e.cc
  BY <1>6 DEF ObserveRest, MergeFields
<1> HIDE DEF v
<1>8. w = v BY DEF Observe, v, e, q, b
<1>9. DOMAIN w = MergeFields /\ w.ops = m.ops + 1 /\ w.failed = m.failed BY <1>1, <1>2, <1>6, <1>7, <1>8
<1>10. w.withCC = q.withCC /\ w.first = q.first /\ w.same = q.same /\ w.cc = q.cc BY <1>6, <1>7, <1>8
<1> QED BY <1>1, <1>3, <1>4, <1>5, <1>9, <1>10

LEMMA ObserveOK ==
    ASSUME NEW m, MergeOK(m), NEW o \in DOMAIN Operations, NEW failed \in BOOLEAN
    PROVE  LET w == Observe(m, failed, Operations[o].headers)
           IN  /\ MergeOK(w)
               /\ \A x : Covers(m, x) /\ x.op \in DOMAIN Operations => Covers(w, x)
               /\ \A x : x.op = o /\ x.outcome = (IF failed THEN "error" ELSE "ok") => Covers(w, x)
<1> DEFINE h == Operations[o].headers
           w == Observe(m, failed, h)
<1>0. m.ops \in Nat /\ m.withCC \in Nat /\ m.withCC <= m.ops /\ DOMAIN m = MergeFields BY DEF MergeOK
<1>1. CASE failed
  <2>1. w = [m EXCEPT !.ops = @ + 1, !.failed = TRUE] BY <1>1 DEF Observe
  <2> HIDE DEF w
  <2>2. /\ DOMAIN w = MergeFields /\ w.ops = m.ops + 1 /\ w.failed = TRUE /\ w.withCC = m.withCC
        /\ w.first = m.first /\ w.same = m.same /\ w.cc = m.cc
    BY <1>0, <2>1 DEF MergeFields
  <2>3. MergeOK(w)
    <3>1. m.same \in BOOLEAN /\ AgesOK(m.cc) /\ AgesOK(m.first) BY DEF MergeOK
    <3>2. w.failed \in BOOLEAN /\ w.same \in BOOLEAN BY <2>2, <3>1
    <3>3. w.ops \in Nat /\ w.withCC \in Nat /\ w.withCC <= w.ops BY <2>2, <1>0
    <3>4. AgesOK(w.cc) /\ AgesOK(w.first) BY <2>2, <3>1
    <3> QED BY <2>2, <3>2, <3>3, <3>4 DEF MergeOK
  <2>4. \A x : Covers(m, x) => Covers(w, x) BY <2>2, <1>0 DEF Covers
  <2>5. \A x : x.outcome = "error" => Covers(w, x) BY <2>2 DEF Covers
  <2> QED BY <1>1, <2>3, <2>4, <2>5 DEF w
<1>2. CASE ~ failed
  <2>0. ~ failed /\ w = Observe(m, failed, h) BY <1>2
  <2> HIDE DEF w
  <2>1. DOMAIN w = MergeFields /\ w.ops = m.ops + 1 /\ w.failed = m.failed BY <2>0, ObserveFields
  <2>2. m.failed \in BOOLEAN /\ m.same \in BOOLEAN /\ AgesOK(m.cc) /\ AgesOK(m.first) BY DEF MergeOK
  <2>3. CASE h.cc = None
    <3>1. w.withCC = m.withCC /\ w.first = m.first /\ w.same = m.same /\ w.cc = m.cc BY <2>0, <2>3, ObserveFields
    <3>2. MergeOK(w)
      <4>1. w.failed \in BOOLEAN /\ w.same \in BOOLEAN BY <2>1, <2>2, <3>1
      <4>2. w.ops \in Nat /\ w.withCC \in Nat /\ w.withCC <= w.ops BY <2>1, <3>1, <1>0
      <4>3. AgesOK(w.cc) /\ AgesOK(w.first) BY <2>2, <3>1
      <4> QED BY <2>1, <4>1, <4>2, <4>3 DEF MergeOK
    <3>3. \A x : Covers(m, x) => Covers(w, x) BY <2>1, <3>1, <1>0 DEF Covers
    <3>4. \A x : x.op = o /\ x.outcome = "ok" => Covers(w, x) BY <2>1, <2>3, <3>1, <1>0 DEF Covers
    <3> QED BY <1>2, <3>2, <3>3, <3>4 DEF w
  <2>4. CASE h.cc # None /\ m.withCC = 0
    <3>2. w.withCC = 1 /\ w.first = h.cc[1] /\ w.same = m.same /\ w.cc = h.cc[1] BY <2>0, <2>4, ObserveFields
    <3>3. AgesOK(h.cc[1]) BY <2>4, HeaderOK
    <3>4. MergeOK(w)
      <4>1. w.failed \in BOOLEAN /\ w.same \in BOOLEAN BY <2>1, <2>2, <3>2
      <4>2. w.ops \in Nat /\ w.withCC \in Nat /\ w.withCC <= w.ops BY <2>1, <3>2, <1>0
      <4>3. AgesOK(w.cc) /\ AgesOK(w.first) BY <3>2, <3>3
      <4> QED BY <2>1, <4>1, <4>2, <4>3 DEF MergeOK
    <3>5. Tighter(h.cc[1], h.cc[1]) BY <3>3, TighterItself
    <3>6. \A x : Covers(m, x) => Covers(w, x) BY <2>1, <2>4, <3>2, <1>0 DEF Covers
    <3>7. \A x : x.op = o /\ x.outcome = "ok" => Covers(w, x) BY <2>1, <2>4, <3>2, <3>5 DEF Covers
    <3> QED BY <1>2, <3>4, <3>6, <3>7 DEF w
  <2>5. CASE h.cc # None /\ m.withCC # 0
    <3>2. /\ w.withCC = m.withCC + 1 /\ w.first = m.first
          /\ w.same = (m.same /\ h.cc[1] = m.first) /\ w.cc = Restricted(m.cc, h.cc[1])
      BY <2>0, <2>5, ObserveFields
    <3>5. w.same \in BOOLEAN /\ (w.same => m.same /\ h.cc[1] = m.first) BY <3>2
    <3>6. AgesOK(h.cc[1]) BY <2>5, HeaderOK
    <3>7. AgesOK(w.cc) /\ Tighter(w.cc, m.cc) /\ Tighter(w.cc, h.cc[1]) BY <2>2, <3>2, <3>6, RestrictedTighter
    <3>8. MergeOK(w)
      <4>1. w.failed \in BOOLEAN BY <2>1, <2>2
      <4>2. w.ops \in Nat /\ w.withCC \in Nat /\ w.withCC <= w.ops BY <2>1, <3>2, <1>0
      <4>3. AgesOK(w.first) BY <2>2, <3>2
      <4> QED BY <2>1, <3>5, <3>7, <4>1, <4>2, <4>3 DEF MergeOK
    <3>9. ASSUME NEW x, Covers(m, x), x.op \in DOMAIN Operations PROVE Covers(w, x)
      <4> DEFINE cc == Operations[x.op].headers.cc
      <4>1. cc # None => AgesOK(cc[1]) BY <3>9, HeaderOK
      <4>2. x.outcome = "ok" /\ cc # None => Tighter(m.cc, cc[1]) BY <3>9 DEF Covers
      <4>3. x.outcome = "ok" /\ cc # None => Tighter(w.cc, cc[1]) BY <4>1, <4>2, <2>2, <3>7, TighterChain
      <4>4. x.outcome = "ok" /\ cc # None => (w.same => w.first = cc[1]) BY <3>2, <3>5, <3>9 DEF Covers
      <4>5. x.outcome = "ok" /\ cc = None => w.withCC < w.ops BY <2>1, <3>2, <3>9, <1>0 DEF Covers
      <4>6. x.outcome = "error" => w.failed BY <2>1, <3>9 DEF Covers
      <4>7. w.withCC > 0 BY <3>2, <1>0
      <4> HIDE DEF cc
      <4> QED BY <4>3, <4>4, <4>5, <4>6, <4>7 DEF Covers, cc
    <3>10. ASSUME NEW x, x.op = o, x.outcome = "ok" PROVE Covers(w, x)
      <4>1. w.same => w.first = h.cc[1] BY <3>2, <3>5
      <4>2. w.withCC > 0 BY <3>2, <1>0
      <4> QED BY <2>5, <3>7, <3>10, <4>1, <4>2 DEF Covers
    <3> QED BY <1>2, <3>8, <3>9, <3>10 DEF w
  <2> QED BY <2>3, <2>4, <2>5
<1> QED BY <1>1, <1>2

\* apply: the header that is sent is no looser than any that was observed.
LEMMA AppliedStrict ==
    ASSUME NEW m, MergeOK(m), NEW x, Covers(m, x), x.op \in DOMAIN Operations,
           CacheControl(m) # None, x.outcome \in {"ok", "error"}
    PROVE  \/ "no-store" \in CacheControl(m)[1].bans
           \/ /\ x.outcome = "ok" /\ Operations[x.op].headers.cc # None
              /\ NoLooser(CacheControl(m)[1], Operations[x.op].headers.cc[1])
<1> DEFINE cc == Operations[x.op].headers.cc
<1>0. m.ops \in Nat /\ m.withCC \in Nat /\ m.withCC <= m.ops BY DEF MergeOK
<1>1. ~ Silent(m) BY DEF CacheControl
<1>2. CASE m.failed \/ m.withCC \in 1 .. m.ops - 1
  <2>1. CacheControl(m) = <<NoStore>> BY <1>1, <1>2 DEF CacheControl
  <2> QED BY <2>1 DEF NoStore, Directives
<1>3. CASE ~ m.failed /\ m.withCC \notin 1 .. m.ops - 1
  <2>1. m.withCC = m.ops BY <1>1, <1>3 DEF CacheControl
  <2>2. x.outcome = "ok" /\ cc # None BY <1>3, <2>1, <1>0 DEF Covers
  <2>3. Tighter(m.cc, cc[1]) /\ (m.same => m.first = cc[1]) BY <2>2 DEF Covers
  <2>4. CASE m.same
    <3>1. CacheControl(m) = <<m.first>> BY <1>1, <1>3, <2>1, <2>4 DEF CacheControl
    <3>2. AgesOK(m.first) /\ m.first = cc[1] BY <2>3, <2>4 DEF MergeOK
    <3>3. NoLooser(m.first, cc[1]) BY <3>2 DEF NoLooser, AgesOK
    <3> QED BY <2>2, <3>1, <3>3
  <2>5. CASE ~ m.same
    <3>1. CacheControl(m) = <<Written(m.cc)>> BY <1>1, <1>3, <2>1, <2>5 DEF CacheControl
    <3> QED BY <2>2, <2>3, <3>1, WrittenNoLooser
  <2> QED BY <2>4, <2>5
<1> QED BY <1>2, <1>3

-----------------------------------------------------------------------------
(* The inductive invariant: one predicate for each thing a request keeps.  *)

\* What a request is about: it got past the checks of the handler.
Requested(req, schema) ==
    /\ req \in Sent /\ schema \in DOMAIN Schemas
    /\ req.hook # "refuse" /\ req.body = "ok"
    /\ req.batch => Len(req.items) \in 1 .. MaxOps

\* The plans so far, and the operations they may start.
Budgeted(pc, req, schema, plans, total, i) ==
    /\ PlansOK(schema, plans) /\ IsFiniteSet(Allowance(schema, plans))
    /\ i \in Nat /\ 1 <= i /\ i <= Len(req.items) + 1
    /\ pc = "plan" =>
           /\ Len(plans) + 1 = i
           /\ Len(plans) <= 1 => Cardinality(Allowance(schema, plans)) <= MaxOps
           /\ total \in Nat
           /\ req.batch /\ Len(req.items) > 1 => Cardinality(Allowance(schema, plans)) <= total
    /\ pc # "plan" =>
           /\ Len(plans) = Len(req.items)
           /\ Cardinality(Allowance(schema, plans)) <= MaxOps
           /\ \A j \in DOMAIN plans : req.method = "GET" /\ ValidPlan(plans[j]) =>
                  Documents[plans[j].plan[1].doc].kind = "query"

\* How far the items are.
Progress(pc, req, i, ran) ==
    /\ IsSequence(ran)
    /\ pc = "plan" => Len(ran) = 0
    /\ pc = "item" => Len(ran) + 1 = i
    /\ pc \in {"stage", "call"} => Len(ran) = i /\ i <= Len(req.items)

\* The calls are calls of operations that the plans have.
RecordOK(schema, x) == DOMAIN x = CallFields /\ x.schema = schema /\ x.op \in DOMAIN Operations
Recorded(schema, plans, ran) ==
    \A j \in DOMAIN ran :
        /\ ran[j] = <<>> \/ (j \in DOMAIN plans /\ ValidPlan(plans[j]))
        /\ \A p \in DOMAIN ran[j] : /\ j \in DOMAIN plans /\ ValidPlan(plans[j])
                                    /\ p \in PathsOf(schema, plans[j]) /\ RecordOK(schema, ran[j][p])

\* The cookies are those of the calls that succeeded, the merge covers them all.
Headed(ran, cookies, merge) ==
    /\ IsSequence(cookies) /\ MergeOK(merge)
    /\ \A j \in DOMAIN ran : \A p \in DOMAIN ran[j] :
           /\ Covers(merge, ran[j][p])
           /\ ran[j][p].outcome = "ok" => ToSet(Operations[ran[j][p].op].cookies) \subseteq ToSet(cookies)
    /\ \A x \in ToSet(cookies) : \E j \in DOMAIN ran : \E p \in DOMAIN ran[j] :
           ran[j][p].outcome = "ok" /\ x \in ToSet(Operations[ran[j][p].op].cookies)

\* The gate: goroutines within Parallel, at most one call in place.
OnGoroutines(running) == {p \in DOMAIN running : running[p].go}
Gated(running) ==
    /\ IsFiniteSet(DOMAIN running)
    /\ \A p \in DOMAIN running : /\ DOMAIN running[p] = {"op", "go", "at"} /\ running[p].go \in BOOLEAN
                                 /\ running[p].at \in {"bind", "fill", "wait", "handle"}
    /\ Cardinality(OnGoroutines(running)) <= Parallel
    /\ \A p, q \in DOMAIN running : ~ running[p].go /\ ~ running[q].go => p = q

\* The attribute: filled at most once, by one call, which whoever waits waits for.
Attributed(running, attr, fills) ==
    /\ attr \in {"absent", "filling", "ok", "failed"}
    /\ fills \in {0, 1} /\ (attr = "absent" => fills = 0)
    /\ attr = "filling" => \E p \in DOMAIN running : running[p].at = "fill"
    /\ \A p \in DOMAIN running : running[p].at = "fill" => attr = "filling"
    /\ \A p, q \in DOMAIN running : running[p].at = "fill" /\ running[q].at = "fill" => p = q
    /\ \A p \in DOMAIN running : running[p].at = "wait" => attr # "absent"

\* A stage n of analysis a: the units before it are over, and those of its own
\* that are not to be called any more (none before the stage starts) were called.
UnitsAt(a, n) == {k \in DOMAIN a.units : a.stage[k] = n}
PathOf(a, k) == a.units[k].path
StageOver(a, payloads, calls, k) ==
    \/ PathOf(a, k) \in DOMAIN calls /\ calls[PathOf(a, k)].outcome # "none"
    \/ payloads[a.stage[k]] = Refused("variables")
Past(a, n, payloads, calls) == \A k \in DOMAIN a.units : a.stage[k] < n => StageOver(a, payloads, calls, k)
Called(a, n, called, running, calls) ==
    /\ called \subseteq UnitsAt(a, n)
    /\ \A p \in DOMAIN running :
           /\ \E k \in called : PathOf(a, k) = p
           /\ p \in DOMAIN calls /\ calls[p].outcome = "none" /\ calls[p].op = running[p].op
    /\ \A k \in called : /\ PathOf(a, k) \in DOMAIN calls
                         /\ PathOf(a, k) \in DOMAIN running \/ calls[PathOf(a, k)].outcome # "none"
    /\ \A p \in DOMAIN calls : \E k \in DOMAIN a.units : PathOf(a, k) = p /\ (a.stage[k] < n \/ k \in called)
Given(a, given, calls) ==
    \A k \in DOMAIN a.units : PathOf(a, k) \in DOMAIN calls =>
        \A v \in a.units[k].reads \cap DOMAIN given : calls[PathOf(a, k)].seen[v] = given[v]

\* The document at hand, from its first stage on.
AtHand(r) == AnalysisOf(r.schema, r.plans[r.i])
CalledUnits(r) == IF r.pc = "call" THEN UnitsAt(AtHand(r), r.n) \ r.todo ELSE {}
Staging(r) ==
    /\ r.by = r.schema /\ ValidPlan(r.plans[r.i])
    /\ AtHand(r).stages # None /\ r.n \in 1 .. Len(AtHand(r).stages)
    /\ IsSequence(r.payloads) /\ Len(r.payloads) + 1 = r.n
    /\ r.pc = "call" => r.todo \subseteq UnitsAt(AtHand(r), r.n)
    /\ Past(AtHand(r), r.n, r.payloads, r.ran[r.i])
    /\ Called(AtHand(r), r.n, CalledUnits(r), r.running, r.ran[r.i])
    /\ Given(AtHand(r), r.req.items[r.i].vars, r.ran[r.i])
    /\ Documents[r.plans[r.i].plan[1].doc].kind # "query" => OnGoroutines(r.running) = {}

UnderWay(r) ==
    /\ DOMAIN r = RequestFields /\ r.pc \in {"plan", "item", "stage", "call"}
    /\ Requested(r.req, r.schema)
    /\ Budgeted(r.pc, r.req, r.schema, r.plans, r.total, r.i)
    /\ Progress(r.pc, r.req, r.i, r.ran)
    /\ Recorded(r.schema, r.plans, r.ran)
    /\ Headed(r.ran, r.cookies, r.merge)
    /\ Gated(r.running) /\ Attributed(r.running, r.attr, r.fills)
    /\ r.pc # "call" => DOMAIN r.running = {}
    /\ r.pc \in {"stage", "call"} => Staging(r)

\* An entry of a cache is of the schema that its cache is for.
CachesOK(kept) ==
    /\ DOMAIN kept = {"trusted", "stages", "counts"}
    /\ \A k \in DOMAIN kept : \A key \in DOMAIN kept[k].kept : kept[k].kept[key] = kept[k].schema

GatInv ==
    /\ snap \in 0 .. Len(Schemas) /\ script \in Seq(Sent)
    /\ CachesOK(cache)
    /\ DOMAIN requests = Clients
    /\ \A c \in Clients : requests[c].pc = "done" \/ UnderWay(requests[c])

LEMMA EmptySequence == IsSequence(<<>>) /\ Len(<<>>) = 0 /\ DOMAIN <<>> = {} /\ ToSet(<<>>) = {}
<1>1. <<>> \in Seq({}) /\ Len(<<>>) = 0 /\ DOMAIN <<>> = {} OBVIOUS
<1> QED BY <1>1 DEF IsSequence, ToSet

LEMMA NothingRuns == Gated(<<>>) /\ OnGoroutines(<<>>) = {} /\ Attributed(<<>>, "absent", 0)
<1>1. DOMAIN <<>> = {} BY EmptySequence
<1>2. OnGoroutines(<<>>) = {} BY <1>1 DEF OnGoroutines
<1>3. Cardinality({}) = 0 /\ IsFiniteSet({}) BY FS_EmptySet
<1>4. Gated(<<>>)
  <2>1. Cardinality(OnGoroutines(<<>>)) <= Parallel
    <3>1. Cardinality(OnGoroutines(<<>>)) = 0 BY <1>2, <1>3
    <3>2. Parallel \in Nat BY SentAssumption
    <3> QED BY <3>1, <3>2
  <2>2. IsFiniteSet(DOMAIN <<>>) BY <1>1, <1>3
  <2>3. \A p \in DOMAIN <<>> : FALSE BY <1>1
  <2> QED BY <2>1, <2>2, <2>3 DEF Gated
<1>5. Attributed(<<>>, "absent", 0) BY <1>1 DEF Attributed
<1> QED BY <1>2, <1>4, <1>5

LEMMA UnmergedOK == MergeOK(Unmerged)
<1> DEFINE m == Unmerged
<1>1. /\ DOMAIN m = MergeFields /\ m.ops = 0 /\ m.withCC = 0 /\ m.failed = FALSE /\ m.same = TRUE
      /\ m.cc = NoStore /\ m.first = NoStore
  BY DEF Unmerged, MergeFields
<1> HIDE DEF m
<1>2. AgesOK(NoStore)
  <2>1. NoStore.ages = <<>> BY DEF NoStore, Directives
  <2> QED BY <2>1, EmptySequence DEF AgesOK
<1>3. m.failed \in BOOLEAN /\ m.same \in BOOLEAN BY <1>1
<1>4. MergeOK(m) BY <1>1, <1>2, <1>3 DEF MergeOK
<1> QED BY <1>4 DEF m

LEMMA NoAllowance ==
    ASSUME NEW s, NEW plans, IsSequence(plans), Len(plans) = 0
    PROVE  Allowance(s, plans) = {} /\ IsFiniteSet(Allowance(s, plans)) /\ Cardinality(Allowance(s, plans)) = 0
<1>1. DOMAIN plans = {} BY SequenceShape
<1>2. Allowance(s, plans) = {} BY <1>1 DEF Allowance
<1> QED BY <1>2, FS_EmptySet

LEMMA FreshFields ==
    ASSUME NEW req, NEW held, NEW r, r = Fresh(req, held)
    PROVE  /\ DOMAIN r = RequestFields /\ r.pc = "plan" /\ r.req = req /\ r.schema = snap
           /\ r.plans = <<>> /\ r.total = 0 /\ r.i = 1 /\ r.running = <<>> /\ r.ran = <<>>
           /\ r.attr = "absent" /\ r.fills = 0 /\ r.cookies = <<>> /\ r.merge = Unmerged
BY DEF Fresh, RequestFields

LEMMA FreshOK ==
    ASSUME NEW req, NEW held, NEW r, r = Fresh(req, held), Requested(req, snap)
    PROVE  UnderWay(r)
<1>1. /\ DOMAIN r = RequestFields /\ r.pc = "plan" /\ r.req = req /\ r.schema = snap
      /\ r.plans = <<>> /\ r.total = 0 /\ r.i = 1 /\ r.running = <<>> /\ r.ran = <<>>
      /\ r.attr = "absent" /\ r.fills = 0 /\ r.cookies = <<>> /\ r.merge = Unmerged
  BY FreshFields
<1>2. IsSequence(<<>>) /\ Len(<<>>) = 0 /\ DOMAIN <<>> = {} /\ ToSet(<<>>) = {} BY EmptySequence
<1>3. /\ IsFiniteSet(Allowance(snap, <<>>)) /\ Cardinality(Allowance(snap, <<>>)) = 0
      /\ PlansOK(snap, <<>>)
  BY <1>2, NoAllowance DEF PlansOK
<1>4. Len(req.items) \in Nat /\ MaxOps \in Nat
  <2>1. req.items \in Seq(ToSet(req.items)) BY SentAssumption DEF Requested
  <2> QED BY <2>1, SentAssumption
<1>5. Budgeted("plan", req, snap, <<>>, 0, 1) BY <1>2, <1>3, <1>4 DEF Budgeted
<1>6. Progress("plan", req, 1, <<>>) BY <1>2 DEF Progress
<1>7. Recorded(snap, <<>>, <<>>) BY <1>2 DEF Recorded
<1>8. Headed(<<>>, <<>>, Unmerged) BY <1>2, UnmergedOK DEF Headed
<1> QED BY <1>1, <1>2, <1>5, <1>6, <1>7, <1>8, NothingRuns DEF UnderWay

\* The other fields do not matter.
LEMMA SameWay ==
    ASSUME NEW r, UnderWay(r), NEW q, DOMAIN q = RequestFields,
           q.pc = r.pc, q.req = r.req, q.schema = r.schema, q.plans = r.plans, q.total = r.total, q.i = r.i,
           q.by = r.by, q.n = r.n, q.todo = r.todo, q.running = r.running, q.payloads = r.payloads, q.ran = r.ran,
           q.attr = r.attr, q.fills = r.fills, q.cookies = r.cookies, q.merge = r.merge
    PROVE  UnderWay(q)
<1>1. AtHand(q) = AtHand(r) BY DEF AtHand
<1>2. CalledUnits(q) = CalledUnits(r) BY <1>1 DEF CalledUnits
<1>3. Staging(r) => Staging(q) BY <1>1, <1>2 DEF Staging
<1> QED BY <1>3 DEF UnderWay

LEMMA PendingOnly == ASSUME NEW r, UnderWay(r), NEW e, NEW q, q = [r EXCEPT !.pend = e] PROVE UnderWay(q)
<1>1. DOMAIN r = RequestFields BY DEF UnderWay
<1>2. /\ DOMAIN q = RequestFields
      /\ q.pc = r.pc /\ q.req = r.req /\ q.schema = r.schema /\ q.plans = r.plans /\ q.total = r.total /\ q.i = r.i
      /\ q.by = r.by /\ q.n = r.n /\ q.todo = r.todo /\ q.running = r.running /\ q.payloads = r.payloads /\ q.ran = r.ran
      /\ q.attr = r.attr /\ q.fills = r.fills /\ q.cookies = r.cookies /\ q.merge = r.merge
  BY <1>1 DEF RequestFields
<1> HIDE DEF UnderWay
<1> QED BY <1>2, SameWay

LEMMA LookupSame ==
    ASSUME CachesOK(cache), NEW k \in {"trusted", "stages", "counts"}, NEW r, NEW key
    PROVE  Lookup(k, r, key) = r.schema
BY DEF CachesOK, Lookup, Hit

LEMMA PlanRequestOK ==
    ASSUME CachesOK(cache), NEW r, NEW item, item.text # NoText => item.text \in DOMAIN Documents
    PROVE  PlanOK(r.schema, PlanRequest(r, item))
<1>1. ASSUME NEW d \in DOMAIN Documents PROVE PlanOK(r.schema, Planned(r.schema, d))
  <2> DEFINE p == Planned(r.schema, d)
  <2>1. p.status = 0 /\ p.plan = <<[schema |-> r.schema, doc |-> d]>> BY DEF Planned
  <2>2. p.plan # None /\ p.plan[1] = [schema |-> r.schema, doc |-> d] BY <2>1, OneTuple DEF None
  <2> HIDE DEF p
  <2>3. PlanOK(r.schema, p) BY <2>1, <2>2 DEF PlanOK
  <2> QED BY <2>3 DEF p
<1>2. ASSUME NEW status \in {200, 400}, NEW code PROVE PlanOK(r.schema, NotPlanned(status, code))
  BY DEF PlanOK, NotPlanned
<1>3. ASSUME item.id \in DOMAIN Trusted PROVE Trusted[item.id] \in DOMAIN Documents BY <1>3, SentAssumption
<1>4. Lookup("trusted", r, item.id) = r.schema BY LookupSame
<1>5. PlanOK(r.schema, ById(r, item))
  <2>1. CASE Trusted = <<>> BY <2>1, <1>2 DEF ById
  <2>2. CASE Trusted # <<>> /\ item.id \in DOMAIN Trusted BY <2>2, <1>1, <1>3, <1>4 DEF ById
  <2>3. CASE Trusted # <<>> /\ item.id \notin DOMAIN Trusted /\ item.text # NoText /\ ~ Enforce BY <2>3, <1>1 DEF ById
  <2>4. CASE Trusted # <<>> /\ item.id \notin DOMAIN Trusted /\ ~(item.text # NoText /\ ~ Enforce) BY <2>4, <1>2 DEF ById
  <2> QED BY <2>1, <2>2, <2>3, <2>4
<1>6. CASE item.id # NoText BY <1>5, <1>6 DEF PlanRequest
<1>7. CASE item.id = NoText /\ item.text = NoText BY <1>2, <1>7 DEF PlanRequest
<1>8. CASE item.id = NoText /\ item.text # NoText /\ Trusted # <<>> /\ Enforce BY <1>2, <1>8 DEF PlanRequest
<1>9. CASE item.id = NoText /\ item.text # NoText /\ ~(Trusted # <<>> /\ Enforce) BY <1>1, <1>9 DEF PlanRequest
<1> QED BY <1>6, <1>7, <1>8, <1>9

LEMMA RequestShape ==
    ASSUME NEW req, NEW s, Requested(req, s)
    PROVE  /\ IsSequence(req.items) /\ Len(req.items) \in Nat /\ DOMAIN req.items = 1 .. Len(req.items)
           /\ req.batch \in BOOLEAN /\ (~ req.batch => Len(req.items) = 1)
           /\ \A i \in DOMAIN req.items : req.items[i].text # NoText => req.items[i].text \in DOMAIN Documents
           /\ MaxOps \in Nat /\ (req.method = "GET" => ~ req.batch)
<1>1. req \in Sent /\ req.hook # "refuse" /\ req.body = "ok" BY DEF Requested
<1>2. /\ req.items \in Seq(ToSet(req.items)) /\ req.batch \in BOOLEAN
      /\ ~ req.batch => Len(req.items) = 1
      /\ req.method = "GET" => ~ req.batch
      /\ \A i \in DOMAIN req.items : req.items[i].text # NoText => req.items[i].text \in DOMAIN Documents
  BY <1>1, SentAssumption
<1>3. IsSequence(req.items) BY <1>2 DEF IsSequence
<1> QED BY <1>2, <1>3, SequenceShape, SentAssumption

LEMMA PlanItemOK ==
    ASSUME CachesOK(cache), NEW r, UnderWay(r), r.pc = "plan", r.i <= Len(r.req.items),
           NEW p, p = PlanRequest(r, Item(r)), NEW e, NEW q,
           q = [r EXCEPT !.plans = Append(@, p), !.i = @ + 1,
                         !.total = IF Counted(r, p) THEN @ + Count(r, p.plan[1].doc) ELSE @, !.pend = e]
    PROVE  UnderWay(q)
<1>0. /\ DOMAIN r = RequestFields /\ Requested(r.req, r.schema)
      /\ Budgeted("plan", r.req, r.schema, r.plans, r.total, r.i) /\ Progress("plan", r.req, r.i, r.ran)
      /\ Recorded(r.schema, r.plans, r.ran) /\ Headed(r.ran, r.cookies, r.merge)
      /\ Gated(r.running) /\ Attributed(r.running, r.attr, r.fills) /\ DOMAIN r.running = {}
  BY DEF UnderWay
<1> DEFINE total == IF Counted(r, p) THEN r.total + Count(r, p.plan[1].doc) ELSE r.total
<1>1. /\ DOMAIN q = RequestFields /\ q.pc = "plan" /\ q.req = r.req /\ q.schema = r.schema
      /\ q.plans = Append(r.plans, p) /\ q.i = r.i + 1 /\ q.total = total
      /\ q.running = r.running /\ q.ran = r.ran /\ q.attr = r.attr /\ q.fills = r.fills
      /\ q.cookies = r.cookies /\ q.merge = r.merge
  BY <1>0 DEF RequestFields
<1>2. /\ IsSequence(r.req.items) /\ Len(r.req.items) \in Nat /\ DOMAIN r.req.items = 1 .. Len(r.req.items)
      /\ r.req.batch \in BOOLEAN /\ (~ r.req.batch => Len(r.req.items) = 1) /\ MaxOps \in Nat
      /\ \A i \in DOMAIN r.req.items : r.req.items[i].text # NoText => r.req.items[i].text \in DOMAIN Documents
  BY <1>0, RequestShape
<1>3. /\ PlansOK(r.schema, r.plans) /\ IsFiniteSet(Allowance(r.schema, r.plans))
      /\ r.i \in Nat /\ 1 <= r.i /\ r.i <= Len(r.req.items) + 1 /\ Len(r.plans) + 1 = r.i
      /\ Len(r.plans) <= 1 => Cardinality(Allowance(r.schema, r.plans)) <= MaxOps
      /\ r.total \in Nat
      /\ r.req.batch /\ Len(r.req.items) > 1 => Cardinality(Allowance(r.schema, r.plans)) <= r.total
  BY <1>0 DEF Budgeted
<1>4. r.schema \in DOMAIN Schemas BY <1>0 DEF Requested
<1>5. PlanOK(r.schema, p)
  <2>1. r.i \in DOMAIN r.req.items BY <1>2, <1>3
  <2>2. Item(r).text # NoText => Item(r).text \in DOMAIN Documents BY <1>2, <2>1 DEF Item
  <2> QED BY <2>2, PlanRequestOK
<1> DEFINE more == Append(r.plans, p)
           c == IF ValidPlan(p) THEN AnalysisOf(r.schema, p).count ELSE 0
           old == Cardinality(Allowance(r.schema, r.plans))
           new == Cardinality(Allowance(r.schema, more))
<1>6. /\ PlansOK(r.schema, more) /\ IsFiniteSet(Allowance(r.schema, more)) /\ new <= old + c
  BY <1>3, <1>4, <1>5, AllowanceAppend
<1>7. Len(more) = Len(r.plans) + 1 /\ Len(r.plans) \in Nat
  BY <1>3, SequenceAppend, SequenceShape DEF PlansOK
<1>8. c \in Nat /\ c <= MaxOps
  <2>1. CASE ValidPlan(p) BY <2>1, <1>4, <1>5, ValidAnalysis
  <2>2. CASE ~ ValidPlan(p) BY <2>2, <1>2
  <2> QED BY <2>1, <2>2
<1>9. old \in Nat /\ new \in Nat BY <1>3, <1>6, FS_CardinalityType
<1>10. Len(r.plans) = 0 => old = 0 BY <1>3, NoAllowance DEF PlansOK
<1>11. r.req.batch /\ Len(r.req.items) > 1 => total = r.total + c
  <2>1. SUFFICES ASSUME r.req.batch, Len(r.req.items) > 1 PROVE total = r.total + c OBVIOUS
  <2>2. CASE ValidPlan(p)
    <3>1. Counted(r, p) BY <2>1, <2>2 DEF Counted, ValidPlan
    <3>2. Count(r, p.plan[1].doc) = AnalysisOf(r.schema, p).count BY LookupSame DEF Count, AnalysisOf
    <3> QED BY <2>2, <3>1, <3>2
  <2>3. CASE ~ ValidPlan(p)
    <3>1. ~ Counted(r, p) BY <2>3 DEF Counted, ValidPlan
    <3> QED BY <1>3, <2>3, <3>1
  <2> QED BY <2>2, <2>3
<1>12. total \in Nat
  <2>1. CASE Counted(r, p)
    <3>1. r.req.batch /\ Len(r.req.items) > 1 BY <2>1 DEF Counted
    <3> QED BY <1>3, <1>8, <1>11, <3>1
  <2> QED BY <2>1, <1>3
<1> HIDE DEF more, c, old, new, total
<1>13. Len(more) <= 1 => new <= MaxOps BY <1>2, <1>6, <1>7, <1>8, <1>9, <1>10
<1>14. r.req.batch /\ Len(r.req.items) > 1 => new <= total
  <2>1. SUFFICES ASSUME r.req.batch, Len(r.req.items) > 1 PROVE new <= total OBVIOUS
  <2>2. old <= r.total BY <1>3, <2>1 DEF old
  <2> QED BY <1>3, <1>6, <1>8, <1>9, <1>11, <2>1, <2>2
<1>15. r.i + 1 \in Nat /\ 1 <= r.i + 1 /\ r.i + 1 <= Len(r.req.items) + 1 /\ Len(more) + 1 = r.i + 1
  <2>1. r.i \in Nat /\ 1 <= r.i /\ Len(r.plans) + 1 = r.i BY <1>3
  <2>2. Len(r.req.items) \in Nat BY <1>2
  <2>3. r.i + 1 \in Nat /\ 1 <= r.i + 1 /\ r.i + 1 <= Len(r.req.items) + 1 BY <2>1, <2>2
  <2>4. Len(more) = r.i BY <1>7, <2>1
  <2> QED BY <2>3, <2>4
<1>16. Budgeted("plan", r.req, r.schema, more, total, r.i + 1) BY <1>6, <1>12, <1>13, <1>14, <1>15 DEF Budgeted, new
<1>17. Progress("plan", r.req, r.i + 1, r.ran) BY <1>0 DEF Progress
<1>18. Recorded(r.schema, more, r.ran)
  <2>1. IsSequence(r.ran) /\ Len(r.ran) = 0 BY <1>0 DEF Progress
  <2>2. DOMAIN r.ran = {} BY <2>1, SequenceShape
  <2> QED BY <2>2 DEF Recorded
<1> QED BY <1>0, <1>1, <1>16, <1>17, <1>18 DEF UnderWay, more

LEMMA AdmitOK ==
    ASSUME NEW r, UnderWay(r), r.pc = "plan", r.i > Len(r.req.items),
           r.req.batch \/ (r.plans[1].status = 0 /\ ~ MutationOverGet(r)),
           ~(r.req.batch /\ r.total > MaxOps), NEW q, q = [r EXCEPT !.pc = "item", !.i = 1]
    PROVE  UnderWay(q)
<1>0. /\ DOMAIN r = RequestFields /\ Requested(r.req, r.schema)
      /\ Budgeted("plan", r.req, r.schema, r.plans, r.total, r.i) /\ Progress("plan", r.req, r.i, r.ran)
      /\ Recorded(r.schema, r.plans, r.ran) /\ Headed(r.ran, r.cookies, r.merge)
      /\ Gated(r.running) /\ Attributed(r.running, r.attr, r.fills) /\ DOMAIN r.running = {}
  BY DEF UnderWay
<1>1. /\ DOMAIN q = RequestFields /\ q.pc = "item" /\ q.req = r.req /\ q.schema = r.schema
      /\ q.plans = r.plans /\ q.i = 1 /\ q.total = r.total
      /\ q.running = r.running /\ q.ran = r.ran /\ q.attr = r.attr /\ q.fills = r.fills
      /\ q.cookies = r.cookies /\ q.merge = r.merge
  BY <1>0 DEF RequestFields
<1>2. /\ Len(r.req.items) \in Nat /\ r.req.batch \in BOOLEAN /\ (~ r.req.batch => Len(r.req.items) = 1)
      /\ MaxOps \in Nat /\ (r.req.method = "GET" => ~ r.req.batch)
  BY <1>0, RequestShape
<1>3. /\ PlansOK(r.schema, r.plans) /\ IsFiniteSet(Allowance(r.schema, r.plans))
      /\ r.i \in Nat /\ 1 <= r.i /\ r.i <= Len(r.req.items) + 1 /\ Len(r.plans) + 1 = r.i
      /\ Len(r.plans) <= 1 => Cardinality(Allowance(r.schema, r.plans)) <= MaxOps
      /\ r.total \in Nat
      /\ r.req.batch /\ Len(r.req.items) > 1 => Cardinality(Allowance(r.schema, r.plans)) <= r.total
  BY <1>0 DEF Budgeted
<1>4. Len(r.plans) = Len(r.req.items)
  <2>1. Len(r.plans) \in Nat BY <1>3, SequenceShape DEF PlansOK
  <2> QED BY <1>2, <1>3, <2>1
<1> DEFINE card == Cardinality(Allowance(r.schema, r.plans))
<1>5. card \in Nat BY <1>3, FS_CardinalityType
<1>6. card <= MaxOps
  <2> HIDE DEF card
  <2>1. CASE Len(r.req.items) <= 1 BY <1>3, <1>4, <2>1 DEF card
  <2>2. CASE ~(Len(r.req.items) <= 1)
    <3>1. Len(r.req.items) > 1 BY <1>2, <2>2
    <3>2. r.req.batch
      <4>1. SUFFICES ASSUME ~ r.req.batch PROVE FALSE OBVIOUS
      <4>2. Len(r.req.items) = 1 BY <1>2, <4>1
      <4> QED BY <3>1, <4>2
    <3>3. card <= r.total BY <1>3, <3>1, <3>2 DEF card
    <3>4. r.total <= MaxOps BY <1>2, <1>3, <3>2
    <3> QED BY <1>2, <1>3, <1>5, <3>3, <3>4
  <2> QED BY <2>1, <2>2
<1>7. ASSUME NEW j \in DOMAIN r.plans, r.req.method = "GET", ValidPlan(r.plans[j])
      PROVE  Documents[r.plans[j].plan[1].doc].kind = "query"
  <2>1. ~ r.req.batch /\ Len(r.plans) = 1 BY <1>2, <1>4, <1>7
  <2>2. j = 1
    <3>1. DOMAIN r.plans = 1 .. 1 BY <1>3, <2>1, SequenceShape DEF PlansOK
    <3> QED BY <3>1
  <2>3. ~ MutationOverGet(r) BY <2>1
  <2>4. ~ BadPlan(r.plans[1]) /\ r.plans[1].plan # None BY <1>7, <2>2 DEF ValidPlan
  <2>5. Documents[r.plans[1].plan[1].doc].kind # "mutation" BY <1>7, <2>3, <2>4 DEF MutationOverGet
  <2>6. r.plans[1].plan[1].doc \in DOMAIN Documents BY <1>3, <2>2, <2>4 DEF PlansOK, PlanOK
  <2>7. Documents[r.plans[1].plan[1].doc].kind \in {"query", "mutation"} BY <2>6, SentAssumption
  <2> QED BY <2>2, <2>5, <2>7
<1>8. Budgeted("item", r.req, r.schema, r.plans, r.total, 1)
  <2>1. 1 \in Nat /\ 1 <= 1 /\ 1 <= Len(r.req.items) + 1 BY <1>2
  <2> QED BY <1>3, <1>4, <1>6, <1>7, <2>1 DEF Budgeted
<1>9. Progress("item", r.req, 1, r.ran) BY <1>0 DEF Progress
<1> QED BY <1>0, <1>1, <1>8, <1>9 DEF UnderWay

\* A document that is not run leaves no calls.
LEMMA NoCalls ==
    ASSUME NEW ran, IsSequence(ran), NEW t, t = Append(ran, <<>>)
    PROVE  /\ IsSequence(t) /\ Len(t) = Len(ran) + 1 /\ t[Len(ran) + 1] = <<>>
           /\ \A s, plans : Recorded(s, plans, ran) => Recorded(s, plans, t)
           /\ \A cookies, merge : Headed(ran, cookies, merge) => Headed(t, cookies, merge)
<1>1. /\ IsSequence(t) /\ Len(t) = Len(ran) + 1 /\ DOMAIN t = 1 .. Len(ran) + 1
      /\ (\A j \in DOMAIN ran : t[j] = ran[j]) /\ t[Len(ran) + 1] = <<>>
  BY SequenceAppend
<1>2. Len(ran) \in Nat /\ DOMAIN ran = 1 .. Len(ran) BY SequenceShape
<1>3. \A j \in DOMAIN t : (j \in DOMAIN ran /\ t[j] = ran[j]) \/ t[j] = <<>> BY <1>1, <1>2
<1>4. \A j \in DOMAIN ran : j \in DOMAIN t BY <1>1, <1>2
<1>5. DOMAIN <<>> = {} BY EmptySequence
<1>6. ASSUME NEW s, NEW plans, Recorded(s, plans, ran) PROVE Recorded(s, plans, t)
  BY <1>3, <1>5, <1>6 DEF Recorded
<1>7. ASSUME NEW cookies, NEW merge, Headed(ran, cookies, merge) PROVE Headed(t, cookies, merge)
  <2>1. IsSequence(cookies) /\ MergeOK(merge) BY <1>7 DEF Headed
  <2>2. ASSUME NEW j \in DOMAIN t, NEW p \in DOMAIN t[j]
        PROVE  /\ Covers(merge, t[j][p])
               /\ t[j][p].outcome = "ok" => ToSet(Operations[t[j][p].op].cookies) \subseteq ToSet(cookies)
    BY <1>3, <1>5, <1>7 DEF Headed
  <2>3. ASSUME NEW x \in ToSet(cookies)
        PROVE  \E j \in DOMAIN t : \E p \in DOMAIN t[j] :
                   t[j][p].outcome = "ok" /\ x \in ToSet(Operations[t[j][p].op].cookies)
    BY <1>1, <1>4, <1>7 DEF Headed
  <2> QED BY <2>1, <2>2, <2>3 DEF Headed
<1> QED BY <1>1, <1>6, <1>7

LEMMA SkippedOK ==
    ASSUME NEW r, UnderWay(r), r.pc = "item", r.i <= Len(r.req.items), NEW out, NEW doc, NEW q, q = Skipped(r, out, doc)
    PROVE  UnderWay(q)
<1>0. /\ DOMAIN r = RequestFields /\ Requested(r.req, r.schema)
      /\ Budgeted("item", r.req, r.schema, r.plans, r.total, r.i) /\ Progress("item", r.req, r.i, r.ran)
      /\ Recorded(r.schema, r.plans, r.ran) /\ Headed(r.ran, r.cookies, r.merge)
      /\ Gated(r.running) /\ Attributed(r.running, r.attr, r.fills) /\ DOMAIN r.running = {}
  BY DEF UnderWay
<1> DEFINE t == ItemDone(r, out, doc)
<1>1. /\ DOMAIN t = RequestFields /\ t.pc = "item" /\ t.req = r.req /\ t.schema = r.schema
      /\ t.plans = r.plans /\ t.i = r.i + 1 /\ t.total = r.total
      /\ t.running = r.running /\ t.ran = r.ran /\ t.attr = r.attr /\ t.fills = r.fills
      /\ t.cookies = r.cookies /\ t.merge = r.merge
  BY <1>0 DEF RequestFields, ItemDone
<1> HIDE DEF t
<1>2. /\ DOMAIN q = RequestFields /\ q.pc = "item" /\ q.req = r.req /\ q.schema = r.schema
      /\ q.plans = r.plans /\ q.i = r.i + 1 /\ q.total = r.total
      /\ q.running = r.running /\ q.ran = Append(r.ran, <<>>) /\ q.attr = r.attr /\ q.fills = r.fills
      /\ q.cookies = r.cookies /\ q.merge = r.merge
  <2>1. q = [t EXCEPT !.ran = Append(@, <<>>)] BY DEF Skipped, t
  <2> QED BY <1>1, <2>1 DEF RequestFields
<1>3. IsSequence(r.ran) /\ Len(r.ran) + 1 = r.i BY <1>0 DEF Progress
<1>4. r.i \in Nat /\ Len(r.req.items) \in Nat BY <1>0, RequestShape DEF Budgeted
<1>5. /\ IsSequence(q.ran) /\ Len(q.ran) = Len(r.ran) + 1
      /\ Recorded(r.schema, r.plans, q.ran) /\ Headed(q.ran, r.cookies, r.merge)
  BY <1>0, <1>2, <1>3, NoCalls
<1>6. Budgeted("item", r.req, r.schema, r.plans, r.total, r.i + 1) BY <1>0, <1>4 DEF Budgeted
<1>7. Progress("item", r.req, r.i + 1, q.ran) BY <1>3, <1>5 DEF Progress
<1> QED BY <1>0, <1>2, <1>5, <1>6, <1>7 DEF UnderWay

LEMMA BegunOK ==
    ASSUME CachesOK(cache), NEW r, UnderWay(r), r.pc = "item", r.i <= Len(r.req.items), ValidPlan(r.plans[r.i]),
           NEW q, q = Begun(r)
    PROVE  UnderWay(q)
<1>0. /\ DOMAIN r = RequestFields /\ Requested(r.req, r.schema)
      /\ Budgeted("item", r.req, r.schema, r.plans, r.total, r.i) /\ Progress("item", r.req, r.i, r.ran)
      /\ Recorded(r.schema, r.plans, r.ran) /\ Headed(r.ran, r.cookies, r.merge)
      /\ Gated(r.running) /\ Attributed(r.running, r.attr, r.fills) /\ DOMAIN r.running = {}
  BY DEF UnderWay
<1>1. StagesBy(r) = r.schema BY LookupSame DEF StagesBy
<1> DEFINE a == AnalysisOf(r.schema, r.plans[r.i])
<1>2. Analysed[StagesBy(r)][NameOf(r)] = a BY <1>1 DEF NameOf, AnalysisOf
<1>3. CASE a.stages = None
  <2>1. q = Skipped(r, Refused("EXPORT_DEPENDENCY"), <<NameOf(r)>>) BY <1>2, <1>3 DEF Begun
  <2> QED BY <2>1, SkippedOK
<1>4. CASE a.stages # None
  <2>1. q = [r EXCEPT !.pc = "stage", !.by = StagesBy(r), !.n = 1, !.payloads = <<>>, !.exported = <<>>,
                      !.ran = Append(@, <<>>)]
    BY <1>2, <1>4 DEF Begun
  <2> HIDE DEF a
  <2>2. /\ DOMAIN q = RequestFields /\ q.pc = "stage" /\ q.req = r.req /\ q.schema = r.schema
        /\ q.plans = r.plans /\ q.i = r.i /\ q.total = r.total /\ q.by = r.schema /\ q.n = 1 /\ q.payloads = <<>>
        /\ q.running = r.running /\ q.ran = Append(r.ran, <<>>) /\ q.attr = r.attr /\ q.fills = r.fills
        /\ q.cookies = r.cookies /\ q.merge = r.merge
    BY <1>0, <1>1, <2>1 DEF RequestFields
  <2>3. IsSequence(r.ran) /\ Len(r.ran) + 1 = r.i BY <1>0 DEF Progress
  <2>4. r.i \in Nat /\ Len(r.req.items) \in Nat /\ Len(r.plans) = Len(r.req.items) /\ 1 <= r.i
        /\ PlansOK(r.schema, r.plans)
    BY <1>0, RequestShape DEF Budgeted
  <2>5. /\ IsSequence(q.ran) /\ Len(q.ran) = Len(r.ran) + 1 /\ q.ran[Len(r.ran) + 1] = <<>>
        /\ Recorded(r.schema, r.plans, q.ran) /\ Headed(q.ran, r.cookies, r.merge)
    BY <1>0, <2>2, <2>3, NoCalls
  <2>6. Budgeted("stage", r.req, r.schema, r.plans, r.total, r.i) BY <1>0 DEF Budgeted
  <2>7. Progress("stage", r.req, r.i, q.ran) BY <2>3, <2>5 DEF Progress
  <2>8. AtHand(q) = a /\ CalledUnits(q) = {} BY <2>2 DEF AtHand, a, CalledUnits
  <2>9. /\ IsSequence(a.stages) /\ a.stage \in [DOMAIN a.units -> 1 .. Len(a.stages)]
    <3>1. r.i \in DOMAIN r.plans BY <2>4, SequenceShape DEF PlansOK
    <3>2. PlanOK(r.schema, r.plans[r.i]) BY <2>4, <3>1 DEF PlansOK
    <3>3. r.schema \in DOMAIN Schemas BY <1>0 DEF Requested
    <3> QED BY <1>4, <3>2, <3>3, ValidAnalysis DEF a
  <2>10. 1 \in 1 .. Len(a.stages)
    <3>1. Len(a.stages) \in Nat /\ Len(a.stages) # 0
      <4>1. PICK X : a.stages \in Seq(X) BY <2>9 DEF IsSequence
      <4> QED BY <1>4, <4>1 DEF None
    <3> QED BY <3>1
  <2>11. q.ran[q.i] = <<>> BY <2>2, <2>3, <2>5
  <2>12. DOMAIN <<>> = {} /\ IsSequence(<<>>) /\ Len(<<>>) = 0 BY EmptySequence
  <2>13. Past(a, 1, q.payloads, q.ran[q.i])
    <3>1. \A k \in DOMAIN a.units : ~(a.stage[k] < 1)
      <4>1. Len(a.stages) \in Nat BY <2>9, SequenceShape
      <4> QED BY <2>9, <4>1
    <3> QED BY <3>1 DEF Past
  <2>14. Called(a, 1, {}, q.running, q.ran[q.i]) BY <1>0, <2>2, <2>11, <2>12 DEF Called
  <2>15. Given(a, q.req.items[q.i].vars, q.ran[q.i]) BY <2>11, <2>12 DEF Given
  <2>16. OnGoroutines(q.running) = {} BY <1>0, <2>2 DEF OnGoroutines
  <2>17. Staging(q)
    <3>1. q.by = q.schema /\ ValidPlan(q.plans[q.i]) BY <2>2
    <3>2. AtHand(q).stages # None /\ q.n \in 1 .. Len(AtHand(q).stages) BY <1>4, <2>2, <2>8, <2>10
    <3>3. IsSequence(q.payloads) /\ Len(q.payloads) + 1 = q.n BY <2>2, <2>12
    <3>4. /\ q.pc # "call" /\ Past(AtHand(q), q.n, q.payloads, q.ran[q.i])
          /\ Called(AtHand(q), q.n, CalledUnits(q), q.running, q.ran[q.i])
          /\ Given(AtHand(q), q.req.items[q.i].vars, q.ran[q.i])
      BY <2>2, <2>8, <2>13, <2>14, <2>15
    <3> QED BY <2>16, <3>1, <3>2, <3>3, <3>4 DEF Staging
  <2> QED BY <1>0, <2>2, <2>5, <2>6, <2>7, <2>17 DEF UnderWay
<1> QED BY <1>3, <1>4

\* The document at hand, as the model and as the invariant refer to it.
LEMMA DocumentAtHand ==
    ASSUME NEW r, UnderWay(r), r.pc \in {"stage", "call"}, NEW a, a = AtHand(r)
    PROVE  /\ Staged(r) = a /\ Stages(r) = a.stages /\ StageUnits(r) = UnitsAt(a, r.n)
           /\ IsSequence(a.units) /\ IsSequence(a.stages)
           /\ \A j, k \in DOMAIN a.units : PathOf(a, j) = PathOf(a, k) => j = k
           /\ \A k \in DOMAIN a.units : a.units[k].op \in DOMAIN Operations
           /\ a.stage \in [DOMAIN a.units -> 1 .. Len(a.stages)] /\ Settled(a.units, a.stage)
           /\ r.i \in DOMAIN r.ran /\ r.i \in DOMAIN r.plans /\ r.i \in Nat /\ Len(a.stages) \in Nat
           /\ r.n \in Nat /\ r.n \in 1 .. Len(a.stages)
<1>0. /\ Requested(r.req, r.schema) /\ Budgeted(r.pc, r.req, r.schema, r.plans, r.total, r.i)
      /\ Progress(r.pc, r.req, r.i, r.ran) /\ Staging(r)
  BY DEF UnderWay
<1>1. /\ r.i \in Nat /\ 1 <= r.i /\ Len(r.plans) = Len(r.req.items) /\ PlansOK(r.schema, r.plans)
  BY <1>0 DEF Budgeted
<1>2. Len(r.req.items) \in Nat BY <1>0, RequestShape
<1>3. IsSequence(r.ran) /\ Len(r.ran) = r.i /\ r.i <= Len(r.req.items) BY <1>0 DEF Progress
<1>4. r.i \in DOMAIN r.ran /\ r.i \in DOMAIN r.plans BY <1>1, <1>2, <1>3, SequenceShape DEF PlansOK
<1>5. r.by = r.schema /\ ValidPlan(r.plans[r.i]) /\ a.stages # None /\ r.n \in 1 .. Len(a.stages) BY <1>0 DEF Staging
<1>6. Staged(r) = a BY <1>5 DEF Staged, NameOf, AtHand, AnalysisOf
<1>7. Stages(r) = a.stages /\ StageUnits(r) = UnitsAt(a, r.n) BY <1>6 DEF Stages, StageUnits, UnitsAt
<1>8. PlanOK(r.schema, r.plans[r.i]) /\ r.schema \in DOMAIN Schemas BY <1>0, <1>1, <1>4 DEF PlansOK, Requested
<1>9. a = AnalysisOf(r.schema, r.plans[r.i]) BY DEF AtHand
<1>10. /\ IsSequence(a.units)
       /\ \A j, k \in DOMAIN a.units : a.units[j].path = a.units[k].path => j = k
       /\ \A k \in DOMAIN a.units : a.units[k].op \in DOMAIN Operations
       /\ IsSequence(a.stages) /\ a.stage \in [DOMAIN a.units -> 1 .. Len(a.stages)] /\ Settled(a.units, a.stage)
  BY <1>5, <1>8, <1>9, ValidAnalysis
<1>11. Len(a.stages) \in Nat BY <1>10, SequenceShape
<1>12. r.n \in Nat BY <1>5, <1>11
<1> QED BY <1>1, <1>4, <1>5, <1>6, <1>7, <1>10, <1>11, <1>12 DEF PathOf

LEMMA StartStageOK ==
    ASSUME NEW r, UnderWay(r), r.pc = "stage", NEW q,
           q = [r EXCEPT !.pc = "call", !.todo = StageUnits(r), !.results = <<>>, !.errors = {}]
    PROVE  UnderWay(q)
<1>0. /\ DOMAIN r = RequestFields /\ Requested(r.req, r.schema)
      /\ Budgeted("stage", r.req, r.schema, r.plans, r.total, r.i) /\ Progress("stage", r.req, r.i, r.ran)
      /\ Recorded(r.schema, r.plans, r.ran) /\ Headed(r.ran, r.cookies, r.merge)
      /\ Gated(r.running) /\ Attributed(r.running, r.attr, r.fills) /\ DOMAIN r.running = {} /\ Staging(r)
  BY DEF UnderWay
<1> DEFINE a == AtHand(r)
<1>1. StageUnits(r) = UnitsAt(a, r.n) BY DocumentAtHand
<1>2. /\ DOMAIN q = RequestFields /\ q.pc = "call" /\ q.req = r.req /\ q.schema = r.schema
      /\ q.plans = r.plans /\ q.i = r.i /\ q.total = r.total /\ q.by = r.by /\ q.n = r.n /\ q.payloads = r.payloads
      /\ q.running = r.running /\ q.ran = r.ran /\ q.attr = r.attr /\ q.fills = r.fills
      /\ q.cookies = r.cookies /\ q.merge = r.merge /\ q.todo = UnitsAt(a, r.n)
  BY <1>0, <1>1 DEF RequestFields
<1>3. AtHand(q) = a BY <1>2 DEF AtHand
<1>4. CalledUnits(q) = {} /\ CalledUnits(r) = {} BY <1>2, <1>3 DEF CalledUnits
<1> HIDE DEF a
<1>5. Budgeted("call", r.req, r.schema, r.plans, r.total, r.i) BY <1>0 DEF Budgeted
<1>6. Progress("call", r.req, r.i, r.ran) BY <1>0 DEF Progress
<1>7. Staging(q) BY <1>0, <1>2, <1>3, <1>4 DEF Staging, a
<1> QED BY <1>0, <1>2, <1>5, <1>6, <1>7 DEF UnderWay

\* A stage ends when it was refused, or when everything of it was called and is over.
LEMMA StageDoneOK ==
    ASSUME NEW r, UnderWay(r), r.pc \in {"stage", "call"}, DOMAIN r.running = {}, NEW payload,
           payload = Refused("variables") \/ (r.pc = "call" /\ r.todo = {}), NEW q, q = StageDone(r, payload)
    PROVE  UnderWay(q)
<1>0. /\ DOMAIN r = RequestFields /\ Requested(r.req, r.schema)
      /\ Budgeted(r.pc, r.req, r.schema, r.plans, r.total, r.i) /\ Progress(r.pc, r.req, r.i, r.ran)
      /\ Recorded(r.schema, r.plans, r.ran) /\ Headed(r.ran, r.cookies, r.merge)
      /\ Gated(r.running) /\ Attributed(r.running, r.attr, r.fills) /\ Staging(r)
  BY DEF UnderWay
<1> DEFINE a == AtHand(r)
           all == Append(r.payloads, payload)
<1>1. /\ Stages(r) = a.stages /\ a.stage \in [DOMAIN a.units -> 1 .. Len(a.stages)]
      /\ r.i \in Nat /\ Len(a.stages) \in Nat /\ r.n \in Nat /\ r.n \in 1 .. Len(a.stages)
  BY DocumentAtHand
<1>2. IsSequence(r.ran) /\ Len(r.ran) = r.i /\ r.i <= Len(r.req.items) /\ Len(r.req.items) \in Nat
  BY <1>0, RequestShape DEF Progress
<1>3. CASE r.n = Len(a.stages)
  <2> DEFINE out == IF Len(Stages(r)) = 1 THEN payload ELSE Combined(all, Staged(r).order)
  <2>1. q = ItemDone(r, out, <<NameOf(r)>>) BY <1>1, <1>3 DEF StageDone
  <2> HIDE DEF out
  <2>2. /\ DOMAIN q = RequestFields /\ q.pc = "item" /\ q.req = r.req /\ q.schema = r.schema
        /\ q.plans = r.plans /\ q.i = r.i + 1 /\ q.total = r.total
        /\ q.running = r.running /\ q.ran = r.ran /\ q.attr = r.attr /\ q.fills = r.fills
        /\ q.cookies = r.cookies /\ q.merge = r.merge
    BY <1>0, <2>1 DEF RequestFields, ItemDone
  <2>3. Budgeted("item", r.req, r.schema, r.plans, r.total, r.i + 1) BY <1>0, <1>1, <1>2 DEF Budgeted
  <2>4. Progress("item", r.req, r.i + 1, r.ran) BY <1>2 DEF Progress
  <2> QED BY <1>0, <2>2, <2>3, <2>4 DEF UnderWay
<1>4. CASE r.n # Len(a.stages)
  <2> DEFINE e == ExportsOf(Stages(r)[r.n].exports, payload, r.exported)
  <2>1. q = [r EXCEPT !.pc = "stage", !.n = @ + 1, !.payloads = all, !.exported = e]
    BY <1>1, <1>4 DEF StageDone
  <2> HIDE DEF e, all
  <2>2. /\ DOMAIN q = RequestFields /\ q.pc = "stage" /\ q.req = r.req /\ q.schema = r.schema
        /\ q.plans = r.plans /\ q.i = r.i /\ q.total = r.total /\ q.by = r.by /\ q.n = r.n + 1 /\ q.payloads = all
        /\ q.running = r.running /\ q.ran = r.ran /\ q.attr = r.attr /\ q.fills = r.fills
        /\ q.cookies = r.cookies /\ q.merge = r.merge
    BY <1>0, <2>1 DEF RequestFields
  <2>3. AtHand(q) = a /\ CalledUnits(q) = {} BY <2>2 DEF AtHand, CalledUnits
  <2>4. /\ r.by = r.schema /\ ValidPlan(r.plans[r.i]) /\ a.stages # None
        /\ IsSequence(r.payloads) /\ Len(r.payloads) + 1 = r.n
        /\ Past(a, r.n, r.payloads, r.ran[r.i]) /\ Called(a, r.n, CalledUnits(r), r.running, r.ran[r.i])
        /\ Given(a, r.req.items[r.i].vars, r.ran[r.i])
    BY <1>0 DEF Staging
  <2>5. /\ r.pc = "call" /\ r.todo = {} => CalledUnits(r) = UnitsAt(a, r.n)
    BY DEF CalledUnits
  <2> HIDE DEF a
  <2>6. /\ IsSequence(all) /\ Len(all) = r.n /\ all[r.n] = payload
        /\ \A j \in 1 .. r.n - 1 : all[j] = r.payloads[j]
    <3>1. /\ IsSequence(all) /\ Len(all) = Len(r.payloads) + 1 /\ all[Len(r.payloads) + 1] = payload
          /\ \A j \in DOMAIN r.payloads : all[j] = r.payloads[j]
      BY <2>4, SequenceAppend DEF all
    <3>2. Len(r.payloads) \in Nat /\ DOMAIN r.payloads = 1 .. Len(r.payloads) BY <2>4, SequenceShape
    <3>3. Len(r.payloads) = r.n - 1 BY <1>1, <2>4, <3>2
    <3> QED BY <2>4, <3>1, <3>2, <3>3
  <2>7. Past(a, r.n + 1, all, r.ran[r.i])
    <3>1. SUFFICES ASSUME NEW k \in DOMAIN a.units, a.stage[k] < r.n + 1 PROVE StageOver(a, all, r.ran[r.i], k)
      BY DEF Past
    <3>2. a.stage[k] \in 1 .. Len(a.stages) BY <1>1
    <3>3. CASE a.stage[k] < r.n
      <4>1. StageOver(a, r.payloads, r.ran[r.i], k) BY <2>4, <3>3 DEF Past
      <4>2. all[a.stage[k]] = r.payloads[a.stage[k]] BY <1>1, <2>6, <3>2, <3>3
      <4> QED BY <4>1, <4>2 DEF StageOver
    <3>4. CASE a.stage[k] = r.n
      <4>1. CASE payload = Refused("variables") BY <2>6, <3>4, <4>1 DEF StageOver
      <4>2. CASE r.pc = "call" /\ r.todo = {}
        <5>1. k \in CalledUnits(r) BY <2>5, <3>4, <4>2 DEF UnitsAt
        <5> QED BY <2>4, <5>1 DEF Called, StageOver
      <4> QED BY <4>1, <4>2
    <3> QED BY <1>1, <3>1, <3>2, <3>3, <3>4
  <2>8. Called(a, r.n + 1, {}, r.running, r.ran[r.i])
    <3>1. ASSUME NEW p \in DOMAIN r.ran[r.i]
          PROVE  \E k \in DOMAIN a.units : PathOf(a, k) = p /\ a.stage[k] < r.n + 1
      <4>1. PICK k \in DOMAIN a.units : PathOf(a, k) = p /\ (a.stage[k] < r.n \/ k \in CalledUnits(r))
        BY <2>4 DEF Called
      <4>2. k \in CalledUnits(r) => a.stage[k] = r.n BY <2>4 DEF Called, UnitsAt
      <4>3. a.stage[k] \in 1 .. Len(a.stages) BY <1>1
      <4>4. a.stage[k] < r.n + 1 BY <1>1, <4>1, <4>2, <4>3
      <4> QED BY <4>1, <4>4
    <3> QED BY <3>1 DEF Called
  <2>9. OnGoroutines(q.running) = {} BY <2>2 DEF OnGoroutines
  <2>10. r.n + 1 \in 1 .. Len(a.stages) BY <1>1, <1>4
  <2>11. Staging(q)
    <3>1. q.by = q.schema /\ ValidPlan(q.plans[q.i]) BY <2>2, <2>4
    <3>2. AtHand(q).stages # None /\ q.n \in 1 .. Len(AtHand(q).stages) BY <2>2, <2>3, <2>4, <2>10
    <3>3. IsSequence(q.payloads) /\ Len(q.payloads) + 1 = q.n BY <2>2, <2>6
    <3>4. /\ q.pc # "call" /\ Past(AtHand(q), q.n, q.payloads, q.ran[q.i])
          /\ Called(AtHand(q), q.n, CalledUnits(q), q.running, q.ran[q.i])
          /\ Given(AtHand(q), q.req.items[q.i].vars, q.ran[q.i])
      BY <2>2, <2>3, <2>4, <2>7, <2>8
    <3> QED BY <2>9, <3>1, <3>2, <3>3, <3>4 DEF Staging
  <2>12. Budgeted("stage", r.req, r.schema, r.plans, r.total, r.i) BY <1>0 DEF Budgeted
  <2>13. Progress("stage", r.req, r.i, r.ran) BY <1>2 DEF Progress
  <2> QED BY <1>0, <2>2, <2>11, <2>12, <2>13 DEF UnderWay
<1> QED BY <1>3, <1>4

LEMMA LeastTodo == ASSUME NEW T \in SUBSET Nat, T # {} PROVE Min(T) \in T
<1>1. PICK m \in T : \A n \in T : m <= n BY LeastNat
<1> QED BY <1>1 DEF Min

\* A further call, which nothing is known of yet.
LEMMA FurtherCall ==
    ASSUME NEW ran, IsSequence(ran), NEW i \in DOMAIN ran, NEW path, path \notin DOMAIN ran[i], NEW x, x.outcome = "none",
           NEW t, t = [ran EXCEPT ![i] = With(ran[i], path, x)]
    PROVE  /\ IsSequence(t) /\ Len(t) = Len(ran) /\ t[i] = With(ran[i], path, x)
           /\ \A s, plans : /\ Recorded(s, plans, ran) /\ i \in DOMAIN plans /\ ValidPlan(plans[i])
                            /\ path \in PathsOf(s, plans[i]) /\ RecordOK(s, x)
                            => Recorded(s, plans, t)
           /\ \A cookies, merge : Headed(ran, cookies, merge) => Headed(t, cookies, merge)
<1> DEFINE w == With(ran[i], path, x)
<1>1. /\ IsSequence(t) /\ Len(t) = Len(ran) /\ DOMAIN t = DOMAIN ran
      /\ t[i] = w /\ \A j \in DOMAIN ran : j # i => t[j] = ran[j]
  <2> HIDE DEF w
  <2>1. t = [ran EXCEPT ![i] = w] BY DEF w
  <2> QED BY <2>1, SequenceExcept
<1>2. DOMAIN w = DOMAIN ran[i] \cup {path} /\ w[path] = x /\ \A y \in DOMAIN ran[i] : w[y] = ran[i][y]
  BY DEF With
<1> HIDE DEF w
<1>3. t[i] = w /\ \A j \in DOMAIN ran : j # i => t[j] = ran[j] BY <1>1
<1>4. ASSUME NEW s, NEW plans, Recorded(s, plans, ran), i \in DOMAIN plans, ValidPlan(plans[i]),
             path \in PathsOf(s, plans[i]), RecordOK(s, x)
      PROVE  Recorded(s, plans, t)
  <2>1. SUFFICES ASSUME NEW j \in DOMAIN ran
                 PROVE  /\ t[j] = <<>> \/ (j \in DOMAIN plans /\ ValidPlan(plans[j]))
                        /\ \A p \in DOMAIN t[j] : /\ j \in DOMAIN plans /\ ValidPlan(plans[j])
                                                  /\ p \in PathsOf(s, plans[j]) /\ RecordOK(s, t[j][p])
    BY <1>1 DEF Recorded
  <2>2. CASE j # i BY <1>3, <1>4, <2>2 DEF Recorded
  <2>3. CASE j = i
    <3>1. ASSUME NEW p \in DOMAIN t[j] PROVE p \in PathsOf(s, plans[j]) /\ RecordOK(s, t[j][p])
      <4>1. CASE p = path BY <1>2, <1>3, <1>4, <2>3, <4>1
      <4>2. CASE p \in DOMAIN ran[i] BY <1>2, <1>3, <1>4, <2>3, <4>2 DEF Recorded
      <4> QED BY <1>2, <1>3, <2>3, <3>1, <4>1, <4>2
    <3> QED BY <1>4, <2>3, <3>1
  <2> QED BY <2>2, <2>3
<1>5. ASSUME NEW cookies, NEW merge, Headed(ran, cookies, merge) PROVE Headed(t, cookies, merge)
  <2>1. IsSequence(cookies) /\ MergeOK(merge) BY <1>5 DEF Headed
  <2>2. Covers(merge, x) BY DEF Covers
  <2>3. ASSUME NEW j \in DOMAIN t, NEW p \in DOMAIN t[j]
        PROVE  /\ Covers(merge, t[j][p])
               /\ t[j][p].outcome = "ok" => ToSet(Operations[t[j][p].op].cookies) \subseteq ToSet(cookies)
    <3>1. CASE j # i BY <1>1, <1>3, <1>5, <3>1 DEF Headed
    <3>2. CASE j = i /\ p = path BY <1>2, <1>3, <2>2, <3>2
    <3>3. CASE j = i /\ p \in DOMAIN ran[i] BY <1>2, <1>3, <1>5, <3>3 DEF Headed
    <3> QED BY <1>2, <1>3, <2>3, <3>1, <3>2, <3>3
  <2>4. ASSUME NEW y \in ToSet(cookies)
        PROVE  \E j \in DOMAIN t : \E p \in DOMAIN t[j] :
                   t[j][p].outcome = "ok" /\ y \in ToSet(Operations[t[j][p].op].cookies)
    <3>1. PICK j \in DOMAIN ran : \E p \in DOMAIN ran[j] :
                   ran[j][p].outcome = "ok" /\ y \in ToSet(Operations[ran[j][p].op].cookies)
      BY <1>5 DEF Headed
    <3>2. PICK p \in DOMAIN ran[j] : ran[j][p].outcome = "ok" /\ y \in ToSet(Operations[ran[j][p].op].cookies)
      BY <3>1
    <3>3. p \in DOMAIN t[j] /\ t[j][p] = ran[j][p] BY <1>2, <1>3
    <3> QED BY <1>1, <3>2, <3>3
  <2> QED BY <2>1, <2>3, <2>4 DEF Headed
<1> QED BY <1>1, <1>3, <1>4, <1>5 DEF w

\* A call starts while none runs in place, on a goroutine only below the limit.
LEMMA CallStarts ==
    ASSUME NEW running, Gated(running), NEW attr, NEW fills, Attributed(running, attr, fills),
           NEW path, path \notin DOMAIN running, DOMAIN running \ OnGoroutines(running) = {},
           NEW x, DOMAIN x = {"op", "go", "at"}, x.go \in BOOLEAN, x.at = "bind",
           x.go => Cardinality(OnGoroutines(running)) < Parallel, NEW w, w = With(running, path, x)
    PROVE  /\ Gated(w) /\ Attributed(w, attr, fills)
           /\ ~ x.go => OnGoroutines(w) = OnGoroutines(running)
<1>0. DOMAIN x = {"op", "go", "at"} /\ x.go \in BOOLEAN /\ x.at = "bind" OBVIOUS
<1>1. DOMAIN w = DOMAIN running \cup {path} /\ w[path] = x /\ \A y \in DOMAIN running : w[y] = running[y]
  BY DEF With
<1>2. IsFiniteSet(DOMAIN w) BY <1>1, FS_AddElement DEF Gated
<1>3. \A p \in DOMAIN w : /\ DOMAIN w[p] = {"op", "go", "at"} /\ w[p].go \in BOOLEAN
                          /\ w[p].at \in {"bind", "fill", "wait", "handle"}
  BY <1>0, <1>1 DEF Gated
<1>4. IsFiniteSet(OnGoroutines(running))
  <2>1. OnGoroutines(running) \subseteq DOMAIN running BY DEF OnGoroutines
  <2> QED BY <2>1, FS_Subset DEF Gated
<1>5. Cardinality(OnGoroutines(running)) \in Nat BY <1>4, FS_CardinalityType
<1>6. Parallel \in Nat BY SentAssumption
<1>7. ASSUME x.go PROVE OnGoroutines(w) = OnGoroutines(running) \cup {path}
  <2>1. w[path].go BY <1>0, <1>1, <1>7
  <2> QED BY <1>1, <2>1 DEF OnGoroutines
<1>8. ~ x.go => OnGoroutines(w) = OnGoroutines(running) BY <1>0, <1>1 DEF OnGoroutines
<1>9. Cardinality(OnGoroutines(w)) <= Parallel
  <2>1. CASE x.go
    <3>1. path \notin OnGoroutines(running) BY DEF OnGoroutines
    <3>2. Cardinality(OnGoroutines(w)) = Cardinality(OnGoroutines(running)) + 1
      BY <1>4, <1>7, <2>1, <3>1, FS_AddElement
    <3> QED BY <1>5, <1>6, <2>1, <3>2
  <2>2. CASE ~ x.go BY <1>8, <2>2 DEF Gated
  <2> QED BY <2>1, <2>2
<1>10. \A p \in DOMAIN running : w[p].go
  <2>1. \A p \in DOMAIN running : p \in OnGoroutines(running) OBVIOUS
  <2> QED BY <1>1, <2>1 DEF OnGoroutines
<1>11. \A p, q \in DOMAIN w : ~ w[p].go /\ ~ w[q].go => p = q BY <1>1, <1>10
<1>12. Gated(w) BY <1>2, <1>3, <1>9, <1>11 DEF Gated
<1>13. \A p \in DOMAIN w : w[p].at # "bind" => p \in DOMAIN running /\ w[p] = running[p] BY <1>0, <1>1
<1>14. attr = "filling" => \E p \in DOMAIN w : w[p].at = "fill" BY <1>1 DEF Attributed
<1>15. Attributed(w, attr, fills)
  <2>1. \A p \in DOMAIN w : w[p].at = "fill" => attr = "filling" BY <1>13 DEF Attributed
  <2>2. \A p, q \in DOMAIN w : w[p].at = "fill" /\ w[q].at = "fill" => p = q BY <1>13 DEF Attributed
  <2>3. \A p \in DOMAIN w : w[p].at = "wait" => attr # "absent" BY <1>13 DEF Attributed
  <2> QED BY <1>14, <2>1, <2>2, <2>3 DEF Attributed
<1> QED BY <1>8, <1>12, <1>15

\* A value that the client gave is what the operation sees.
LEMMA SeenGiven ==
    ASSUME NEW r, NEW u, NEW v \in u.reads \cap DOMAIN Item(r).vars
    PROVE  Seen(r, u)[v] = Item(r).vars[v]
<1>1. v \in DOMAIN Variables(r) /\ Variables(r)[v] = Item(r).vars[v] BY DEF Variables, Filled
<1> QED BY <1>1 DEF Seen

\* The next unit of the stage is called.
LEMMA CalledNext ==
    ASSUME NEW a, NEW n, NEW called, NEW running, NEW calls, NEW payloads, NEW given,
           \A j, k \in DOMAIN a.units : PathOf(a, j) = PathOf(a, k) => j = k,
           Past(a, n, payloads, calls), Called(a, n, called, running, calls), Given(a, given, calls),
           \A k \in DOMAIN a.units : a.stage[k] \in Nat, n \in Nat,
           NEW k \in UnitsAt(a, n), k \notin called, NEW path, path = PathOf(a, k),
           NEW x, x.outcome = "none", NEW y, x.op = y.op,
           \A v \in a.units[k].reads \cap DOMAIN given : x.seen[v] = given[v],
           NEW running2, running2 = With(running, path, y), NEW calls2, calls2 = With(calls, path, x)
    PROVE  /\ path \notin DOMAIN calls /\ path \notin DOMAIN running
           /\ Past(a, n, payloads, calls2) /\ Called(a, n, called \cup {k}, running2, calls2) /\ Given(a, given, calls2)
<1>0. k \in DOMAIN a.units /\ a.stage[k] = n BY DEF UnitsAt
<1>1. path \notin DOMAIN calls
  <2>1. SUFFICES ASSUME path \in DOMAIN calls PROVE FALSE OBVIOUS
  <2>2. PICK j \in DOMAIN a.units : PathOf(a, j) = path /\ (a.stage[j] < n \/ j \in called) BY <2>1 DEF Called
  <2>3. j = k BY <1>0, <2>2
  <2>4. ~(n < n) OBVIOUS
  <2> QED BY <1>0, <2>2, <2>3, <2>4
<1>2. path \notin DOMAIN running BY <1>1 DEF Called
<1>3. DOMAIN calls2 = DOMAIN calls \cup {path} /\ calls2[path] = x /\ \A p \in DOMAIN calls : calls2[p] = calls[p]
  BY <1>1 DEF With
<1>4. DOMAIN running2 = DOMAIN running \cup {path} /\ running2[path] = y /\ \A p \in DOMAIN running : running2[p] = running[p]
  BY <1>2 DEF With
<1>5. Past(a, n, payloads, calls2) BY <1>3 DEF Past, StageOver
<1>6. ASSUME NEW p \in DOMAIN running2
      PROVE  /\ \E j \in called \cup {k} : PathOf(a, j) = p
             /\ p \in DOMAIN calls2 /\ calls2[p].outcome = "none" /\ calls2[p].op = running2[p].op
  <2>1. CASE p = path BY <1>3, <1>4, <2>1
  <2>2. CASE p \in DOMAIN running BY <1>3, <1>4, <2>2 DEF Called
  <2> QED BY <1>4, <2>1, <2>2
<1>7. ASSUME NEW j \in called \cup {k}
      PROVE  /\ PathOf(a, j) \in DOMAIN calls2
             /\ PathOf(a, j) \in DOMAIN running2 \/ calls2[PathOf(a, j)].outcome # "none"
  <2>1. CASE j = k BY <1>3, <1>4, <2>1
  <2>2. CASE j \in called BY <1>3, <1>4, <2>2 DEF Called
  <2> QED BY <2>1, <2>2
<1>8. ASSUME NEW p \in DOMAIN calls2
      PROVE  \E j \in DOMAIN a.units : PathOf(a, j) = p /\ (a.stage[j] < n \/ j \in called \cup {k})
  <2>1. CASE p = path BY <1>0, <2>1
  <2>2. CASE p \in DOMAIN calls BY <2>2 DEF Called
  <2> QED BY <1>3, <2>1, <2>2
<1>9. called \cup {k} \subseteq UnitsAt(a, n) BY DEF Called
<1>10. Called(a, n, called \cup {k}, running2, calls2) BY <1>6, <1>7, <1>8, <1>9 DEF Called
<1>11. ASSUME NEW j \in DOMAIN a.units, PathOf(a, j) \in DOMAIN calls2, NEW v \in a.units[j].reads \cap DOMAIN given
       PROVE  calls2[PathOf(a, j)].seen[v] = given[v]
  <2>1. CASE PathOf(a, j) = path
    <3>1. j = k BY <1>0, <2>1
    <3> QED BY <1>3, <1>11, <2>1, <3>1
  <2>2. CASE PathOf(a, j) \in DOMAIN calls BY <1>3, <1>11, <2>2 DEF Given
  <2> QED BY <1>3, <1>11, <2>1, <2>2
<1>12. Given(a, given, calls2) BY <1>11 DEF Given
<1> QED BY <1>1, <1>2, <1>5, <1>10, <1>12

LEMMA CallOperationOK ==
    ASSUME NEW r, UnderWay(r), r.pc = "call", r.todo # {}, InPlace(r) = {},
           NEW k, k = Min(r.todo), NEW u, u = Staged(r).units[k], NEW q,
           q = [r EXCEPT !.todo = @ \ {k},
                   !.running = With(@, u.path, [op |-> u.op, go |-> Goes(r), at |-> "bind"]),
                   !.ran[r.i] = With(@, u.path, [op |-> u.op, seen |-> Seen(r, u), schema |-> r.plans[r.i].plan[1].schema,
                                                 result |-> NullData, outcome |-> "none"])]
    PROVE  UnderWay(q)
<1>0. /\ DOMAIN r = RequestFields /\ Requested(r.req, r.schema)
      /\ Budgeted("call", r.req, r.schema, r.plans, r.total, r.i) /\ Progress("call", r.req, r.i, r.ran)
      /\ Recorded(r.schema, r.plans, r.ran) /\ Headed(r.ran, r.cookies, r.merge)
      /\ Gated(r.running) /\ Attributed(r.running, r.attr, r.fills) /\ Staging(r)
  BY DEF UnderWay
<1> DEFINE a == AtHand(r)
           given == r.req.items[r.i].vars
           calls == r.ran[r.i]
           go == Goes(r)
           x == [op |-> u.op, seen |-> Seen(r, u), schema |-> r.plans[r.i].plan[1].schema,
                 result |-> NullData, outcome |-> "none"]
           y == [op |-> u.op, go |-> go, at |-> "bind"]
           running2 == With(r.running, u.path, y)
           calls2 == With(calls, u.path, x)
           ran2 == [r.ran EXCEPT ![r.i] = calls2]
<1>1. /\ Staged(r) = a /\ IsSequence(a.units)
      /\ \A j, l \in DOMAIN a.units : PathOf(a, j) = PathOf(a, l) => j = l
      /\ \A j \in DOMAIN a.units : a.units[j].op \in DOMAIN Operations
      /\ a.stage \in [DOMAIN a.units -> 1 .. Len(a.stages)]
      /\ r.i \in DOMAIN r.ran /\ r.i \in DOMAIN r.plans /\ Len(a.stages) \in Nat /\ r.n \in Nat
  BY DocumentAtHand
<1>2. /\ ValidPlan(r.plans[r.i]) /\ r.todo \subseteq UnitsAt(a, r.n)
      /\ Past(a, r.n, r.payloads, calls) /\ Called(a, r.n, CalledUnits(r), r.running, calls)
      /\ Given(a, given, calls)
      /\ Documents[r.plans[r.i].plan[1].doc].kind # "query" => OnGoroutines(r.running) = {}
  BY <1>0 DEF Staging
<1>3. k \in r.todo
  <2>1. UnitsAt(a, r.n) \subseteq Nat
    <3>1. DOMAIN a.units = 1 .. Len(a.units) /\ Len(a.units) \in Nat BY <1>1, SequenceShape
    <3> QED BY <3>1 DEF UnitsAt
  <2> QED BY <1>2, <2>1, LeastTodo
<1>4. k \in UnitsAt(a, r.n) /\ k \in DOMAIN a.units /\ k \notin CalledUnits(r) BY <1>2, <1>3 DEF CalledUnits, UnitsAt
<1>5. u = a.units[k] /\ u.path = PathOf(a, k) BY <1>1 DEF PathOf
<1>6. q = [r EXCEPT !.todo = r.todo \ {k}, !.running = running2, !.ran = ran2] BY <1>0 DEF RequestFields
<1>7. /\ DOMAIN x = CallFields /\ x.op = u.op /\ x.seen = Seen(r, u)
      /\ x.schema = r.plans[r.i].plan[1].schema /\ x.outcome = "none"
  BY DEF CallFields
<1>8. y.op = u.op /\ DOMAIN y = {"op", "go", "at"} /\ y.at = "bind" OBVIOUS
<1>9. RecordOK(r.schema, x)
  <2>1. PlanOK(r.schema, r.plans[r.i]) BY <1>0, <1>1 DEF Budgeted, PlansOK
  <2>2. x.schema = r.schema BY <1>2, <1>7, <2>1 DEF PlanOK, ValidPlan
  <2>3. x.op \in DOMAIN Operations BY <1>1, <1>4, <1>5, <1>7
  <2> HIDE DEF x
  <2> QED BY <1>7, <2>2, <2>3 DEF RecordOK
<1>10. \A v \in a.units[k].reads \cap DOMAIN given : x.seen[v] = given[v]
  <2>1. given = Item(r).vars BY DEF Item
  <2> HIDE DEF given, x
  <2> QED BY <1>5, <1>7, <2>1, SeenGiven
<1>11. \A j \in DOMAIN a.units : a.stage[j] \in Nat BY <1>1
<1>12. go \in BOOLEAN /\ (go => DocOf(r).kind = "query" /\ Cardinality(OnGoroutines(r.running)) < Parallel)
  <2>1. InFlight(r) = OnGoroutines(r.running) BY DEF InFlight, OnGoroutines
  <2> QED BY <2>1 DEF Goes
<1>12a. y.go = go OBVIOUS
<1>12b. y.go \in BOOLEAN /\ (y.go => DocOf(r).kind = "query" /\ Cardinality(OnGoroutines(r.running)) < Parallel)
  BY <1>12a, <1>12
<1>13. DOMAIN r.running \ OnGoroutines(r.running) = {} BY DEF InPlace, InFlight, OnGoroutines
<1>14. u.path \in PathsOf(r.schema, r.plans[r.i]) BY <1>4, <1>5 DEF PathsOf, AtHand, PathOf
<1> HIDE DEF a, given, calls, go, x, y, running2, calls2, ran2
<1>15. /\ u.path \notin DOMAIN calls /\ u.path \notin DOMAIN r.running
       /\ Past(a, r.n, r.payloads, calls2) /\ Called(a, r.n, CalledUnits(r) \cup {k}, running2, calls2)
       /\ Given(a, given, calls2)
  <2>1. x.op = y.op BY <1>7, <1>8
  <2>2. running2 = With(r.running, u.path, y) /\ calls2 = With(calls, u.path, x) BY DEF running2, calls2
  <2> DEFINE path == u.path
             called == CalledUnits(r)
             n == r.n
  <2>3. \A j, l \in DOMAIN a.units : PathOf(a, j) = PathOf(a, l) => j = l BY <1>1
  <2>4. Past(a, n, r.payloads, calls) /\ Called(a, n, called, r.running, calls) /\ Given(a, given, calls) BY <1>2
  <2>5. n \in Nat /\ k \in UnitsAt(a, n) /\ k \notin called /\ path = PathOf(a, k) BY <1>1, <1>4, <1>5
  <2>6. x.outcome = "none" BY <1>7
  <2>7. running2 = With(r.running, path, y) /\ calls2 = With(calls, path, x) BY <2>2
  <2> HIDE DEF path, called, n
  <2>8. /\ path \notin DOMAIN calls /\ path \notin DOMAIN r.running
        /\ Past(a, n, r.payloads, calls2) /\ Called(a, n, called \cup {k}, running2, calls2) /\ Given(a, given, calls2)
    BY <1>10, <1>11, <2>1, <2>3, <2>4, <2>5, <2>6, <2>7, CalledNext
  <2> QED BY <2>8 DEF path, called, n
<1>16. /\ Gated(running2) /\ Attributed(running2, r.attr, r.fills)
       /\ ~ y.go => OnGoroutines(running2) = OnGoroutines(r.running)
  <2>1. DOMAIN y = {"op", "go", "at"} /\ y.at = "bind" BY <1>8
  <2>2. running2 = With(r.running, u.path, y) BY DEF running2
  <2>3. y.go => Cardinality(OnGoroutines(r.running)) < Parallel BY <1>12b
  <2>4. y.go \in BOOLEAN BY <1>12b
  <2>5. u.path \notin DOMAIN r.running BY <1>15
  <2>6. Gated(r.running) /\ Attributed(r.running, r.attr, r.fills) BY <1>0
  <2> QED BY <1>13, <2>1, <2>2, <2>3, <2>4, <2>5, <2>6, CallStarts
<1>17. /\ IsSequence(ran2) /\ Len(ran2) = Len(r.ran) /\ ran2[r.i] = calls2
       /\ Recorded(r.schema, r.plans, ran2) /\ Headed(ran2, r.cookies, r.merge)
  <2>1. ran2 = [r.ran EXCEPT ![r.i] = With(r.ran[r.i], u.path, x)] BY DEF ran2, calls2, calls
  <2>2. u.path \notin DOMAIN r.ran[r.i] BY <1>15 DEF calls
  <2>3. IsSequence(r.ran) BY <1>0 DEF Progress
  <2>4. /\ IsSequence(ran2) /\ Len(ran2) = Len(r.ran) /\ ran2[r.i] = With(r.ran[r.i], u.path, x)
        /\ \A s, plans : /\ Recorded(s, plans, r.ran) /\ r.i \in DOMAIN plans /\ ValidPlan(plans[r.i])
                         /\ u.path \in PathsOf(s, plans[r.i]) /\ RecordOK(s, x)
                         => Recorded(s, plans, ran2)
        /\ \A cookies, merge : Headed(r.ran, cookies, merge) => Headed(ran2, cookies, merge)
    <3>1. r.i \in DOMAIN r.ran /\ x.outcome = "none" BY <1>1, <1>7
    <3> QED BY <2>1, <2>2, <2>3, <3>1, FurtherCall
  <2> QED BY <1>0, <1>1, <1>2, <1>9, <1>14, <2>4 DEF calls2, calls
<1>18. /\ DOMAIN q = RequestFields /\ q.pc = "call" /\ q.req = r.req /\ q.schema = r.schema
       /\ q.plans = r.plans /\ q.i = r.i /\ q.total = r.total /\ q.by = r.by /\ q.n = r.n /\ q.payloads = r.payloads
       /\ q.running = running2 /\ q.ran = ran2 /\ q.attr = r.attr /\ q.fills = r.fills
       /\ q.cookies = r.cookies /\ q.merge = r.merge /\ q.todo = r.todo \ {k}
  BY <1>0, <1>6 DEF RequestFields
<1>19. AtHand(q) = a /\ CalledUnits(q) = CalledUnits(r) \cup {k}
  <2>1. AtHand(q) = a BY <1>18 DEF AtHand, a
  <2>2. CalledUnits(r) = UnitsAt(a, r.n) \ r.todo BY DEF CalledUnits, a
  <2>3. CalledUnits(q) = UnitsAt(a, r.n) \ (r.todo \ {k}) BY <1>18, <2>1 DEF CalledUnits
  <2> QED BY <1>4, <2>1, <2>2, <2>3
<1>20. Documents[r.plans[r.i].plan[1].doc].kind # "query" => OnGoroutines(running2) = {}
  <2>1. DocOf(r).kind = Documents[r.plans[r.i].plan[1].doc].kind BY DEF DocOf, NameOf
  <2> QED BY <1>2, <1>12b, <1>16, <2>1
<1>21. Staging(q)
  <2>1. r.by = r.schema /\ a.stages # None /\ r.n \in 1 .. Len(a.stages) /\ IsSequence(r.payloads) /\ Len(r.payloads) + 1 = r.n
    BY <1>0 DEF Staging, a
  <2>2. q.by = q.schema /\ ValidPlan(q.plans[q.i]) BY <1>2, <1>18, <2>1
  <2>3. AtHand(q).stages # None /\ q.n \in 1 .. Len(AtHand(q).stages) BY <1>18, <1>19, <2>1
  <2>4. IsSequence(q.payloads) /\ Len(q.payloads) + 1 = q.n BY <1>18, <2>1
  <2>5. q.todo \subseteq UnitsAt(AtHand(q), q.n) BY <1>2, <1>18, <1>19
  <2>6. /\ Past(AtHand(q), q.n, q.payloads, q.ran[q.i])
        /\ Called(AtHand(q), q.n, CalledUnits(q), q.running, q.ran[q.i])
        /\ Given(AtHand(q), q.req.items[q.i].vars, q.ran[q.i])
    BY <1>15, <1>17, <1>18, <1>19 DEF given
  <2>7. Documents[q.plans[q.i].plan[1].doc].kind # "query" => OnGoroutines(q.running) = {} BY <1>18, <1>20
  <2> QED BY <2>2, <2>3, <2>4, <2>5, <2>6, <2>7 DEF Staging
<1>22. Progress("call", r.req, r.i, ran2) BY <1>0, <1>17 DEF Progress
<1> QED BY <1>0, <1>16, <1>17, <1>18, <1>21, <1>22 DEF UnderWay

\* A call goes on; which operation it is and where it runs stay the same.
LEMMA CallMoves ==
    ASSUME NEW running, Gated(running), NEW p \in DOMAIN running, NEW to \in {"fill", "wait", "handle"},
           NEW w, w = [running EXCEPT ![p].at = to]
    PROVE  /\ DOMAIN w = DOMAIN running /\ w[p].at = to
           /\ \A x \in DOMAIN running : w[x].op = running[x].op /\ w[x].go = running[x].go
           /\ \A x \in DOMAIN running : x # p => w[x] = running[x]
           /\ Gated(w) /\ OnGoroutines(w) = OnGoroutines(running)
<1>1. DOMAIN w = DOMAIN running /\ \A x \in DOMAIN running : x # p => w[x] = running[x] OBVIOUS
<1>2. w[p] = [running[p] EXCEPT !.at = to] OBVIOUS
<1>3. DOMAIN running[p] = {"op", "go", "at"} BY DEF Gated
<1>4. DOMAIN w[p] = {"op", "go", "at"} /\ w[p].at = to /\ w[p].op = running[p].op /\ w[p].go = running[p].go
  BY <1>2, <1>3
<1>5. \A x \in DOMAIN running : w[x].op = running[x].op /\ w[x].go = running[x].go BY <1>1, <1>4
<1>6. OnGoroutines(w) = OnGoroutines(running) BY <1>1, <1>5 DEF OnGoroutines
<1>7. Gated(w)
  <2>1. \A x \in DOMAIN w : DOMAIN w[x] = {"op", "go", "at"} /\ w[x].at \in {"bind", "fill", "wait", "handle"}
    BY <1>1, <1>4 DEF Gated
  <2>2. \A x \in DOMAIN w : w[x].go \in BOOLEAN BY <1>1, <1>5 DEF Gated
  <2>3. \A x, y \in DOMAIN w : ~ w[x].go /\ ~ w[y].go => x = y BY <1>1, <1>5 DEF Gated
  <2>4. IsFiniteSet(DOMAIN w) /\ Cardinality(OnGoroutines(w)) <= Parallel BY <1>1, <1>6 DEF Gated
  <2> QED BY <2>1, <2>2, <2>3, <2>4 DEF Gated
<1> QED BY <1>1, <1>4, <1>5, <1>6, <1>7

LEMMA MoveOK ==
    ASSUME NEW r, UnderWay(r), r.pc = "call", NEW p \in DOMAIN r.running, NEW to \in {"fill", "wait", "handle"},
           NEW w, w = [r.running EXCEPT ![p].at = to], NEW q, DOMAIN q = RequestFields, Attributed(w, q.attr, q.fills),
           q.pc = r.pc, q.req = r.req, q.schema = r.schema, q.plans = r.plans, q.total = r.total, q.i = r.i,
           q.by = r.by, q.n = r.n, q.todo = r.todo, q.running = w, q.payloads = r.payloads, q.ran = r.ran,
           q.cookies = r.cookies, q.merge = r.merge
    PROVE  UnderWay(q)
<1>0. /\ Requested(r.req, r.schema)
      /\ Budgeted("call", r.req, r.schema, r.plans, r.total, r.i) /\ Progress("call", r.req, r.i, r.ran)
      /\ Recorded(r.schema, r.plans, r.ran) /\ Headed(r.ran, r.cookies, r.merge)
      /\ Gated(r.running) /\ Staging(r)
  BY DEF UnderWay
<1>1. /\ DOMAIN w = DOMAIN r.running /\ Gated(w) /\ OnGoroutines(w) = OnGoroutines(r.running)
      /\ \A x \in DOMAIN r.running : w[x].op = r.running[x].op
  BY <1>0, CallMoves
<1>2. AtHand(q) = AtHand(r) BY DEF AtHand
<1>3. CalledUnits(q) = CalledUnits(r) BY <1>2 DEF CalledUnits
<1>4. Called(AtHand(r), r.n, CalledUnits(r), r.running, r.ran[r.i]) BY <1>0 DEF Staging
<1>5. Called(AtHand(r), r.n, CalledUnits(r), w, r.ran[r.i]) BY <1>1, <1>4 DEF Called
<1>6. Staging(q) BY <1>0, <1>1, <1>2, <1>3, <1>5 DEF Staging
<1> QED BY <1>0, <1>1, <1>6 DEF UnderWay

\* LockIfAbsentAndFill, and what comes after it.
LEMMA AttributeMoves ==
    ASSUME NEW running, Gated(running), NEW attr, NEW fills, Attributed(running, attr, fills), NEW p \in DOMAIN running
    PROVE  /\ running[p].at # "fill" => Attributed([running EXCEPT ![p].at = "handle"], attr, fills)
           /\ running[p].at = "fill" => Attributed([running EXCEPT ![p].at = "handle"], "ok", fills)
           /\ attr = "absent" => Attributed([running EXCEPT ![p].at = "fill"], "filling", fills + 1)
           /\ attr = "filling" /\ running[p].at # "fill" => Attributed([running EXCEPT ![p].at = "wait"], attr, fills)
<1>0. /\ attr \in {"absent", "filling", "ok", "failed"} /\ fills \in {0, 1} /\ (attr = "absent" => fills = 0)
      /\ attr = "filling" => \E x \in DOMAIN running : running[x].at = "fill"
      /\ \A x \in DOMAIN running : running[x].at = "fill" => attr = "filling"
      /\ \A x, y \in DOMAIN running : running[x].at = "fill" /\ running[y].at = "fill" => x = y
      /\ \A x \in DOMAIN running : running[x].at = "wait" => attr # "absent"
  BY DEF Attributed
<1>1. ASSUME NEW to \in {"fill", "wait", "handle"}, NEW w, w = [running EXCEPT ![p].at = to]
      PROVE  DOMAIN w = DOMAIN running /\ w[p].at = to /\ \A x \in DOMAIN running : x # p => w[x].at = running[x].at
  BY <1>1, CallMoves
<1>2. ASSUME running[p].at # "fill", NEW w, w = [running EXCEPT ![p].at = "handle"] PROVE Attributed(w, attr, fills)
  <2>1. DOMAIN w = DOMAIN running /\ w[p].at = "handle" /\ \A x \in DOMAIN running : x # p => w[x].at = running[x].at
    BY <1>1, <1>2
  <2> QED BY <1>0, <1>2, <2>1 DEF Attributed
<1>3. ASSUME running[p].at = "fill", NEW w, w = [running EXCEPT ![p].at = "handle"] PROVE Attributed(w, "ok", fills)
  <2>1. DOMAIN w = DOMAIN running /\ w[p].at = "handle" /\ \A x \in DOMAIN running : x # p => w[x].at = running[x].at
    BY <1>1, <1>3
  <2>2. \A x \in DOMAIN w : w[x].at # "fill" BY <1>0, <1>3, <2>1
  <2> QED BY <1>0, <2>1, <2>2 DEF Attributed
<1>4. ASSUME attr = "absent", NEW w, w = [running EXCEPT ![p].at = "fill"] PROVE Attributed(w, "filling", fills + 1)
  <2>1. DOMAIN w = DOMAIN running /\ w[p].at = "fill" /\ \A x \in DOMAIN running : x # p => w[x].at = running[x].at
    BY <1>1, <1>4
  <2>2. \A x \in DOMAIN w : w[x].at = "fill" => x = p BY <1>0, <1>4, <2>1
  <2>3. fills + 1 = 1 BY <1>0, <1>4
  <2> QED BY <2>1, <2>2, <2>3 DEF Attributed
<1>5. ASSUME attr = "filling", running[p].at # "fill", NEW w, w = [running EXCEPT ![p].at = "wait"]
      PROVE  Attributed(w, attr, fills)
  <2>1. DOMAIN w = DOMAIN running /\ w[p].at = "wait" /\ \A x \in DOMAIN running : x # p => w[x].at = running[x].at
    BY <1>1, <1>5
  <2>2. PICK x \in DOMAIN running : running[x].at = "fill" BY <1>0, <1>5
  <2>3. \E y \in DOMAIN w : w[y].at = "fill" BY <1>5, <2>1, <2>2
  <2> QED BY <1>0, <1>5, <2>1, <2>3 DEF Attributed
<1> QED BY <1>2, <1>3, <1>4, <1>5

\* A call ends.
LEMMA CallEnds ==
    ASSUME NEW running, Gated(running), NEW p \in DOMAIN running, NEW w, w = Without(running, p)
    PROVE  /\ DOMAIN w = DOMAIN running \ {p} /\ \A x \in DOMAIN w : w[x] = running[x]
           /\ Gated(w) /\ OnGoroutines(w) \subseteq OnGoroutines(running)
<1>1. DOMAIN w = DOMAIN running \ {p} /\ \A x \in DOMAIN w : w[x] = running[x] BY DEF Without
<1>2. OnGoroutines(w) \subseteq OnGoroutines(running) BY <1>1 DEF OnGoroutines
<1>3. Gated(w)
  <2>1. IsFiniteSet(DOMAIN w) BY <1>1, FS_Subset DEF Gated
  <2>2. IsFiniteSet(OnGoroutines(running))
    <3>1. OnGoroutines(running) \subseteq DOMAIN running BY DEF OnGoroutines
    <3> QED BY <3>1, FS_Subset DEF Gated
  <2>3. IsFiniteSet(OnGoroutines(w)) /\ Cardinality(OnGoroutines(w)) <= Cardinality(OnGoroutines(running))
    BY <1>2, <2>2, FS_Subset
  <2>4. /\ Cardinality(OnGoroutines(w)) \in Nat /\ Cardinality(OnGoroutines(running)) \in Nat /\ Parallel \in Nat
    BY <2>2, <2>3, FS_CardinalityType, SentAssumption
  <2>5. Cardinality(OnGoroutines(w)) <= Parallel
    <3>1. Cardinality(OnGoroutines(running)) <= Parallel BY DEF Gated
    <3> QED BY <2>3, <2>4, <3>1
  <2>6. \A x \in DOMAIN w : /\ DOMAIN w[x] = {"op", "go", "at"} /\ w[x].go \in BOOLEAN
                            /\ w[x].at \in {"bind", "fill", "wait", "handle"}
    BY <1>1 DEF Gated
  <2>7. \A x, y \in DOMAIN w : ~ w[x].go /\ ~ w[y].go => x = y BY <1>1 DEF Gated
  <2> QED BY <2>1, <2>5, <2>6, <2>7 DEF Gated
<1> QED BY <1>1, <1>2, <1>3

LEMMA AttributeKept ==
    ASSUME NEW running, Gated(running), NEW attr, NEW fills, Attributed(running, attr, fills), NEW p \in DOMAIN running,
           running[p].at # "fill"
    PROVE  Attributed(Without(running, p), attr, fills)
<1> DEFINE w == Without(running, p)
<1>1. w = Without(running, p) OBVIOUS
<1>2. DOMAIN w = DOMAIN running \ {p} /\ \A x \in DOMAIN w : w[x] = running[x] BY DEF Without
<1> HIDE DEF w
<1>3. /\ attr \in {"absent", "filling", "ok", "failed"} /\ fills \in {0, 1} /\ (attr = "absent" => fills = 0)
      /\ attr = "filling" => \E x \in DOMAIN running : running[x].at = "fill"
      /\ \A x \in DOMAIN running : running[x].at = "fill" => attr = "filling"
      /\ \A x, y \in DOMAIN running : running[x].at = "fill" /\ running[y].at = "fill" => x = y
      /\ \A x \in DOMAIN running : running[x].at = "wait" => attr # "absent"
  BY DEF Attributed
<1>4. attr = "filling" => \E x \in DOMAIN w : w[x].at = "fill" BY <1>2, <1>3
<1>5. Attributed(w, attr, fills) BY <1>2, <1>3, <1>4 DEF Attributed
<1> QED BY <1>1, <1>5

LEMMA AttributeFails ==
    ASSUME NEW running, Gated(running), NEW attr, NEW fills, Attributed(running, attr, fills), NEW p \in DOMAIN running,
           running[p].at = "fill"
    PROVE  Attributed(Without(running, p), "failed", fills)
<1> DEFINE w == Without(running, p)
<1>1. w = Without(running, p) OBVIOUS
<1>2. DOMAIN w = DOMAIN running \ {p} /\ \A x \in DOMAIN w : w[x] = running[x] BY DEF Without
<1> HIDE DEF w
<1>3. /\ fills \in {0, 1} /\ \A x, y \in DOMAIN running : running[x].at = "fill" /\ running[y].at = "fill" => x = y
  BY DEF Attributed
<1>4. \A x \in DOMAIN w : w[x].at # "fill" BY <1>2, <1>3
<1>5. Attributed(w, "failed", fills) BY <1>2, <1>3, <1>4 DEF Attributed
<1> QED BY <1>1, <1>5

\* ... and its outcome is recorded, with its cookies and its headers.
LEMMA OutcomeRecorded ==
    ASSUME NEW s, NEW plans, NEW ran, IsSequence(ran), Recorded(s, plans, ran),
           NEW cookies, NEW merge, Headed(ran, cookies, merge),
           NEW i \in DOMAIN ran, NEW p \in DOMAIN ran[i], ran[i][p].outcome = "none",
           NEW y, DOMAIN y = CallFields, y.op = ran[i][p].op, y.schema = ran[i][p].schema,
           NEW calls, DOMAIN calls = DOMAIN ran[i], calls[p] = y, \A x \in DOMAIN calls : x # p => calls[x] = ran[i][x],
           NEW cookies2, IsSequence(cookies2),
           ToSet(cookies2) = ToSet(cookies) \cup (IF y.outcome = "ok" THEN ToSet(Operations[y.op].cookies) ELSE {}),
           NEW merge2, MergeOK(merge2), \A x : Covers(merge, x) /\ x.op \in DOMAIN Operations => Covers(merge2, x),
           Covers(merge2, y), NEW t, t = [ran EXCEPT ![i] = calls]
    PROVE  IsSequence(t) /\ Len(t) = Len(ran) /\ t[i] = calls /\ Recorded(s, plans, t) /\ Headed(t, cookies2, merge2)
<1>1. /\ IsSequence(t) /\ Len(t) = Len(ran) /\ DOMAIN t = DOMAIN ran
      /\ t[i] = calls /\ \A j \in DOMAIN ran : j # i => t[j] = ran[j]
  <2>1. PICK X : ran \in Seq(X) BY DEF IsSequence
  <2>2. X \subseteq X \cup {calls} /\ calls \in X \cup {calls} OBVIOUS
  <2>3. ran \in Seq(X \cup {calls}) BY <2>1, <2>2
  <2>4. t \in Seq(X \cup {calls}) /\ Len(t) = Len(ran) BY <2>2, <2>3, ExceptSeq
  <2>5. IsSequence(t) /\ DOMAIN t = DOMAIN ran BY <2>1, <2>4 DEF IsSequence
  <2> QED BY <2>4, <2>5
<1>2. \A j \in DOMAIN ran : \A x \in DOMAIN ran[j] : /\ j \in DOMAIN plans /\ ValidPlan(plans[j])
                                                     /\ x \in PathsOf(s, plans[j]) /\ RecordOK(s, ran[j][x])
  BY DEF Recorded
<1>3. \A j \in DOMAIN t : DOMAIN t[j] = DOMAIN ran[j] BY <1>1
<1>4. \A j \in DOMAIN t : \A x \in DOMAIN t[j] : t[j][x] = ran[j][x] \/ (j = i /\ x = p /\ t[j][x] = y) BY <1>1
<1>5. RecordOK(s, y) BY <1>2 DEF RecordOK
<1>6. Recorded(s, plans, t)
  <2>1. SUFFICES ASSUME NEW j \in DOMAIN t
                 PROVE  /\ t[j] = <<>> \/ (j \in DOMAIN plans /\ ValidPlan(plans[j]))
                        /\ \A x \in DOMAIN t[j] : /\ j \in DOMAIN plans /\ ValidPlan(plans[j])
                                                  /\ x \in PathsOf(s, plans[j]) /\ RecordOK(s, t[j][x])
    BY DEF Recorded
  <2>2. \A x \in DOMAIN t[j] : /\ j \in DOMAIN plans /\ ValidPlan(plans[j])
                               /\ x \in PathsOf(s, plans[j]) /\ RecordOK(s, t[j][x])
    BY <1>1, <1>2, <1>3, <1>4, <1>5
  <2>3. t[j] = <<>> \/ (j \in DOMAIN plans /\ ValidPlan(plans[j]))
    <3>1. CASE j = i BY <1>2, <3>1
    <3>2. CASE j # i BY <1>1, <3>2 DEF Recorded
    <3> QED BY <3>1, <3>2
  <2> QED BY <2>2, <2>3
<1>7. ASSUME NEW j \in DOMAIN t, NEW x \in DOMAIN t[j]
      PROVE  /\ Covers(merge2, t[j][x])
             /\ t[j][x].outcome = "ok" => ToSet(Operations[t[j][x].op].cookies) \subseteq ToSet(cookies2)
  <2>1. CASE t[j][x] = y
    <3>1. y.outcome = "ok" => ToSet(Operations[y.op].cookies) \subseteq ToSet(cookies2) OBVIOUS
    <3> QED BY <2>1, <3>1
  <2>2. CASE t[j][x] = ran[j][x]
    <3>1. x \in DOMAIN ran[j] /\ j \in DOMAIN ran BY <1>1, <1>3
    <3>2. ran[j][x].op \in DOMAIN Operations BY <1>2, <3>1 DEF RecordOK
    <3>3. Covers(merge, ran[j][x]) BY <3>1 DEF Headed
    <3>4. Covers(merge2, ran[j][x]) BY <3>2, <3>3
    <3>5. ran[j][x].outcome = "ok" => ToSet(Operations[ran[j][x].op].cookies) \subseteq ToSet(cookies)
      BY <3>1 DEF Headed
    <3> QED BY <2>2, <3>4, <3>5
  <2> QED BY <1>4, <2>1, <2>2
<1>8. ASSUME NEW c \in ToSet(cookies2)
      PROVE  \E j \in DOMAIN t : \E x \in DOMAIN t[j] :
                 t[j][x].outcome = "ok" /\ c \in ToSet(Operations[t[j][x].op].cookies)
  <2>1. CASE c \in ToSet(cookies)
    <3>1. PICK j \in DOMAIN ran : \E x \in DOMAIN ran[j] :
                   ran[j][x].outcome = "ok" /\ c \in ToSet(Operations[ran[j][x].op].cookies)
      BY <2>1 DEF Headed
    <3>2. PICK x \in DOMAIN ran[j] : ran[j][x].outcome = "ok" /\ c \in ToSet(Operations[ran[j][x].op].cookies)
      BY <3>1
    <3>3. ~(j = i /\ x = p) BY <3>2
    <3>4. j \in DOMAIN t /\ x \in DOMAIN t[j] /\ t[j][x] = ran[j][x] BY <1>1, <1>3, <1>4, <3>3
    <3> QED BY <3>2, <3>4
  <2>2. CASE c \notin ToSet(cookies)
    <3>1. y.outcome = "ok" /\ c \in ToSet(Operations[y.op].cookies) BY <1>8, <2>2
    <3>2. i \in DOMAIN t /\ p \in DOMAIN t[i] /\ t[i][p] = y BY <1>1
    <3> QED BY <3>1, <3>2
  <2> QED BY <2>1, <2>2
<1>9. Headed(t, cookies2, merge2) BY <1>7, <1>8 DEF Headed
<1> QED BY <1>1, <1>6, <1>9

LEMMA OutcomeInStage ==
    ASSUME NEW a, NEW n, NEW called, NEW running, NEW calls, NEW payloads, NEW given,
           Past(a, n, payloads, calls), Called(a, n, called, running, calls), Given(a, given, calls),
           NEW p \in DOMAIN running, NEW running2, DOMAIN running2 = DOMAIN running \ {p},
           \A x \in DOMAIN running2 : running2[x] = running[x],
           NEW calls2, DOMAIN calls2 = DOMAIN calls, \A x \in DOMAIN calls : x # p => calls2[x] = calls[x],
           calls2[p].outcome # "none", calls2[p].seen = calls[p].seen
    PROVE  /\ Past(a, n, payloads, calls2) /\ Called(a, n, called, running2, calls2) /\ Given(a, given, calls2)
<1>1. Past(a, n, payloads, calls2)
  <2>1. SUFFICES ASSUME NEW k \in DOMAIN a.units, a.stage[k] < n PROVE StageOver(a, payloads, calls2, k) BY DEF Past
  <2>2. StageOver(a, payloads, calls, k) BY <2>1 DEF Past
  <2>3. CASE PathOf(a, k) = p /\ p \in DOMAIN calls BY <2>3 DEF StageOver
  <2>4. CASE ~(PathOf(a, k) = p /\ p \in DOMAIN calls) BY <2>2, <2>4 DEF StageOver
  <2> QED BY <2>3, <2>4
<1>2. \A x \in DOMAIN running2 :
          /\ \E k \in called : PathOf(a, k) = x
          /\ x \in DOMAIN calls2 /\ calls2[x].outcome = "none" /\ calls2[x].op = running2[x].op
  BY DEF Called
<1>3. ASSUME NEW k \in called
      PROVE  /\ PathOf(a, k) \in DOMAIN calls2
             /\ PathOf(a, k) \in DOMAIN running2 \/ calls2[PathOf(a, k)].outcome # "none"
  <2>1. PathOf(a, k) \in DOMAIN calls2 BY DEF Called
  <2>2. CASE PathOf(a, k) = p BY <2>1, <2>2
  <2>3. CASE PathOf(a, k) # p BY <2>1, <2>3 DEF Called
  <2> QED BY <2>1, <2>2, <2>3
<1>4. Called(a, n, called, running2, calls2) BY <1>2, <1>3 DEF Called
<1>5. Given(a, given, calls2)
  <2>1. \A x \in DOMAIN calls2 : calls2[x].seen = calls[x].seen OBVIOUS
  <2> QED BY <2>1 DEF Given
<1> QED BY <1>1, <1>4, <1>5

\* What is left of request r in q once its call p is over with an outcome; the
\* attribute is another matter.
CallOver(r, p, outcome, calls, q) ==
    /\ DOMAIN q = RequestFields /\ q.pc = r.pc /\ q.req = r.req /\ q.schema = r.schema /\ q.plans = r.plans
    /\ q.total = r.total /\ q.i = r.i /\ q.by = r.by /\ q.n = r.n /\ q.todo = r.todo /\ q.payloads = r.payloads
    /\ q.fills = r.fills /\ q.running = Without(r.running, p)
    /\ outcome = "ok" => q.cookies = r.cookies \o Operations[r.running[p].op].cookies
    /\ outcome # "ok" => q.cookies = r.cookies
    /\ outcome \in {"ok", "error"} =>
           \E failed \in BOOLEAN : /\ failed <=> outcome # "ok"
                                   /\ q.merge = Observe(r.merge, failed, Operations[r.running[p].op].headers)
    /\ outcome \notin {"ok", "error"} => q.merge = r.merge
    /\ q.ran = [r.ran EXCEPT ![r.i] = calls]
    /\ DOMAIN calls = DOMAIN r.ran[r.i]
    /\ \A x \in DOMAIN calls : x # p => calls[x] = r.ran[r.i][x]
    /\ DOMAIN calls[p] = CallFields /\ calls[p].op = r.ran[r.i][p].op /\ calls[p].schema = r.ran[r.i][p].schema
    /\ calls[p].seen = r.ran[r.i][p].seen /\ calls[p].outcome = outcome

LEMMA ReturnedFields ==
    ASSUME NEW r, UnderWay(r), r.pc = "call", NEW p \in DOMAIN r.running, NEW outcome, NEW q, q = Returned(r, p, outcome)
    PROVE  q.attr = r.attr /\ \E calls : CallOver(r, p, outcome, calls, q)
<1>0. DOMAIN r = RequestFields BY DEF UnderWay
<1>1. r.i \in DOMAIN r.ran BY DocumentAtHand
<1>2. p \in DOMAIN r.ran[r.i] /\ DOMAIN r.ran[r.i][p] = CallFields
  <2>1. p \in DOMAIN r.ran[r.i] BY DEF UnderWay, Staging, Called
  <2>2. RecordOK(r.schema, r.ran[r.i][p]) BY <1>1, <2>1 DEF UnderWay, Recorded
  <2> QED BY <2>1, <2>2 DEF RecordOK
<1> DEFINE op == Operations[r.running[p].op]
           v == IF outcome = "ok" THEN op.result ELSE NullData
           x0 == [r.ran[r.i][p] EXCEPT !.result = v, !.outcome = outcome]
           c0 == [r.ran[r.i] EXCEPT ![p] = x0]
           ran == [r.ran EXCEPT ![r.i] = c0]
<1>3. /\ DOMAIN x0 = CallFields /\ x0.op = r.ran[r.i][p].op /\ x0.schema = r.ran[r.i][p].schema
      /\ x0.seen = r.ran[r.i][p].seen /\ x0.outcome = outcome
  BY <1>2 DEF CallFields
<1>4. q.ran = ran BY <1>0, <1>1, <1>2 DEF Returned, RequestFields
<1>5. /\ DOMAIN q = RequestFields /\ q.pc = r.pc /\ q.req = r.req /\ q.schema = r.schema /\ q.plans = r.plans
      /\ q.total = r.total /\ q.i = r.i /\ q.by = r.by /\ q.n = r.n /\ q.todo = r.todo /\ q.payloads = r.payloads
      /\ q.attr = r.attr /\ q.fills = r.fills
  BY <1>0 DEF Returned, RequestFields
<1>6. q.running = Without(r.running, p) BY <1>0 DEF Returned, RequestFields
<1>7. /\ outcome = "ok" => q.cookies = r.cookies \o op.cookies
      /\ outcome # "ok" => q.cookies = r.cookies
  BY <1>0 DEF Returned, RequestFields
<1>8. outcome \notin {"ok", "error"} => q.merge = r.merge BY <1>0 DEF Returned, RequestFields
<1>9. ASSUME outcome \in {"ok", "error"}
      PROVE  \E failed \in BOOLEAN : (failed <=> outcome # "ok") /\ q.merge = Observe(r.merge, failed, op.headers)
  <2>1. q.merge = Observe(r.merge, ~(outcome = "ok"), op.headers) BY <1>0, <1>9 DEF Returned, RequestFields
  <2>2. (~(outcome = "ok")) \in BOOLEAN OBVIOUS
  <2> QED BY <2>1, <2>2
<1> HIDE DEF x0
<1>10. DOMAIN c0 = DOMAIN r.ran[r.i] /\ c0[p] = x0 /\ \A x \in DOMAIN c0 : x # p => c0[x] = r.ran[r.i][x]
  BY <1>2
<1> HIDE DEF c0
<1> DEFINE calls == c0
<1>11. calls[p] = x0 BY <1>10
<1>12. q.ran = [r.ran EXCEPT ![r.i] = calls] BY <1>4
<1>13. /\ DOMAIN calls = DOMAIN r.ran[r.i] /\ \A x \in DOMAIN calls : x # p => calls[x] = r.ran[r.i][x]
  BY <1>10
<1>14. /\ DOMAIN calls[p] = CallFields /\ calls[p].op = r.ran[r.i][p].op /\ calls[p].schema = r.ran[r.i][p].schema
       /\ calls[p].seen = r.ran[r.i][p].seen /\ calls[p].outcome = outcome
  BY <1>3, <1>11
<1> HIDE DEF calls
<1>15. CallOver(r, p, outcome, calls, q) BY <1>5, <1>6, <1>7, <1>8, <1>9, <1>12, <1>13, <1>14 DEF CallOver
<1> QED BY <1>5, <1>15

LEMMA ReturnedWith ==
    ASSUME NEW r, UnderWay(r), r.pc = "call", NEW p \in DOMAIN r.running,
           NEW outcome \in {"ok", "error", "panic", "unbound"}, NEW calls, NEW q, CallOver(r, p, outcome, calls, q),
           Attributed(Without(r.running, p), q.attr, q.fills)
    PROVE  UnderWay(q)
<1>0. /\ Requested(r.req, r.schema)
      /\ Budgeted("call", r.req, r.schema, r.plans, r.total, r.i) /\ Progress("call", r.req, r.i, r.ran)
      /\ Recorded(r.schema, r.plans, r.ran) /\ Headed(r.ran, r.cookies, r.merge)
      /\ Gated(r.running) /\ Attributed(r.running, r.attr, r.fills) /\ Staging(r)
  BY DEF UnderWay
<1> DEFINE a == AtHand(r)
           running == Without(r.running, p)
           y == calls[p]
           o == r.running[p].op
<1>1. /\ DOMAIN q = RequestFields /\ q.pc = r.pc /\ q.req = r.req /\ q.schema = r.schema /\ q.plans = r.plans
      /\ q.total = r.total /\ q.i = r.i /\ q.by = r.by /\ q.n = r.n /\ q.todo = r.todo /\ q.payloads = r.payloads
      /\ q.running = running
  BY DEF CallOver
<1>2. /\ outcome = "ok" => q.cookies = r.cookies \o Operations[o].cookies
      /\ outcome # "ok" => q.cookies = r.cookies
  BY DEF CallOver
<1>3. /\ outcome \in {"ok", "error"} =>
             \E failed \in BOOLEAN : (failed <=> outcome # "ok") /\ q.merge = Observe(r.merge, failed, Operations[o].headers)
      /\ outcome \notin {"ok", "error"} => q.merge = r.merge
  BY DEF CallOver
<1>4. /\ q.ran = [r.ran EXCEPT ![r.i] = calls]
      /\ DOMAIN calls = DOMAIN r.ran[r.i] /\ \A x \in DOMAIN calls : x # p => calls[x] = r.ran[r.i][x]
      /\ DOMAIN y = CallFields /\ y.op = r.ran[r.i][p].op /\ y.schema = r.ran[r.i][p].schema
      /\ y.seen = r.ran[r.i][p].seen /\ y.outcome = outcome
  BY DEF CallOver
<1>5. /\ r.by = r.schema /\ ValidPlan(r.plans[r.i]) /\ a.stages # None /\ r.n \in 1 .. Len(a.stages)
      /\ IsSequence(r.payloads) /\ Len(r.payloads) + 1 = r.n /\ r.todo \subseteq UnitsAt(a, r.n)
      /\ Past(a, r.n, r.payloads, r.ran[r.i]) /\ Called(a, r.n, CalledUnits(r), r.running, r.ran[r.i])
      /\ Given(a, r.req.items[r.i].vars, r.ran[r.i])
      /\ Documents[r.plans[r.i].plan[1].doc].kind # "query" => OnGoroutines(r.running) = {}
  BY <1>0 DEF Staging
<1>6. r.i \in DOMAIN r.ran BY DocumentAtHand
<1> HIDE DEF a, y, o, running
<1>7. p \in DOMAIN r.ran[r.i] /\ r.ran[r.i][p].outcome = "none" /\ r.ran[r.i][p].op = o BY <1>5 DEF Called, o
<1>8. y = calls[p] /\ y.op = o BY <1>4, <1>7 DEF y
<1>9. o \in DOMAIN Operations
  <2>1. RecordOK(r.schema, r.ran[r.i][p]) BY <1>0, <1>6, <1>7 DEF Recorded
  <2> QED BY <1>7, <2>1 DEF RecordOK
<1>10. /\ DOMAIN running = DOMAIN r.running \ {p} /\ \A x \in DOMAIN running : running[x] = r.running[x]
       /\ Gated(running) /\ OnGoroutines(running) \subseteq OnGoroutines(r.running)
  <2>1. running = Without(r.running, p) BY DEF running
  <2>2. Gated(r.running) BY <1>0
  <2>3. DOMAIN running = DOMAIN r.running \ {p} /\ \A x \in DOMAIN running : running[x] = r.running[x]
    BY <2>1, <2>2, CallEnds
  <2>4. OnGoroutines(running) \subseteq OnGoroutines(r.running) BY <2>3 DEF OnGoroutines
  <2>5. Gated(running) BY ONLY <2>1, <2>2, p \in DOMAIN r.running, CallEnds
  <2> QED BY <2>3, <2>4, <2>5
<1>11. /\ Past(a, r.n, r.payloads, calls) /\ Called(a, r.n, CalledUnits(r), running, calls)
       /\ Given(a, r.req.items[r.i].vars, calls)
  <2> DEFINE calls1 == r.ran[r.i]
             given == r.req.items[r.i].vars
             called == CalledUnits(r)
             n == r.n
  <2>1. Past(a, n, r.payloads, calls1) /\ Called(a, n, called, r.running, calls1) /\ Given(a, given, calls1) BY <1>5
  <2>2. /\ DOMAIN calls = DOMAIN calls1 /\ \A x \in DOMAIN calls1 : x # p => calls[x] = calls1[x]
        /\ calls[p].outcome # "none" /\ calls[p].seen = calls1[p].seen
    BY <1>4, <1>8
  <2> HIDE DEF calls1, given, called, n
  <2>3. DOMAIN running = DOMAIN r.running \ {p} /\ \A x \in DOMAIN running : running[x] = r.running[x] BY <1>10
  <2>4. Past(a, n, r.payloads, calls) BY ONLY <2>1, <2>2, <2>3, p \in DOMAIN r.running, OutcomeInStage
  <2>5. Called(a, n, called, running, calls) BY ONLY <2>1, <2>2, <2>3, p \in DOMAIN r.running, OutcomeInStage
  <2>6. Given(a, given, calls) BY ONLY <2>1, <2>2, <2>3, p \in DOMAIN r.running, OutcomeInStage
  <2> QED BY <2>4, <2>5, <2>6 DEF given, called, n
<1>12. IsSequence(r.cookies) /\ MergeOK(r.merge) /\ IsSequence(r.ran) BY <1>0 DEF Headed, Progress
<1>13. /\ IsSequence(q.cookies)
       /\ ToSet(q.cookies) = ToSet(r.cookies) \cup (IF y.outcome = "ok" THEN ToSet(Operations[y.op].cookies) ELSE {})
  <2>1. CASE outcome = "ok"
    <3>1. IsSequence(Operations[o].cookies) BY <1>9, OperationsAssumption DEF IsSequence
    <3>2. q.cookies = r.cookies \o Operations[o].cookies BY <1>2, <2>1
    <3>3. IsSequence(q.cookies) /\ ToSet(q.cookies) = ToSet(r.cookies) \cup ToSet(Operations[o].cookies)
      BY <1>12, <3>1, <3>2, SequenceConcat
    <3> QED BY <1>4, <1>8, <2>1, <3>3
  <2>2. CASE outcome # "ok" BY <1>2, <1>4, <1>12, <2>2
  <2> QED BY <2>1, <2>2
<1>14. /\ MergeOK(q.merge) /\ Covers(q.merge, y)
       /\ \A x : Covers(r.merge, x) /\ x.op \in DOMAIN Operations => Covers(q.merge, x)
  <2>1. CASE outcome \in {"ok", "error"}
    <3>1. PICK failed \in BOOLEAN : (failed <=> outcome # "ok") /\ q.merge = Observe(r.merge, failed, Operations[o].headers)
      BY <1>3, <2>1
    <3>2. y.outcome = (IF failed THEN "error" ELSE "ok") BY <1>4, <2>1, <3>1
    <3>3. /\ MergeOK(Observe(r.merge, failed, Operations[o].headers))
          /\ \A x : Covers(r.merge, x) /\ x.op \in DOMAIN Operations => Covers(Observe(r.merge, failed, Operations[o].headers), x)
          /\ \A x : x.op = o /\ x.outcome = (IF failed THEN "error" ELSE "ok")
                       => Covers(Observe(r.merge, failed, Operations[o].headers), x)
      BY <1>9, <1>12, ObserveOK
    <3> QED BY <1>8, <3>1, <3>2, <3>3
  <2>2. CASE outcome \notin {"ok", "error"}
    <3>1. q.merge = r.merge BY <1>3, <2>2
    <3>2. Covers(r.merge, y) BY <1>4, <2>2 DEF Covers
    <3> QED BY <1>12, <3>1, <3>2
  <2> QED BY <2>1, <2>2
<1>15. /\ IsSequence(q.ran) /\ Len(q.ran) = Len(r.ran) /\ q.ran[r.i] = calls
       /\ Recorded(r.schema, r.plans, q.ran) /\ Headed(q.ran, q.cookies, q.merge)
  <2> DEFINE i == r.i
             ran == r.ran
  <2>1. IsSequence(ran) /\ Recorded(r.schema, r.plans, ran) /\ Headed(ran, r.cookies, r.merge) BY <1>0, <1>12
  <2>2. i \in DOMAIN ran /\ p \in DOMAIN ran[i] /\ ran[i][p].outcome = "none" BY <1>6, <1>7
  <2>3. DOMAIN y = CallFields /\ y.op = ran[i][p].op /\ y.schema = ran[i][p].schema BY <1>4
  <2>4. DOMAIN calls = DOMAIN ran[i] /\ calls[p] = y /\ \A x \in DOMAIN calls : x # p => calls[x] = ran[i][x] BY <1>4, <1>8
  <2>5. q.ran = [ran EXCEPT ![i] = calls] BY <1>4
  <2> HIDE DEF i, ran
  <2>6. /\ IsSequence(q.ran) /\ Len(q.ran) = Len(ran) /\ q.ran[i] = calls
        /\ Recorded(r.schema, r.plans, q.ran) /\ Headed(q.ran, q.cookies, q.merge)
    BY <1>13, <1>14, <2>1, <2>2, <2>3, <2>4, <2>5, OutcomeRecorded
  <2> QED BY <2>6 DEF i, ran
<1>16. AtHand(q) = a BY <1>1 DEF AtHand, a
<1>17. CalledUnits(q) = CalledUnits(r) BY <1>1, <1>16 DEF CalledUnits, a
<1>18. Staging(q)
  <2>1. q.by = q.schema /\ ValidPlan(q.plans[q.i]) BY <1>1, <1>5
  <2>2. AtHand(q).stages # None /\ q.n \in 1 .. Len(AtHand(q).stages) BY <1>1, <1>5, <1>16
  <2>3. IsSequence(q.payloads) /\ Len(q.payloads) + 1 = q.n BY <1>1, <1>5
  <2>4. q.todo \subseteq UnitsAt(AtHand(q), q.n) BY <1>1, <1>5, <1>16
  <2>5. /\ Past(AtHand(q), q.n, q.payloads, q.ran[q.i])
        /\ Called(AtHand(q), q.n, CalledUnits(q), q.running, q.ran[q.i])
        /\ Given(AtHand(q), q.req.items[q.i].vars, q.ran[q.i])
    BY <1>1, <1>11, <1>15, <1>16, <1>17
  <2>6. Documents[q.plans[q.i].plan[1].doc].kind # "query" => OnGoroutines(q.running) = {} BY <1>1, <1>5, <1>10
  <2> QED BY <2>1, <2>2, <2>3, <2>4, <2>5, <2>6 DEF Staging
<1>19. Progress("call", r.req, r.i, q.ran) BY <1>0, <1>15 DEF Progress
<1>20. Attributed(running, q.attr, q.fills) BY DEF running
<1> QED BY <1>0, <1>1, <1>10, <1>15, <1>18, <1>19, <1>20 DEF UnderWay

\* A call that did not fill the attribute returns.
LEMMA ReturnedOK ==
    ASSUME NEW r, UnderWay(r), r.pc = "call", NEW p \in DOMAIN r.running, r.running[p].at # "fill",
           NEW outcome \in {"ok", "error", "panic", "unbound"}, NEW q, q = Returned(r, p, outcome)
    PROVE  UnderWay(q)
<1>1. Gated(r.running) /\ Attributed(r.running, r.attr, r.fills) BY DEF UnderWay
<1>2. Attributed(Without(r.running, p), r.attr, r.fills) BY <1>1, AttributeKept
<1>3. q.attr = r.attr /\ \E calls : CallOver(r, p, outcome, calls, q) BY ReturnedFields
<1>4. PICK calls : CallOver(r, p, outcome, calls, q) BY <1>3
<1>5. q.fills = r.fills BY <1>4 DEF CallOver
<1>6. Attributed(Without(r.running, p), q.attr, q.fills) BY <1>2, <1>3, <1>5
<1> QED BY <1>4, <1>6, ReturnedWith

\* What moving call p of r to another point does to its record.
LEMMA AtFields ==
    ASSUME NEW r, UnderWay(r), r.pc = "call", NEW p \in DOMAIN r.running, NEW to, NEW q, q = At(r, p, to)
    PROVE  /\ DOMAIN q = RequestFields /\ q.running = [r.running EXCEPT ![p].at = to]
           /\ q.pc = r.pc /\ q.req = r.req /\ q.schema = r.schema /\ q.plans = r.plans /\ q.total = r.total /\ q.i = r.i
           /\ q.by = r.by /\ q.n = r.n /\ q.todo = r.todo /\ q.payloads = r.payloads /\ q.ran = r.ran
           /\ q.cookies = r.cookies /\ q.merge = r.merge /\ q.attr = r.attr /\ q.fills = r.fills
<1>1. DOMAIN r = RequestFields BY DEF UnderWay
<1> QED BY <1>1 DEF At, RequestFields

LEMMA HandleOK ==
    ASSUME NEW r, UnderWay(r), r.pc = "call", NEW p \in DOMAIN r.running, r.running[p].at # "fill",
           NEW q, q = At(r, p, "handle")
    PROVE  UnderWay(q)
<1>1. Gated(r.running) /\ Attributed(r.running, r.attr, r.fills) BY DEF UnderWay
<1> DEFINE w == [r.running EXCEPT ![p].at = "handle"]
<1>2. Attributed(w, r.attr, r.fills) BY <1>1, AttributeMoves
<1>3. /\ DOMAIN q = RequestFields /\ q.running = w
      /\ q.pc = r.pc /\ q.req = r.req /\ q.schema = r.schema /\ q.plans = r.plans /\ q.total = r.total /\ q.i = r.i
      /\ q.by = r.by /\ q.n = r.n /\ q.todo = r.todo /\ q.payloads = r.payloads /\ q.ran = r.ran
      /\ q.cookies = r.cookies /\ q.merge = r.merge /\ q.attr = r.attr /\ q.fills = r.fills
  BY AtFields
<1>4. Attributed(w, q.attr, q.fills) BY <1>2, <1>3
<1>5. w = [r.running EXCEPT ![p].at = "handle"] OBVIOUS
<1> HIDE DEF w
<1> QED BY <1>3, <1>4, <1>5, MoveOK

\* LockIfAbsentAndFill.
LEMMA SessionOK ==
    ASSUME NEW r, UnderWay(r), r.pc = "call", NEW p \in DOMAIN r.running, r.running[p].at = "bind",
           NEW q, q = Session(r, p)
    PROVE  UnderWay(q)
<1>1. Gated(r.running) /\ Attributed(r.running, r.attr, r.fills) BY DEF UnderWay
<1>2. r.attr \in {"absent", "filling", "ok", "failed"} BY <1>1 DEF Attributed
<1>3. CASE r.attr = "absent"
  <2> DEFINE w == [r.running EXCEPT ![p].at = "fill"]
             z == At(r, p, "fill")
  <2>1. Attributed(w, "filling", r.fills + 1) BY <1>1, <1>3, AttributeMoves
  <2>2. /\ DOMAIN z = RequestFields /\ z.running = w
        /\ z.pc = r.pc /\ z.req = r.req /\ z.schema = r.schema /\ z.plans = r.plans /\ z.total = r.total /\ z.i = r.i
        /\ z.by = r.by /\ z.n = r.n /\ z.todo = r.todo /\ z.payloads = r.payloads /\ z.ran = r.ran
        /\ z.cookies = r.cookies /\ z.merge = r.merge /\ z.attr = r.attr /\ z.fills = r.fills
    BY AtFields
  <2>3. q = [z EXCEPT !.attr = "filling", !.fills = @ + 1] BY <1>3 DEF Session
  <2>4. w = [r.running EXCEPT ![p].at = "fill"] OBVIOUS
  <2> HIDE DEF w, z
  <2>5. /\ DOMAIN q = RequestFields /\ q.running = w
        /\ q.pc = r.pc /\ q.req = r.req /\ q.schema = r.schema /\ q.plans = r.plans /\ q.total = r.total /\ q.i = r.i
        /\ q.by = r.by /\ q.n = r.n /\ q.todo = r.todo /\ q.payloads = r.payloads /\ q.ran = r.ran
        /\ q.cookies = r.cookies /\ q.merge = r.merge /\ q.attr = "filling" /\ q.fills = r.fills + 1
    BY <2>2, <2>3 DEF RequestFields
  <2>6. Attributed(w, q.attr, q.fills) BY <2>1, <2>5
  <2> QED BY <2>4, <2>5, <2>6, MoveOK
<1>4. CASE r.attr = "filling"
  <2> DEFINE w == [r.running EXCEPT ![p].at = "wait"]
  <2>1. Attributed(w, r.attr, r.fills) BY <1>1, <1>4, AttributeMoves
  <2>2. q = At(r, p, "wait") BY <1>4 DEF Session
  <2>3. /\ DOMAIN q = RequestFields /\ q.running = w
        /\ q.pc = r.pc /\ q.req = r.req /\ q.schema = r.schema /\ q.plans = r.plans /\ q.total = r.total /\ q.i = r.i
        /\ q.by = r.by /\ q.n = r.n /\ q.todo = r.todo /\ q.payloads = r.payloads /\ q.ran = r.ran
        /\ q.cookies = r.cookies /\ q.merge = r.merge /\ q.attr = r.attr /\ q.fills = r.fills
    BY <2>2, AtFields
  <2>4. Attributed(w, q.attr, q.fills) BY <2>1, <2>3
  <2>5. w = [r.running EXCEPT ![p].at = "wait"] OBVIOUS
  <2> HIDE DEF w
  <2> QED BY <2>3, <2>4, <2>5, MoveOK
<1>5. CASE r.attr = "ok"
  <2>1. q = At(r, p, "handle") BY <1>5 DEF Session
  <2> QED BY <2>1, HandleOK
<1>6. CASE r.attr = "failed"
  <2>1. q = Returned(r, p, "error") BY <1>6 DEF Session
  <2> QED BY <2>1, ReturnedOK
<1> QED BY <1>2, <1>3, <1>4, <1>5, <1>6

LEMMA FillEndsOK ==
    ASSUME NEW r, UnderWay(r), r.pc = "call", NEW p \in DOMAIN r.running, r.running[p].at = "fill",
           NEW how \in {"ok", "error", "panic"}, NEW q, q = FillEnds(r, p, how)
    PROVE  UnderWay(q)
<1>1. Gated(r.running) /\ Attributed(r.running, r.attr, r.fills) BY DEF UnderWay
<1>2. CASE how = "ok"
  <2> DEFINE w == [r.running EXCEPT ![p].at = "handle"]
             z == At(r, p, "handle")
  <2>1. Attributed(w, "ok", r.fills) BY <1>1, AttributeMoves
  <2>2. /\ DOMAIN z = RequestFields /\ z.running = w
        /\ z.pc = r.pc /\ z.req = r.req /\ z.schema = r.schema /\ z.plans = r.plans /\ z.total = r.total /\ z.i = r.i
        /\ z.by = r.by /\ z.n = r.n /\ z.todo = r.todo /\ z.payloads = r.payloads /\ z.ran = r.ran
        /\ z.cookies = r.cookies /\ z.merge = r.merge /\ z.attr = r.attr /\ z.fills = r.fills
    BY AtFields
  <2>3. q = [z EXCEPT !.attr = "ok"] BY <1>2 DEF FillEnds
  <2>4. w = [r.running EXCEPT ![p].at = "handle"] OBVIOUS
  <2> HIDE DEF w, z
  <2>5. /\ DOMAIN q = RequestFields /\ q.running = w
        /\ q.pc = r.pc /\ q.req = r.req /\ q.schema = r.schema /\ q.plans = r.plans /\ q.total = r.total /\ q.i = r.i
        /\ q.by = r.by /\ q.n = r.n /\ q.todo = r.todo /\ q.payloads = r.payloads /\ q.ran = r.ran
        /\ q.cookies = r.cookies /\ q.merge = r.merge /\ q.attr = "ok" /\ q.fills = r.fills
    BY <2>2, <2>3 DEF RequestFields
  <2>6. Attributed(w, q.attr, q.fills) BY <2>1, <2>5
  <2> QED BY <2>4, <2>5, <2>6, MoveOK
<1>3. CASE how # "ok"
  <2> DEFINE z == Returned(r, p, how)
  <2>1. PICK calls : CallOver(r, p, how, calls, z) BY ReturnedFields
  <2>2. Attributed(Without(r.running, p), "failed", r.fills) BY <1>1, AttributeFails
  <2>3. q = [z EXCEPT !.attr = "failed"] BY <1>3 DEF FillEnds
  <2> HIDE DEF z
  <2>4. DOMAIN z = RequestFields BY <2>1 DEF CallOver
  <2>5. CallOver(r, p, how, calls, q) /\ q.attr = "failed"
    <3>1. /\ DOMAIN q = RequestFields /\ q.attr = "failed"
          /\ q.pc = z.pc /\ q.req = z.req /\ q.schema = z.schema /\ q.plans = z.plans
          /\ q.total = z.total /\ q.i = z.i /\ q.by = z.by /\ q.n = z.n /\ q.todo = z.todo /\ q.payloads = z.payloads
          /\ q.fills = z.fills /\ q.running = z.running /\ q.cookies = z.cookies /\ q.merge = z.merge /\ q.ran = z.ran
      BY <2>3, <2>4 DEF RequestFields
    <3> QED BY <2>1, <3>1 DEF CallOver
  <2>6. q.fills = r.fills BY <2>5 DEF CallOver
  <2>7. Attributed(Without(r.running, p), q.attr, q.fills) BY <2>2, <2>5, <2>6
  <2> QED BY <2>5, <2>7, ReturnedWith
<1> QED BY <1>2, <1>3

-----------------------------------------------------------------------------
(* Every step of a request, and of the host, keeps the invariant.          *)

LEMMA BecomesOK ==
    ASSUME GatInv, NEW c \in Clients, NEW q, Becomes(c, q), q.pc = "done" \/ UnderWay(q),
           UNCHANGED <<snap, cache, script>>
    PROVE  GatInv'
<1>1. requests' = [requests EXCEPT ![c] = q] BY DEF Becomes
<1>2. DOMAIN requests' = Clients BY <1>1 DEF GatInv
<1>3. \A d \in Clients : requests'[d].pc = "done" \/ UnderWay(requests'[d])
  <2>1. TAKE d \in Clients
  <2>2. CASE d = c BY <1>1, <2>2 DEF GatInv
  <2>3. CASE d # c BY <1>1, <2>3 DEF GatInv
  <2> QED BY <2>2, <2>3
<1>4. snap' \in 0 .. Len(Schemas) /\ script' \in Seq(Sent) /\ CachesOK(cache') BY DEF GatInv
<1> QED BY <1>2, <1>3, <1>4 DEF GatInv

LEMMA AnsweredDone == ASSUME NEW r, NEW resp PROVE Answered(r, resp).pc = "done"
BY DEF Answered

LEMMA HandledOK ==
    ASSUME snap \in 0 .. Len(Schemas), NEW req \in Sent, NEW held, NEW q, q = Handled(Fresh(req, held))
    PROVE  q.pc = "done" \/ UnderWay(q)
<1> DEFINE r == Fresh(req, held)
<1>1. r.req = req BY FreshFields
<1>2. CASE \/ snap = 0 \/ req.hook = "refuse" \/ req.body # "ok" \/ (req.batch /\ Len(req.items) \notin 1 .. MaxOps)
  <2>1. \E resp : q = Answered(r, resp)
    <3> HIDE DEF r
    <3>1. q = Handled(r) BY DEF r
    <3> QED BY <1>1, <1>2, <3>1 DEF Handled
  <2> QED BY <2>1, AnsweredDone
<1>3. CASE snap # 0 /\ req.hook # "refuse" /\ req.body = "ok" /\ ~(req.batch /\ Len(req.items) \notin 1 .. MaxOps)
  <2>1. q = r
    <3> HIDE DEF r
    <3>1. q = Handled(r) BY DEF r
    <3> QED BY <1>1, <1>3, <3>1 DEF Handled
  <2>2. snap \in DOMAIN Schemas
    <3>1. IsSequence(Schemas) BY AnalysisAssumption DEF IsSequence
    <3>2. DOMAIN Schemas = 1 .. Len(Schemas) /\ Len(Schemas) \in Nat BY <3>1, SequenceShape
    <3> QED BY <1>3, <3>2
  <2>3. Requested(req, snap) BY <1>3, <2>2 DEF Requested
  <2> QED BY <2>1, <2>3, FreshOK
<1> QED BY <1>2, <1>3

LEMMA SetSchemaOK == ASSUME GatInv, SetSchema PROVE GatInv'
<1>1. IsSequence(Schemas) BY AnalysisAssumption DEF IsSequence
<1>2. Len(Schemas) \in Nat BY <1>1, SequenceShape
<1>3. snap' \in 0 .. Len(Schemas) BY <1>2 DEF SetSchema, GatInv
<1>4. cache' = cache /\ requests' = requests /\ script' = script BY DEF SetSchema
<1> QED BY <1>3, <1>4 DEF GatInv

LEMMA ArriveOK == ASSUME GatInv, NEW c \in Clients, Arrive(c) PROVE GatInv'
<1>1. script # <<>> /\ script' = Tail(script) /\ snap' = snap /\ cache' = cache BY DEF Arrive
<1>2. PICK held : Becomes(c, Handled(Fresh(script[1], held))) BY DEF Arrive
<1>3. script \in Seq(Sent) /\ snap \in 0 .. Len(Schemas) BY DEF GatInv
<1>4. script[1] \in Sent /\ Tail(script) \in Seq(Sent) BY <1>1, <1>3
<1> DEFINE q == Handled(Fresh(script[1], held))
<1>5. q.pc = "done" \/ UnderWay(q) BY <1>3, <1>4, HandledOK
<1>6. requests' = [requests EXCEPT ![c] = q] BY <1>2 DEF Becomes
<1> HIDE DEF q
<1>7. DOMAIN requests' = Clients BY <1>6 DEF GatInv
<1>8. \A d \in Clients : requests'[d].pc = "done" \/ UnderWay(requests'[d])
  <2>1. TAKE d \in Clients
  <2>2. CASE d = c BY <1>5, <1>6, <2>2 DEF GatInv
  <2>3. CASE d # c BY <1>6, <2>3 DEF GatInv
  <2> QED BY <2>2, <2>3
<1>9. CachesOK(cache') BY <1>1 DEF GatInv
<1> QED BY <1>1, <1>3, <1>4, <1>7, <1>8, <1>9 DEF GatInv

\* What a cache keeps is computed from the schema it is then for.
LEMMA KeptOK ==
    ASSUME NEW k, \A key \in DOMAIN k.kept : k.kept[key] = k.schema, NEW e, NEW z, z = Kept(k, e)
    PROVE  \A key \in DOMAIN z.kept : z.kept[key] = z.schema
<1> DEFINE same == IF k.schema = e.value THEN k.kept ELSE <<>>
<1>1. \A key \in DOMAIN same : same[key] = e.value BY EmptySequence
<1>2. z.schema = e.value BY DEF Kept
<1>3. z.kept = With(same, e.key, e.value) \/ z.kept = same BY DEF Kept
<1>4. \A key \in DOMAIN With(same, e.key, e.value) : With(same, e.key, e.value)[key] = e.value BY <1>1 DEF With
<1> HIDE DEF same
<1> QED BY <1>1, <1>2, <1>3, <1>4

LEMMA KeepOK == ASSUME GatInv, NEW c \in Clients, Keep(c) PROVE GatInv'
<1> DEFINE r == requests[c]
           q == [r EXCEPT !.pend = Tail(@)]
           k == r.pend[1].in
<1>1. UnderWay(r) BY DEF Keep, GatInv
<1>2. UnderWay(q) BY <1>1, PendingOnly
<1>3. requests' = [requests EXCEPT ![c] = q] BY DEF Keep, Becomes
<1>4. cache' = [cache EXCEPT ![k] = Kept(@, r.pend[1])] BY DEF Keep
<1>5. snap' = snap /\ script' = script BY DEF Keep
<1> HIDE DEF r, q, k
<1>6. DOMAIN requests' = Clients BY <1>3 DEF GatInv
<1>7. \A d \in Clients : requests'[d].pc = "done" \/ UnderWay(requests'[d])
  <2>1. TAKE d \in Clients
  <2>2. CASE d = c BY <1>2, <1>3, <2>2 DEF GatInv
  <2>3. CASE d # c BY <1>3, <2>3 DEF GatInv
  <2> QED BY <2>2, <2>3
<1>8. CachesOK(cache')
  <2>1. CachesOK(cache) BY DEF GatInv
  <2>2. DOMAIN cache' = {"trusted", "stages", "counts"} BY <1>4, <2>1 DEF CachesOK
  <2>3. SUFFICES ASSUME NEW l \in DOMAIN cache'
                 PROVE  \A key \in DOMAIN cache'[l].kept : cache'[l].kept[key] = cache'[l].schema
    BY <2>2 DEF CachesOK
  <2>4. l \in DOMAIN cache BY <2>1, <2>2 DEF CachesOK
  <2>5. \A key \in DOMAIN cache[l].kept : cache[l].kept[key] = cache[l].schema BY <2>1, <2>4 DEF CachesOK
  <2>6. CASE l = k
    <3>1. cache'[l] = Kept(cache[l], r.pend[1]) BY <1>4, <2>4, <2>6
    <3> QED BY <2>5, <3>1, KeptOK
  <2>7. CASE l # k
    <3>1. cache'[l] = cache[l] BY <1>4, <2>4, <2>7
    <3> QED BY <2>5, <3>1
  <2> QED BY <2>6, <2>7
<1> QED BY <1>5, <1>6, <1>7, <1>8 DEF GatInv

LEMMA PlanItemStep == ASSUME GatInv, NEW c \in Clients, PlanItem(c) PROVE GatInv'
<1> DEFINE r == requests[c]
           p == PlanRequest(r, Item(r))
           e == PlanPending(r, Item(r)) \o (IF Counted(r, p) THEN Pending("counts", r, p.plan[1].doc) ELSE <<>>)
           q == [r EXCEPT !.plans = Append(@, p), !.i = @ + 1,
                          !.total = IF Counted(r, p) THEN @ + Count(r, p.plan[1].doc) ELSE @, !.pend = e]
<1>1. r.pc = "plan" /\ r.i <= Len(r.req.items) BY DEF PlanItem
<1>2. Becomes(c, q) /\ UNCHANGED <<snap, cache, script>> BY DEF PlanItem
<1>3. UnderWay(r) /\ CachesOK(cache) BY <1>1 DEF GatInv
<1>4. p = PlanRequest(r, Item(r)) OBVIOUS
<1>5. q = [r EXCEPT !.plans = Append(@, p), !.i = @ + 1,
                    !.total = IF Counted(r, p) THEN @ + Count(r, p.plan[1].doc) ELSE @, !.pend = e]
  OBVIOUS
<1> HIDE DEF r, p, e, q
<1>6. UnderWay(q) BY <1>1, <1>3, <1>4, <1>5, PlanItemOK
<1> QED BY <1>2, <1>6, BecomesOK

LEMMA AdmitStep == ASSUME GatInv, NEW c \in Clients, Admit(c) PROVE GatInv'
<1> DEFINE r == requests[c]
<1>1. r.pc = "plan" /\ r.i > Len(r.req.items) /\ UNCHANGED <<snap, cache, script>> BY DEF Admit
<1>2. UnderWay(r) BY <1>1 DEF GatInv
<1>3. r.req.batch \in BOOLEAN BY <1>2, RequestShape DEF UnderWay
<1>4. CASE \/ ~ r.req.batch /\ r.plans[1].status # 0
           \/ ~ r.req.batch /\ r.plans[1].status = 0 /\ MutationOverGet(r)
           \/ r.req.batch /\ r.total > MaxOps
  <2>1. PICK resp : Becomes(c, Answered(r, resp)) BY <1>3, <1>4 DEF Admit
  <2> DEFINE q == Answered(r, resp)
  <2>2. q.pc = "done" BY AnsweredDone
  <2> HIDE DEF q, r
  <2>3. Becomes(c, q) BY <2>1 DEF q
  <2> QED BY <1>1, <2>2, <2>3, BecomesOK
<1>5. CASE ~ \/ ~ r.req.batch /\ r.plans[1].status # 0
             \/ ~ r.req.batch /\ r.plans[1].status = 0 /\ MutationOverGet(r)
             \/ r.req.batch /\ r.total > MaxOps
  <2> DEFINE q == [r EXCEPT !.pc = "item", !.i = 1]
  <2>1. Becomes(c, q) BY <1>3, <1>5 DEF Admit
  <2>2. /\ r.req.batch \/ (r.plans[1].status = 0 /\ ~ MutationOverGet(r))
        /\ ~(r.req.batch /\ r.total > MaxOps)
    BY <1>3, <1>5
  <2>3. q = [r EXCEPT !.pc = "item", !.i = 1] OBVIOUS
  <2> HIDE DEF q, r
  <2>4. UnderWay(q) BY <1>1, <1>2, <2>2, <2>3, AdmitOK
  <2> QED BY <1>1, <2>1, <2>4, BecomesOK
<1> QED BY <1>4, <1>5

LEMMA BeginStep == ASSUME GatInv, NEW c \in Clients, Begin(c) PROVE GatInv'
<1> DEFINE r == requests[c]
           p == r.plans[r.i]
<1>1. r.pc = "item" /\ r.i <= Len(r.req.items) /\ UNCHANGED <<snap, cache, script>> BY DEF Begin
<1>2. UnderWay(r) /\ CachesOK(cache) BY <1>1 DEF GatInv
<1>3. PlanOK(r.schema, p)
  <2>1. /\ Requested(r.req, r.schema) /\ PlansOK(r.schema, r.plans) /\ r.i \in Nat /\ 1 <= r.i
        /\ Len(r.plans) = Len(r.req.items)
    BY <1>1, <1>2 DEF UnderWay, Budgeted
  <2>2. Len(r.req.items) \in Nat BY <2>1, RequestShape
  <2>3. DOMAIN r.plans = 1 .. Len(r.plans) BY <2>1, SequenceShape DEF PlansOK
  <2>4. r.i \in DOMAIN r.plans BY <1>1, <2>1, <2>2, <2>3
  <2> QED BY <2>1, <2>4 DEF PlansOK
<1>4. CASE p.status # 0 \/ BadPlan(p)
  <2>1. PICK out, doc : Becomes(c, Skipped(r, out, doc)) BY <1>4 DEF Begin
  <2> DEFINE q == Skipped(r, out, doc)
  <2>2. q = Skipped(r, out, doc) OBVIOUS
  <2> HIDE DEF q, r
  <2>3. UnderWay(q) BY <1>1, <1>2, <2>2, SkippedOK
  <2> QED BY <1>1, <2>1, <2>2, <2>3, BecomesOK
<1>5. CASE p.status = 0 /\ ~ BadPlan(p)
  <2> DEFINE e == IF HasExports(r) THEN Pending("stages", r, NameOf(r)) ELSE <<>>
             z == Begun(r)
             q == [z EXCEPT !.pend = e]
  <2>1. Becomes(c, q) BY <1>5 DEF Begin
  <2>2. ValidPlan(r.plans[r.i]) BY <1>3, <1>5 DEF PlanOK, ValidPlan
  <2>3. z = Begun(r) /\ q = [z EXCEPT !.pend = e] OBVIOUS
  <2> HIDE DEF q, r, e, z
  <2>4. UnderWay(z) BY <1>1, <1>2, <2>2, <2>3, BegunOK
  <2>5. UnderWay(q) BY <2>3, <2>4, PendingOnly
  <2> QED BY <1>1, <2>1, <2>5, BecomesOK
<1> QED BY <1>4, <1>5

LEMMA StartStageStep == ASSUME GatInv, NEW c \in Clients, StartStage(c) PROVE GatInv'
<1> DEFINE r == requests[c]
<1>1. r.pc = "stage" /\ UNCHANGED <<snap, cache, script>> BY DEF StartStage
<1>2. UnderWay(r) BY <1>1 DEF GatInv
<1>3. CASE Coerced(r)
  <2> DEFINE q == [r EXCEPT !.pc = "call", !.todo = StageUnits(r), !.results = <<>>, !.errors = {}]
  <2>1. Becomes(c, q) BY <1>3 DEF StartStage
  <2>2. q = [r EXCEPT !.pc = "call", !.todo = StageUnits(r), !.results = <<>>, !.errors = {}] OBVIOUS
  <2> HIDE DEF q, r
  <2>3. UnderWay(q) BY <1>1, <1>2, <2>2, StartStageOK
  <2> QED BY <1>1, <2>1, <2>3, BecomesOK
<1>4. CASE ~ Coerced(r)
  <2> DEFINE payload == Refused("variables")
             q == StageDone(r, payload)
  <2>1. Becomes(c, q) BY <1>4 DEF StartStage
  <2>2. DOMAIN r.running = {} BY <1>1, <1>2 DEF UnderWay
  <2>3. q = StageDone(r, payload) /\ payload = Refused("variables") OBVIOUS
  <2> HIDE DEF q, r, payload
  <2>4. UnderWay(q) BY <1>1, <1>2, <2>2, <2>3, StageDoneOK
  <2> QED BY <1>1, <2>1, <2>4, BecomesOK
<1> QED BY <1>3, <1>4

LEMMA CallOperationStep == ASSUME GatInv, NEW c \in Clients, CallOperation(c) PROVE GatInv'
<1> DEFINE r == requests[c]
           k == Min(r.todo)
           u == Staged(r).units[k]
           q == [r EXCEPT !.todo = @ \ {k},
                   !.running = With(@, u.path, [op |-> u.op, go |-> Goes(r), at |-> "bind"]),
                   !.ran[r.i] = With(@, u.path, [op |-> u.op, seen |-> Seen(r, u), schema |-> r.plans[r.i].plan[1].schema,
                                                 result |-> NullData, outcome |-> "none"])]
<1>1. r.pc = "call" /\ r.todo # {} /\ InPlace(r) = {} /\ UNCHANGED <<snap, cache, script>> BY DEF CallOperation
<1>2. UnderWay(r) BY <1>1 DEF GatInv
<1>3. Becomes(c, q) BY DEF CallOperation
<1>4. k = Min(r.todo) /\ u = Staged(r).units[k] OBVIOUS
<1>5. q = [r EXCEPT !.todo = @ \ {k},
                   !.running = With(@, u.path, [op |-> u.op, go |-> Goes(r), at |-> "bind"]),
                   !.ran[r.i] = With(@, u.path, [op |-> u.op, seen |-> Seen(r, u), schema |-> r.plans[r.i].plan[1].schema,
                                                 result |-> NullData, outcome |-> "none"])]
  OBVIOUS
<1> HIDE DEF r, k, u, q
<1>6. UnderWay(q) BY <1>1, <1>2, <1>4, <1>5, CallOperationOK
<1> QED BY <1>1, <1>3, <1>6, BecomesOK

LEMMA BindStep == ASSUME GatInv, NEW c \in Clients, Bind(c) PROVE GatInv'
<1> DEFINE r == requests[c]
<1>1. r.pc = "call" /\ UNCHANGED <<snap, cache, script>> BY DEF Bind
<1>2. UnderWay(r) BY <1>1 DEF GatInv
<1>3. PICK p \in DOMAIN r.running :
          /\ r.running[p].at = "bind"
          /\ \/ Becomes(c, Returned(r, p, "unbound"))
             \/ Becomes(c, Session(r, p))
             \/ Becomes(c, At(r, p, "handle"))
  BY DEF Bind
<1> HIDE DEF r
<1>4. CASE Becomes(c, Returned(r, p, "unbound"))
  <2> DEFINE q == Returned(r, p, "unbound")
  <2>1. UnderWay(q) BY <1>1, <1>2, <1>3, ReturnedOK
  <2>2. Becomes(c, q) BY <1>4
  <2> HIDE DEF q
  <2> QED BY <1>1, <2>1, <2>2, BecomesOK
<1>5. CASE Becomes(c, Session(r, p))
  <2> DEFINE q == Session(r, p)
  <2>1. UnderWay(q) BY <1>1, <1>2, <1>3, SessionOK
  <2>2. Becomes(c, q) BY <1>5
  <2> HIDE DEF q
  <2> QED BY <1>1, <2>1, <2>2, BecomesOK
<1>6. CASE Becomes(c, At(r, p, "handle"))
  <2> DEFINE q == At(r, p, "handle")
  <2>1. UnderWay(q) BY <1>1, <1>2, <1>3, HandleOK
  <2>2. Becomes(c, q) BY <1>6
  <2> HIDE DEF q
  <2> QED BY <1>1, <2>1, <2>2, BecomesOK
<1> QED BY <1>3, <1>4, <1>5, <1>6

LEMMA FillStep == ASSUME GatInv, NEW c \in Clients, Fill(c) PROVE GatInv'
<1> DEFINE r == requests[c]
<1>1. r.pc = "call" /\ UNCHANGED <<snap, cache, script>> BY DEF Fill
<1>2. UnderWay(r) BY <1>1 DEF GatInv
<1>3. PICK p \in DOMAIN r.running, how \in {"ok", "error", "panic"} :
          r.running[p].at = "fill" /\ Becomes(c, FillEnds(r, p, how))
  BY DEF Fill
<1> HIDE DEF r
<1> DEFINE q == FillEnds(r, p, how)
<1>4. UnderWay(q) BY <1>1, <1>2, <1>3, FillEndsOK
<1>5. Becomes(c, q) BY <1>3
<1> HIDE DEF q
<1> QED BY <1>1, <1>4, <1>5, BecomesOK

LEMMA WakeStep == ASSUME GatInv, NEW c \in Clients, Wake(c) \/ GiveUp(c) PROVE GatInv'
<1> DEFINE r == requests[c]
<1>1. r.pc = "call" /\ UNCHANGED <<snap, cache, script>> BY DEF Wake, GiveUp
<1>2. UnderWay(r) BY <1>1 DEF GatInv
<1>3. PICK p \in DOMAIN r.running : /\ r.running[p].at = "wait"
                                    /\ Becomes(c, At(r, p, "handle")) \/ Becomes(c, Returned(r, p, "error"))
  BY DEF Wake, GiveUp
<1> HIDE DEF r
<1>4. CASE Becomes(c, At(r, p, "handle"))
  <2> DEFINE q == At(r, p, "handle")
  <2>1. UnderWay(q) BY <1>1, <1>2, <1>3, HandleOK
  <2>2. Becomes(c, q) BY <1>4
  <2> HIDE DEF q
  <2> QED BY <1>1, <2>1, <2>2, BecomesOK
<1>5. CASE Becomes(c, Returned(r, p, "error"))
  <2> DEFINE q == Returned(r, p, "error")
  <2>1. UnderWay(q) BY <1>1, <1>2, <1>3, ReturnedOK
  <2>2. Becomes(c, q) BY <1>5
  <2> HIDE DEF q
  <2> QED BY <1>1, <2>1, <2>2, BecomesOK
<1> QED BY <1>3, <1>4, <1>5

LEMMA ReturnStep == ASSUME GatInv, NEW c \in Clients, Return(c) PROVE GatInv'
<1> DEFINE r == requests[c]
<1>1. r.pc = "call" /\ UNCHANGED <<snap, cache, script>> BY DEF Return
<1>2. UnderWay(r) BY <1>1 DEF GatInv
<1>3. PICK p \in DOMAIN r.running : \E how \in Operations[r.running[p].op].may \ {"unbound"} :
          r.running[p].at = "handle" /\ Becomes(c, Returned(r, p, how))
  BY DEF Return
<1>4. PICK how \in Operations[r.running[p].op].may \ {"unbound"} :
          r.running[p].at = "handle" /\ Becomes(c, Returned(r, p, how))
  BY <1>3
<1> HIDE DEF r
<1>5. r.running[p].op \in DOMAIN Operations
  <2>1. r.i \in DOMAIN r.ran BY <1>1, <1>2, DocumentAtHand
  <2>2. p \in DOMAIN r.ran[r.i] /\ r.ran[r.i][p].op = r.running[p].op BY <1>1, <1>2 DEF UnderWay, Staging, Called
  <2>3. RecordOK(r.schema, r.ran[r.i][p]) BY <1>2, <2>1, <2>2 DEF UnderWay, Recorded
  <2> QED BY <2>2, <2>3 DEF RecordOK
<1>6. how \in {"ok", "error", "panic", "unbound"} BY <1>5, OperationsAssumption
<1> DEFINE q == Returned(r, p, how)
<1>7. UnderWay(q)
  <2>1. q = Returned(r, p, how) OBVIOUS
  <2> HIDE DEF q
  <2>2. r.running[p].at # "fill" BY <1>4
  <2> QED BY <1>1, <1>2, <1>6, <2>1, <2>2, ReturnedOK
<1>8. Becomes(c, q) BY <1>4
<1> HIDE DEF q
<1> QED BY <1>1, <1>7, <1>8, BecomesOK

LEMMA EndStageStep == ASSUME GatInv, NEW c \in Clients, EndStage(c) PROVE GatInv'
<1> DEFINE r == requests[c]
           payload == Payload(<<Value("obj", Execution(Schema(r), Stages(r)[r.n].sel, <<>>, r.results))>>, r.errors)
           q == StageDone(r, payload)
<1>1. r.pc = "call" /\ r.todo = {} /\ r.running = <<>> /\ UNCHANGED <<snap, cache, script>> BY DEF EndStage
<1>2. UnderWay(r) BY <1>1 DEF GatInv
<1>3. Becomes(c, q) BY DEF EndStage
<1>4. DOMAIN r.running = {} BY <1>1, EmptySequence
<1>5. q = StageDone(r, payload) OBVIOUS
<1> HIDE DEF r, payload, q
<1>6. UnderWay(q) BY <1>1, <1>2, <1>4, <1>5, StageDoneOK
<1> QED BY <1>1, <1>3, <1>6, BecomesOK

LEMMA RespondStep == ASSUME GatInv, NEW c \in Clients, Respond(c) PROVE GatInv'
<1> DEFINE r == requests[c]
<1>1. UNCHANGED <<snap, cache, script>> BY DEF Respond
<1>2. PICK resp : Becomes(c, Answered(r, resp)) BY DEF Respond
<1> DEFINE q == Answered(r, resp)
<1>3. q.pc = "done" BY AnsweredDone
<1>4. Becomes(c, q) BY <1>2
<1> HIDE DEF q
<1> QED BY <1>1, <1>3, <1>4, BecomesOK

LEMMA GatInitially == ASSUME GatInit PROVE GatInv
<1>1. IsSequence(Schemas) /\ Schemas # <<>> BY AnalysisAssumption DEF IsSequence
<1>2. Len(Schemas) \in Nat /\ Len(Schemas) > 0
  <2>1. PICK X : Schemas \in Seq(X) BY <1>1 DEF IsSequence
  <2> QED BY <1>1, <2>1
<1>3. snap \in 0 .. Len(Schemas) BY <1>2 DEF GatInit
<1>4. script \in Seq(Sent) BY SentAssumption DEF GatInit
<1>5. CachesOK(cache) BY EmptySequence DEF GatInit, CachesOK
<1>6. DOMAIN requests = Clients /\ \A c \in Clients : requests[c].pc = "done" BY DEF GatInit, Idle
<1> QED BY <1>3, <1>4, <1>5, <1>6 DEF GatInv

LEMMA GatStep == ASSUME GatInv, [GatNext]_gatVars PROVE GatInv'
<1>1. CASE SetSchema BY <1>1, SetSchemaOK
<1>2. ASSUME NEW c \in Clients, Arrive(c) PROVE GatInv' BY <1>2, ArriveOK
<1>3. ASSUME NEW c \in Clients, GiveUp(c) PROVE GatInv' BY <1>3, WakeStep
<1>4. ASSUME NEW c \in Clients, Keep(c) PROVE GatInv' BY <1>4, KeepOK
<1>5. ASSUME NEW c \in Clients, PlanItem(c) PROVE GatInv' BY <1>5, PlanItemStep
<1>6. ASSUME NEW c \in Clients, Admit(c) PROVE GatInv' BY <1>6, AdmitStep
<1>7. ASSUME NEW c \in Clients, Begin(c) PROVE GatInv' BY <1>7, BeginStep
<1>8. ASSUME NEW c \in Clients, StartStage(c) PROVE GatInv' BY <1>8, StartStageStep
<1>9. ASSUME NEW c \in Clients, CallOperation(c) PROVE GatInv' BY <1>9, CallOperationStep
<1>10. ASSUME NEW c \in Clients, Bind(c) PROVE GatInv' BY <1>10, BindStep
<1>11. ASSUME NEW c \in Clients, Fill(c) PROVE GatInv' BY <1>11, FillStep
<1>12. ASSUME NEW c \in Clients, Wake(c) PROVE GatInv' BY <1>12, WakeStep
<1>13. ASSUME NEW c \in Clients, Return(c) PROVE GatInv' BY <1>13, ReturnStep
<1>14. ASSUME NEW c \in Clients, EndStage(c) PROVE GatInv' BY <1>14, EndStageStep
<1>15. ASSUME NEW c \in Clients, Respond(c) PROVE GatInv' BY <1>15, RespondStep
<1>16. CASE UNCHANGED gatVars
  <2>1. snap' = snap /\ cache' = cache /\ requests' = requests /\ script' = script BY <1>16 DEF gatVars
  <2> QED BY <2>1 DEF GatInv
<1> QED BY <1>1, <1>2, <1>3, <1>4, <1>5, <1>6, <1>7, <1>8, <1>9, <1>10, <1>11, <1>12, <1>13, <1>14, <1>15, <1>16
        DEF GatNext

\* The inductive invariant holds of every behaviour of the requests.
THEOREM GatInvariant == GatSpec => []GatInv
<1>1. GatInit => GatInv BY GatInitially
<1>2. GatInv /\ [GatNext]_gatVars => GatInv' BY GatStep
<1> QED BY <1>1, <1>2, PTL DEF GatSpec

-----------------------------------------------------------------------------
(* What follows from it.                                                   *)

\* The calls a request started are calls that its plans allow.
LEMMA StartedAllowed ==
    ASSUME NEW r, UnderWay(r)
    PROVE  Started(r) \subseteq Allowance(r.schema, r.plans) /\ Cardinality(Started(r)) <= MaxOps
<1>0. /\ Requested(r.req, r.schema) /\ Budgeted(r.pc, r.req, r.schema, r.plans, r.total, r.i)
      /\ Progress(r.pc, r.req, r.i, r.ran) /\ Recorded(r.schema, r.plans, r.ran)
  BY DEF UnderWay
<1>1. Started(r) \subseteq Allowance(r.schema, r.plans)
  <2>1. SUFFICES ASSUME NEW x \in Started(r) PROVE x \in Allowance(r.schema, r.plans) OBVIOUS
  <2>2. PICK j \in DOMAIN r.ran : x \in {j} \X (DOMAIN r.ran[j]) BY DEF Started
  <2>3. PICK p \in DOMAIN r.ran[j] : x = <<j, p>> BY <2>2
  <2>4. j \in DOMAIN r.plans /\ ValidPlan(r.plans[j]) /\ p \in PathsOf(r.schema, r.plans[j]) BY <1>0 DEF Recorded
  <2> QED BY <2>3, <2>4 DEF Allowance
<1>2. MaxOps \in Nat BY SentAssumption
<1>3. IsFiniteSet(Allowance(r.schema, r.plans)) BY <1>0 DEF Budgeted
<1>4. /\ Cardinality(Allowance(r.schema, r.plans)) \in Nat /\ Cardinality(Started(r)) \in Nat
      /\ Cardinality(Started(r)) <= Cardinality(Allowance(r.schema, r.plans))
  BY <1>1, <1>3, FS_Subset, FS_CardinalityType
<1>5. CASE r.pc = "plan"
  <2>1. DOMAIN r.ran = {} BY <1>0, <1>5, SequenceShape DEF Progress
  <2>2. Started(r) = {} BY <2>1 DEF Started
  <2> QED BY <1>1, <1>2, <2>2, FS_EmptySet
<1>6. CASE r.pc # "plan"
  <2>1. Cardinality(Allowance(r.schema, r.plans)) <= MaxOps BY <1>0, <1>6 DEF Budgeted
  <2> QED BY <1>1, <1>2, <1>4, <2>1
<1> QED BY <1>5, <1>6

\* The goroutines of a request, and the one call that may run in place.
LEMMA WithinParallel ==
    ASSUME NEW running, Gated(running)
    PROVE  /\ Cardinality(DOMAIN running) <= Parallel + 1
           /\ OnGoroutines(running) = {} => Cardinality(DOMAIN running) <= 1
<1> DEFINE S == OnGoroutines(running)
<1>1. Parallel \in Nat BY SentAssumption
<1>2. IsFiniteSet(S) /\ Cardinality(S) \in Nat /\ Cardinality(S) <= Parallel
  <2>1. S \subseteq DOMAIN running BY DEF OnGoroutines
  <2>2. IsFiniteSet(S) BY <2>1, FS_Subset DEF Gated
  <2> QED BY <2>2, FS_CardinalityType DEF Gated
<1>3. Cardinality(DOMAIN running) = Cardinality(S) \/ Cardinality(DOMAIN running) = Cardinality(S) + 1
  <2>1. CASE DOMAIN running = S BY <2>1
  <2>2. CASE DOMAIN running # S
    <3>1. PICK p \in DOMAIN running : ~ running[p].go BY <2>2 DEF OnGoroutines
    <3>2. p \notin S BY <3>1 DEF OnGoroutines
    <3>3. DOMAIN running = S \cup {p} BY <3>1 DEF OnGoroutines, Gated
    <3>4. Cardinality(S \cup {p}) = Cardinality(S) + 1 BY <1>2, <3>2, FS_AddElement
    <3> QED BY <3>3, <3>4
  <2> QED BY <2>1, <2>2
<1>4. S = {} => Cardinality(S) = 0 BY FS_EmptySet
<1> QED BY <1>1, <1>2, <1>3, <1>4

LEMMA LimitsFollow == ASSUME GatInv PROVE LimitsKept
<1>1. ASSUME NEW c \in Busy PROVE UnderWay(requests[c]) BY DEF Busy, GatInv
<1>2. WaitsEnd
  <2>1. SUFFICES ASSUME NEW c \in Busy, NEW p \in DOMAIN requests[c].running, requests[c].running[p].at = "wait"
                 PROVE  \/ requests[c].attr \in {"ok", "failed"}
                        \/ /\ requests[c].attr = "filling"
                           /\ \E q \in DOMAIN requests[c].running : requests[c].running[q].at = "fill"
    BY DEF WaitsEnd
  <2> DEFINE r == requests[c]
  <2>2. Attributed(r.running, r.attr, r.fills) BY <1>1 DEF UnderWay
  <2> HIDE DEF r
  <2>3. p \in DOMAIN r.running /\ r.running[p].at = "wait" BY <2>1 DEF r
  <2>4. r.attr \in {"filling", "ok", "failed"} BY <2>2, <2>3 DEF Attributed
  <2>5. r.attr = "filling" => \E q \in DOMAIN r.running : r.running[q].at = "fill" BY <2>2 DEF Attributed
  <2> QED BY <2>4, <2>5 DEF r
<1>3. ASSUME NEW r, UnderWay(r)
      PROVE  /\ Cardinality(Started(r)) <= MaxOps
             /\ \A i \in DOMAIN r.ran : r.ran[i] # <<>> /\ r.req.method = "GET" => Documents[r.plans[i].plan[1].doc].kind = "query"
             /\ Cardinality(DOMAIN r.running) <= Parallel + 1
             /\ r.pc = "call" /\ DocOf(r).kind = "mutation" => Cardinality(DOMAIN r.running) <= 1
             /\ r.fills <= 1
  <2>1. Cardinality(Started(r)) <= MaxOps BY <1>3, StartedAllowed
  <2>2. ASSUME NEW i \in DOMAIN r.ran, r.ran[i] # <<>>, r.req.method = "GET"
        PROVE  Documents[r.plans[i].plan[1].doc].kind = "query"
    <3>1. i \in DOMAIN r.plans /\ ValidPlan(r.plans[i]) BY <1>3, <2>2 DEF UnderWay, Recorded
    <3>2. r.pc # "plan"
      <4>1. IsSequence(r.ran) /\ (r.pc = "plan" => Len(r.ran) = 0) BY <1>3 DEF UnderWay, Progress
      <4>2. DOMAIN r.ran = 1 .. Len(r.ran) BY <4>1, SequenceShape
      <4> QED BY <2>2, <4>1, <4>2
    <3> QED BY <1>3, <2>2, <3>1, <3>2 DEF UnderWay, Budgeted
  <2>3. Gated(r.running) BY <1>3 DEF UnderWay
  <2>4. Cardinality(DOMAIN r.running) <= Parallel + 1 BY <2>3, WithinParallel
  <2>5. ASSUME r.pc = "call", DocOf(r).kind = "mutation" PROVE Cardinality(DOMAIN r.running) <= 1
    <3>1. Staging(r) BY <1>3, <2>5 DEF UnderWay
    <3>2. Documents[r.plans[r.i].plan[1].doc].kind # "query" BY <2>5 DEF DocOf, NameOf
    <3>3. OnGoroutines(r.running) = {} BY <3>1, <3>2 DEF Staging
    <3> QED BY <2>3, <3>3, WithinParallel
  <2>6. r.fills <= 1 BY <1>3 DEF UnderWay, Attributed
  <2> QED BY <2>1, <2>2, <2>4, <2>5, <2>6
<1> QED BY <1>1, <1>2, <1>3 DEF LimitsKept

LEMMA ExportsFollow == ASSUME GatInv PROVE ExportsSeen
<1>1. ASSUME NEW c \in Busy PROVE UnderWay(requests[c]) BY DEF Busy, GatInv
<1>2. OneSchema
  <2>1. SUFFICES ASSUME NEW c \in Busy, NEW r, r = requests[c]
                 PROVE  /\ \A i \in DOMAIN r.ran : \A p \in DOMAIN r.ran[i] : r.ran[i][p].schema = r.schema
                        /\ r.pc \in {"stage", "call"} => r.by = r.schema
    BY DEF OneSchema
  <2>2. UnderWay(r) BY <1>1, <2>1
  <2>3. ASSUME NEW i \in DOMAIN r.ran, NEW p \in DOMAIN r.ran[i] PROVE r.ran[i][p].schema = r.schema
    BY <2>2 DEF UnderWay, Recorded, RecordOK
  <2>4. r.pc \in {"stage", "call"} => r.by = r.schema BY <2>2 DEF UnderWay, Staging
  <2> QED BY <2>3, <2>4
<1>3. ASSUME NEW r, UnderWay(r), r.pc = "call", NEW k \in Bound(r), NEW v \in Staged(r).units[k].reads
      PROVE  /\ \A e \in ExportersOf(r, v) : Over(r, e)
             /\ v \in DOMAIN Item(r).vars => r.ran[r.i][Staged(r).units[k].path].seen[v] = Item(r).vars[v]
  <2> DEFINE a == AtHand(r)
             calls == r.ran[r.i]
  <2>1. /\ Staged(r) = a /\ \A j, l \in DOMAIN a.units : PathOf(a, j) = PathOf(a, l) => j = l
        /\ a.stage \in [DOMAIN a.units -> 1 .. Len(a.stages)] /\ Settled(a.units, a.stage) /\ Len(a.stages) \in Nat
        /\ r.n \in Nat
    BY <1>3, DocumentAtHand
  <2>2. /\ Past(a, r.n, r.payloads, calls) /\ Called(a, r.n, CalledUnits(r), r.running, calls)
        /\ Given(a, Item(r).vars, calls)
    BY <1>3 DEF UnderWay, Staging, Item
  <2> HIDE DEF a, calls
  <2>3. k \in DOMAIN a.units /\ PathOf(a, k) \in DOMAIN r.running BY <1>3, <2>1 DEF Bound, PathOf
  <2>4. v \in a.units[k].reads BY <1>3, <2>1
  <2>5. PathOf(a, k) \in DOMAIN calls BY <2>2, <2>3 DEF Called
  <2>6. a.stage[k] = r.n
    <3>1. PICK l \in CalledUnits(r) : PathOf(a, l) = PathOf(a, k) BY <2>2, <2>3 DEF Called
    <3>2. l \in UnitsAt(a, r.n) BY <2>2, <3>1 DEF Called
    <3>3. l \in DOMAIN a.units /\ a.stage[l] = r.n BY <3>2 DEF UnitsAt
    <3> QED BY <2>1, <2>3, <3>1, <3>3
  <2>7. ASSUME NEW e \in ExportersOf(r, v) PROVE Over(r, e)
    <3>1. e \in DOMAIN a.units /\ v \in Exports(a.units[e]) BY <2>1, <2>7 DEF ExportersOf
    <3>2. Feeds(a.units[e], a.units[k]) BY <2>4, <3>1 DEF Feeds
    <3>3. a.stage[e] + 1 <= a.stage[k] BY <2>1, <2>3, <3>1, <3>2 DEF Settled
    <3>4. a.stage[e] \in Nat BY <2>1, <3>1
    <3>5. a.stage[e] < r.n BY <2>1, <2>6, <3>3, <3>4
    <3>6. StageOver(a, r.payloads, calls, e) BY <2>2, <3>1, <3>5 DEF Past
    <3> QED BY <2>1, <3>5, <3>6 DEF Over, StageOver, PathOf, calls
  <2>8. ASSUME v \in DOMAIN Item(r).vars PROVE r.ran[r.i][Staged(r).units[k].path].seen[v] = Item(r).vars[v]
    <3>1. calls[PathOf(a, k)].seen[v] = Item(r).vars[v] BY <2>2, <2>3, <2>4, <2>5, <2>8 DEF Given
    <3> QED BY <2>1, <3>1 DEF PathOf, calls
  <2> QED BY <2>7, <2>8
<1> QED BY <1>1, <1>2, <1>3 DEF ExportsSeen

LEMMA HeadersFollow == ASSUME GatInv PROVE HeadersCombined
<1>1. SUFFICES ASSUME NEW c \in Busy, NEW r, r = requests[c]
               PROVE  /\ ToSet(Reply(r).cookies)
                             = UNION {ToSet(Operations[x.op].cookies) : x \in {d \in CallsOf(r) : d.outcome = "ok"}}
                      /\ CacheStrict(r)
  BY DEF HeadersCombined
<1>2. UnderWay(r) BY <1>1 DEF Busy, GatInv
<1>3. Reply(r).cookies = r.cookies /\ Reply(r).cc = CacheControl(r.merge) BY DEF Reply, Response
<1>4. Headed(r.ran, r.cookies, r.merge) /\ Recorded(r.schema, r.plans, r.ran) BY <1>2 DEF UnderWay
<1>5. \A x \in CallsOf(r) : /\ Covers(r.merge, x) /\ x.op \in DOMAIN Operations
                            /\ x.outcome = "ok" => ToSet(Operations[x.op].cookies) \subseteq ToSet(r.cookies)
  <2>1. TAKE x \in CallsOf(r)
  <2>2. PICK j \in DOMAIN r.ran : x \in {r.ran[j][p] : p \in DOMAIN r.ran[j]} BY DEF CallsOf
  <2>3. PICK p \in DOMAIN r.ran[j] : x = r.ran[j][p] BY <2>2
  <2> QED BY <1>4, <2>3 DEF Headed, Recorded, RecordOK
<1>6. \A x \in ToSet(r.cookies) : \E d \in CallsOf(r) : d.outcome = "ok" /\ x \in ToSet(Operations[d.op].cookies)
  <2>1. TAKE x \in ToSet(r.cookies)
  <2>2. PICK j \in DOMAIN r.ran : \E p \in DOMAIN r.ran[j] :
                 r.ran[j][p].outcome = "ok" /\ x \in ToSet(Operations[r.ran[j][p].op].cookies)
    BY <1>4 DEF Headed
  <2>3. PICK p \in DOMAIN r.ran[j] : r.ran[j][p].outcome = "ok" /\ x \in ToSet(Operations[r.ran[j][p].op].cookies)
    BY <2>2
  <2>4. r.ran[j][p] \in CallsOf(r) BY DEF CallsOf
  <2> QED BY <2>3, <2>4
<1>7. ToSet(Reply(r).cookies) = UNION {ToSet(Operations[x.op].cookies) : x \in {d \in CallsOf(r) : d.outcome = "ok"}}
  BY <1>3, <1>5, <1>6
<1>8. CacheStrict(r)
  <2>1. SUFFICES ASSUME NEW x \in CallsOf(r), CacheControl(r.merge) # None, x.outcome \in {"ok", "error"}
                 PROVE  \/ "no-store" \in CacheControl(r.merge)[1].bans
                        \/ /\ x.outcome = "ok" /\ Operations[x.op].headers.cc # None
                           /\ NoLooser(CacheControl(r.merge)[1], Operations[x.op].headers.cc[1])
    BY <1>3 DEF CacheStrict
  <2>2. MergeOK(r.merge) BY <1>4 DEF Headed
  <2>3. Covers(r.merge, x) /\ x.op \in DOMAIN Operations BY <1>5
  <2> DEFINE m == r.merge
  <2>4. MergeOK(m) /\ Covers(m, x) /\ CacheControl(m) # None BY <2>1, <2>2, <2>3
  <2> HIDE DEF m
  <2>5. \/ "no-store" \in CacheControl(m)[1].bans
        \/ /\ x.outcome = "ok" /\ Operations[x.op].headers.cc # None
           /\ NoLooser(CacheControl(m)[1], Operations[x.op].headers.cc[1])
    BY <2>1, <2>3, <2>4, AppliedStrict
  <2> QED BY <2>5 DEF m
<1> QED BY <1>7, <1>8

\* Every behaviour of the requests of gat keeps the limits of the gateway: at most
\* MaxOps operations of a request over all the documents of its batch, no mutation
\* over GET, no more than Parallel goroutines and one call in place, mutations one at a
\* time, one fill of a request's attribute and nobody waiting for a fill that is over
\* (gat.go serveRequest, serveBatch, parallel.go, attrs.go LockIfAbsentAndFill).
THEOREM LimitsKeptHolds == GatSpec => []LimitsKept
<1>1. GatInv => LimitsKept BY LimitsFollow
<1> QED BY <1>1, GatInvariant, PTL

\* An operation of a staged document is called once every exporter of what it reads
\* is over, sees the client's own values rather than exports, and is planned, counted
\* and staged by the schema its request met, whatever the host installs meanwhile and
\* whatever the caches hold (staging.go planStages, export.go stagesFor, gat.go run).
THEOREM ExportsSeenHolds == GatSpec => []ExportsSeen
<1>1. GatInv => ExportsSeen BY ExportsFollow
<1> QED BY <1>1, GatInvariant, PTL

\* The response of a request has the cookies of the operations that succeeded, in
\* whatever order they ended, and a Cache-Control that promises no more than that of
\* any of them (cookies.go, headers.go observe, restrict, apply).
THEOREM HeadersCombinedHolds == GatSpec => []HeadersCombined
<1>1. GatInv => HeadersCombined BY HeadersFollow
<1> QED BY <1>1, GatInvariant, PTL

=============================================================================
