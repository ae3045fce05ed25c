----------------------- MODULE GraphQLSubBrokerProofs -----------------------
(***************************************************************************)
(* Proofs about GraphQLSubBroker for any number of consumers, operations,  *)
(* connections and frames.                                                 *)
(***************************************************************************)
EXTENDS GraphQLSubBroker, FiniteSetTheorems, TLAPS

Started == {c \in Consumers : pc[c] # "new"}

(***************************************************************************)
(* The inductive invariant, beside the types.  Only shutdown and failAll   *)
(* hold a connection, and a consumer does neither before it has left.  An  *)
(* acquire makes at most one fanout, and knows its fanout.  A consumer     *)
(* that is on has its channel closed, or in the targets of a fanout that   *)
(* is not terminated.                                                      *)
(***************************************************************************)
ConnHeldToClose ==
    \A a \in Actors : work[a] # Nobody /\ work[a].kind \notin {"shutdown", "failAll"} => work[a].conn = 0
IdleUntilOff == \A c \in Consumers : pc[c] # "off" => work[c] = Nobody
MadeByAcquires == made <= Cardinality(Started)
FanoutsMade == \A k \in Keys : fanouts[k] <= made
FanoutKnown == \A c \in Consumers : pc[c] \in {"attach", "on", "leave"} => fan[c] \in Fanouts
OnIsTarget ==
    \A c \in Consumers : pc[c] = "on" =>
        c \in closed \/ (c \in targets[fan[c]] /\ fan[c] \notin terminal)

IInv ==
    /\ TypeOK /\ ConnHeldToClose /\ IdleUntilOff /\ MadeByAcquires /\ FanoutsMade
    /\ FanoutKnown /\ OnIsTarget /\ NoLostSocket /\ FanoutsOnConn

-----------------------------------------------------------------------------
(* Helpers.                                                                *)

LEMMA StartedFacts ==
    ASSUME TypeOK
    PROVE  /\ Cardinality(Started) \in Nat /\ Cardinality(Consumers) \in Nat
           /\ Cardinality(Started) <= Cardinality(Consumers)
           /\ \A c \in Consumers : pc[c] = "new" =>
                 /\ Cardinality(Started \cup {c}) = Cardinality(Started) + 1
                 /\ Cardinality(Started \cup {c}) <= Cardinality(Consumers)
<1>1. IsFiniteSet(Consumers) BY GraphQLSubBrokerAssumption
<1>2. Started \in SUBSET Consumers BY DEF Started
<1>3. IsFiniteSet(Started) /\ Cardinality(Started) <= Cardinality(Consumers)
  BY <1>1, <1>2, FS_Subset
<1>4. Cardinality(Started) \in Nat /\ Cardinality(Consumers) \in Nat
  BY <1>1, <1>3, FS_CardinalityType
<1>5. ASSUME NEW c \in Consumers, pc[c] = "new"
      PROVE  /\ Cardinality(Started \cup {c}) = Cardinality(Started) + 1
             /\ Cardinality(Started \cup {c}) <= Cardinality(Consumers)
  <2>1. c \notin Started BY <1>5 DEF Started
  <2>2. Cardinality(Started \cup {c}) = Cardinality(Started) + 1 BY <1>3, <2>1, FS_AddElement
  <2>3. Started \cup {c} \in SUBSET Consumers BY <1>2
  <2>4. Cardinality(Started \cup {c}) <= Cardinality(Consumers) BY <1>1, <2>3, FS_Subset
  <2> QED BY <2>2, <2>4
<1> QED BY <1>3, <1>4, <1>5

\* What a goroutine may start to do.
LEMMA WantIsWork == Doing("want") \in Work /\ Doing("want").kind = "want" /\ Doing("want").conn = 0
BY DEF Doing, Work

LEMMA CompleteIsWork ==
    ASSUME NEW f \in Fanouts, NEW w, w = [Doing("complete") EXCEPT !.fans = {f}, !.fan = f]
    PROVE  w \in Work /\ w.kind = "complete" /\ w.conn = 0
BY DEF Doing, Work

LEMMA NextIsWork ==
    ASSUME NEW C \in SUBSET Consumers, NEW w, w = [Doing("next") EXCEPT !.chans = C]
    PROVE  w \in Work /\ w.kind = "next" /\ w.conn = 0
BY DEF Doing, Work

LEMMA WorkChanges ==
    ASSUME NEW w \in Work, NEW f, NEW c
    PROVE  /\ [w EXCEPT !.conn = 0] \in Work /\ [w EXCEPT !.conn = 0].kind = w.kind
           /\ [w EXCEPT !.conn = 0].conn = 0
           /\ [w EXCEPT !.fans = @ \ {f}] \in Work /\ [w EXCEPT !.fans = @ \ {f}].kind = w.kind
           /\ [w EXCEPT !.fans = @ \ {f}].conn = w.conn
           /\ [w EXCEPT !.chans = @ \ {c}] \in Work /\ [w EXCEPT !.chans = @ \ {c}].kind = w.kind
           /\ [w EXCEPT !.chans = @ \ {c}].conn = w.conn
BY DEF Work

\* Every step gives at most one goroutine something new to do: from nothing, or
\* from work that holds no connection, or by letting go of the connection.
WorkStep(a, w) ==
    /\ work' = [work EXCEPT ![a] = w]
    /\ w # Nobody => w \in Work
    /\ \/ w = Nobody
       \/ w.kind \notin {"shutdown", "failAll"} /\ w.conn = 0
       \/ w.kind \in {"shutdown", "failAll"}
    /\ a \in Consumers /\ w # Nobody => pc'[a] = "off"
    /\ \/ work[a] = Nobody
       \/ work[a].conn = 0
       \/ work[a].conn \notin open'

LEMMA WorkSteps ==
    IInv /\ [Next]_vars =>
        work' = work \/ \E a \in Actors, w \in Work \cup {Nobody} : WorkStep(a, w)
<1> SUFFICES ASSUME IInv, [Next]_vars
             PROVE  work' = work \/ \E a \in Actors, w \in Work \cup {Nobody} : WorkStep(a, w)
  OBVIOUS
<1>0. /\ TypeOK /\ ConnHeldToClose /\ IdleUntilOff /\ work \in [Actors -> Work \cup {Nobody}]
      /\ Nobody \notin Work /\ \A c \in Consumers : c \in Actors /\ c \notin Conns
      /\ \A n \in Conns : n \in Actors /\ n \notin Consumers
      /\ Live \in SUBSET Fanouts /\ conn \in {0} \cup Conns
      /\ \A f \in Fanouts : targets[f] \in SUBSET Consumers
  BY GraphQLSubBrokerAssumption DEF IInv, TypeOK, Actors, Live
<1>1. ASSUME NEW c \in Consumers, AcquireFails(c) \/ Attach(c) \/ Release(c) \/ \E k \in Keys : Acquire(c, k)
      PROVE  work' = work
  BY <1>1 DEF AcquireFails, Attach, Release, Acquire
<1>2. ASSUME NEW c \in Consumers, Leave(c)
      PROVE  \E w \in Work \cup {Nobody} : WorkStep(c, w)
  <2>1. PICK w \in {Doing("want"), Nobody} : work' = [work EXCEPT ![c] = w]
    BY <1>2 DEF Leave, RemoveFanout
  <2>2. Doing("want") \in Work /\ Doing("want").kind = "want" /\ Doing("want").conn = 0 BY WantIsWork
  <2>3. pc'[c] = "off" /\ work[c] = Nobody BY <1>0, <1>2 DEF Leave, IdleUntilOff, TypeOK
  <2>4. WorkStep(c, w) BY <1>0, <2>1, <2>2, <2>3 DEF WorkStep
  <2> QED BY <2>1, <2>2, <2>4
<1>3. ASSUME NEW a \in Actors, Shutdown(a)
      PROVE  \E w \in Work \cup {Nobody} : WorkStep(a, w)
  <2> DEFINE x == [Doing("shutdown") EXCEPT !.conn = conn, !.fans = Live]
  <2>1. x \in Work /\ x.kind = "shutdown" BY <1>0 DEF Doing, Work
  <2>2. \/ work' = [work EXCEPT ![a] = Nobody]
        \/ work' = [work EXCEPT ![a] = x]
    BY <1>3 DEF Shutdown, TakeAll
  <2> HIDE DEF x
  <2>3. work[a].conn = 0 BY <1>0, <1>3 DEF Shutdown, ConnHeldToClose
  <2>4. a \in Consumers => pc'[a] = "off" BY <1>0, <1>3 DEF Shutdown, IdleUntilOff
  <2> QED BY <1>0, <2>1, <2>2, <2>3, <2>4 DEF WorkStep
<1>4. ASSUME NEW n \in Conns, FailAll(n)
      PROVE  \E w \in Work \cup {Nobody} : WorkStep(n, w)
  <2> DEFINE x == [Doing("failAll") EXCEPT !.conn = conn, !.fans = Live]
  <2>1. x \in Work /\ x.kind = "failAll" BY <1>0 DEF Doing, Work
  <2>2. work' = [work EXCEPT ![n] = x] /\ work[n] = Nobody BY <1>4 DEF FailAll, TakeAll
  <2> HIDE DEF x
  <2> QED BY <1>0, <2>1, <2>2 DEF WorkStep
<1>5. ASSUME NEW a \in Actors, CloseConn(a)
      PROVE  \E w \in Work \cup {Nobody} : WorkStep(a, w)
  <2> DEFINE x == [work[a] EXCEPT !.conn = 0]
  <2>1. work[a] \in Work /\ work[a].kind \in {"shutdown", "failAll"}
    BY <1>0, <1>5 DEF CloseConn, Taken
  <2>2. x \in Work /\ x.kind = work[a].kind BY <2>1, WorkChanges
  <2>3. work' = [work EXCEPT ![a] = x] /\ work[a].conn \notin open' BY <1>0, <1>5 DEF CloseConn
  <2>4. a \in Consumers => pc'[a] = "off" BY <1>0, <1>5 DEF CloseConn, Taken, IdleUntilOff
  <2> HIDE DEF x
  <2> QED BY <1>0, <2>1, <2>2, <2>3, <2>4 DEF WorkStep
<1>6. ASSUME NEW a \in Actors, NEW f \in Fanouts, Terminate(a, f)
      PROVE  \E w \in Work \cup {Nobody} : WorkStep(a, w)
  <2> DEFINE x == [work[a] EXCEPT !.fans = @ \ {f}]
  <2>1. work[a] \in Work /\ work[a].conn = 0 BY <1>0, <1>6 DEF Terminate
  <2>2. x \in Work /\ x.kind = work[a].kind /\ x.conn = 0 BY <2>1, WorkChanges
  <2>3. work' = [work EXCEPT ![a] = x] BY <1>0, <1>6 DEF Terminate
  <2>4. a \in Consumers => pc'[a] = "off" BY <1>0, <1>6 DEF Terminate, IdleUntilOff
  <2> HIDE DEF x
  <2> QED BY <1>0, <2>1, <2>2, <2>3, <2>4 DEF WorkStep
<1>7. ASSUME NEW a \in Actors, Reset(a)
      PROVE  \E w \in Work \cup {Nobody} : WorkStep(a, w)
  <2>1. work' = [work EXCEPT ![a] = Nobody] /\ work[a].conn = 0 BY <1>7 DEF Reset
  <2> QED BY <2>1 DEF WorkStep
<1>8. ASSUME NEW n \in Conns, NEW f \in Fanouts, ReadComplete(n, f)
      PROVE  \E w \in Work \cup {Nobody} : WorkStep(n, w)
  <2> DEFINE x == [Doing("complete") EXCEPT !.fans = {f}, !.fan = f]
  <2>1. x \in Work /\ x.kind = "complete" /\ x.conn = 0 BY CompleteIsWork
  <2>2. work' = [work EXCEPT ![n] = x] /\ work[n] = Nobody BY <1>8 DEF ReadComplete, Frame
  <2> HIDE DEF x
  <2> QED BY <1>0, <2>1, <2>2 DEF WorkStep
<1>9. ASSUME NEW n \in Conns, Completed(n)
      PROVE  \E w \in Work \cup {Nobody} : WorkStep(n, w)
  <2>1. PICK w \in {Doing("want"), Nobody} : work' = [work EXCEPT ![n] = w]
    BY <1>9 DEF Completed, RemoveFanout
  <2>2. Doing("want") \in Work /\ Doing("want").kind = "want" /\ Doing("want").conn = 0 BY WantIsWork
  <2>3. work[n].conn = 0 BY <1>0, <1>9 DEF Completed, ConnHeldToClose
  <2>4. WorkStep(n, w) BY <1>0, <2>1, <2>2, <2>3 DEF WorkStep
  <2> QED BY <2>1, <2>2, <2>4
<1>10. ASSUME NEW n \in Conns, NEW f \in Fanouts, ReadNext(n, f)
       PROVE  \E w \in Work \cup {Nobody} : WorkStep(n, w)
  <2> DEFINE x == [Doing("next") EXCEPT !.chans = targets[f]]
  <2>1. x \in Work /\ x.kind = "next" /\ x.conn = 0 BY <1>0, NextIsWork
  <2>2. work' = [work EXCEPT ![n] = x] /\ work[n] = Nobody BY <1>10 DEF ReadNext, Frame
  <2> HIDE DEF x
  <2> QED BY <1>0, <2>1, <2>2 DEF WorkStep
<1>11. ASSUME NEW n \in Conns, Send(n)
       PROVE  \E w \in Work \cup {Nobody} : WorkStep(n, w)
  <2>1. work[n] \in Work /\ work[n].kind = "next" /\ work[n].conn = 0
    BY <1>0, <1>11 DEF Send, ConnHeldToClose
  <2>2. CASE work' = [work EXCEPT ![n] = Nobody] BY <2>1, <2>2 DEF WorkStep
  <2>3. ASSUME NEW c, work' = [work EXCEPT ![n].chans = @ \ {c}]
        PROVE  \E w \in Work \cup {Nobody} : WorkStep(n, w)
    <3> DEFINE x == [work[n] EXCEPT !.chans = @ \ {c}]
    <3>1. x \in Work /\ x.kind = "next" /\ x.conn = 0 BY <2>1, WorkChanges
    <3>2. work' = [work EXCEPT ![n] = x] BY <1>0, <2>3
    <3> HIDE DEF x
    <3> QED BY <1>0, <2>1, <3>1, <3>2 DEF WorkStep
  <2> QED BY <1>11, <2>2, <2>3 DEF Send
<1>12. ASSUME NEW n \in Conns, Breaks(n) PROVE work' = work BY <1>12 DEF Breaks
<1>13. CASE UNCHANGED vars BY <1>13 DEF vars
<1> QED
  BY <1>0, <1>1, <1>2, <1>3, <1>4, <1>5, <1>6, <1>7, <1>8, <1>9, <1>10, <1>11, <1>12, <1>13 DEF Next

-----------------------------------------------------------------------------
(* Types.                                                                  *)

\* Cardinality(Consumers) is a number, so a fanout is one.
LEMMA FanoutNumbers == Cardinality(Consumers) \in Nat /\ Fanouts \subseteq Nat \ {0}
BY GraphQLSubBrokerAssumption, FS_CardinalityType DEF Fanouts

LEMMA WorkType == IInv /\ [Next]_vars => work' \in [Actors -> Work \cup {Nobody}]
BY WorkSteps DEF WorkStep, IInv, TypeOK

LEMMA RoomForFanout ==
    ASSUME IInv, NEW c \in Consumers, pc[c] = "new"
    PROVE  made + 1 \in Fanouts /\ made + 1 \in 0..Cardinality(Consumers)
<1>1. made <= Cardinality(Started) /\ made \in Nat BY FanoutNumbers DEF IInv, MadeByAcquires, TypeOK
<1>2. /\ Cardinality(Started) \in Nat /\ Cardinality(Consumers) \in Nat
      /\ Cardinality(Started \cup {c}) = Cardinality(Started) + 1
      /\ Cardinality(Started \cup {c}) <= Cardinality(Consumers)
  BY StartedFacts DEF IInv
<1> QED BY <1>1, <1>2 DEF Fanouts

LEMMA DialType ==
    ASSUME TypeOK, NEW e \in Endpoints, Dial(e)
    PROVE  /\ conn' \in Conns /\ dials' \in 0..MaxDials
           /\ dialed' \in [Conns -> Endpoints \cup {Nobody}]
           /\ open' \subseteq Conns /\ reading' \subseteq Conns
<1>1. CASE conn # 0 BY <1>1 DEF Dial, TypeOK
<1>2. CASE conn = 0
  <2>1. dials \in Nat /\ dials < MaxDials /\ MaxDials \in Nat
    BY <1>2, GraphQLSubBrokerAssumption DEF Dial, TypeOK
  <2>2. dials + 1 \in Conns /\ dials + 1 \in 0..MaxDials BY <2>1 DEF Conns
  <2> QED BY <1>2, <2>2 DEF Dial, TypeOK
<1> QED BY <1>1, <1>2

LEMMA TypeStep == IInv /\ [Next]_vars => TypeOK'
<1> SUFFICES ASSUME IInv, [Next]_vars PROVE TypeOK'
  OBVIOUS
<1> USE DEF brokerVars, upVars
<1>0. TypeOK /\ FanoutKnown /\ work' \in [Actors -> Work \cup {Nobody}] BY WorkType DEF IInv
<1>1. ASSUME NEW c \in Consumers, AcquireFails(c) PROVE TypeOK'
  BY <1>0, <1>1 DEF AcquireFails, TypeOK
<1>2. ASSUME NEW c \in Consumers, NEW k \in Keys, Acquire(c, k) PROVE TypeOK'
  <2>1. EndpointOf[c] \in Endpoints BY DEF Endpoints
  <2>2. /\ conn' \in Conns /\ dials' \in 0..MaxDials
        /\ dialed' \in [Conns -> Endpoints \cup {Nobody}]
        /\ open' \subseteq Conns /\ reading' \subseteq Conns
    BY <1>0, <1>2, <2>1, DialType DEF Acquire
  <2>3. made + 1 \in Fanouts /\ made + 1 \in 0..Cardinality(Consumers)
    BY <1>2, RoomForFanout DEF Acquire
  <2>4. fanouts[k] \in {0} \cup Fanouts BY <1>0 DEF TypeOK
  <2>5. pc' \in [Consumers -> {"new", "attach", "on", "leave", "off"}] BY <1>0, <1>2 DEF Acquire, TypeOK
  <2>6. fan' \in [Consumers -> {0} \cup Fanouts] BY <1>0, <1>2, <2>3, <2>4 DEF Acquire, TypeOK
  <2>7. fanouts' \in [Keys -> {0} \cup Fanouts] /\ made' \in 0..Cardinality(Consumers)
    BY <1>0, <1>2, <2>3 DEF Acquire, TypeOK
  <2>8. info' \in [Fanouts -> [key: Keys, conn: Conns] \cup {Nobody}]
    <3>1. [key |-> k, conn |-> conn'] \in [key: Keys, conn: Conns] BY <2>2
    <3>2. \/ info' = info
          \/ info' = [info EXCEPT ![made + 1] = [key |-> k, conn |-> conn']]
      BY <1>2 DEF Acquire
    <3> QED BY <1>0, <3>1, <3>2 DEF TypeOK
  <2> QED BY <1>0, <1>2, <2>2, <2>5, <2>6, <2>7, <2>8 DEF Acquire, TypeOK
<1>3. ASSUME NEW c \in Consumers, Attach(c) PROVE TypeOK'
  <2>1. fan[c] \in Fanouts BY <1>0, <1>3 DEF Attach, FanoutKnown
  <2>2. targets' \in [Fanouts -> SUBSET Consumers] BY <1>0, <1>3, <2>1 DEF Attach, TypeOK
  <2> QED BY <1>0, <1>3, <2>2 DEF Attach, TypeOK
<1>4. ASSUME NEW c \in Consumers, Release(c) PROVE TypeOK'
  <2>1. fan[c] \in Fanouts BY <1>0, <1>4 DEF Release, FanoutKnown
  <2>2. targets' \in [Fanouts -> SUBSET Consumers] BY <1>0, <1>4, <2>1 DEF Release, TypeOK
  <2>3. pc' \in [Consumers -> {"new", "attach", "on", "leave", "off"}] BY <1>0, <1>4 DEF Release, TypeOK
  <2> QED BY <1>0, <1>4, <2>2, <2>3 DEF Release, TypeOK
<1>5. ASSUME NEW c \in Consumers, Leave(c) PROVE TypeOK'
  <2>1. fanouts' \in [Keys -> {0} \cup Fanouts] BY <1>0, <1>5 DEF Leave, RemoveFanout, TypeOK
  <2> QED BY <1>0, <1>5, <2>1 DEF Leave, RemoveFanout, TypeOK
<1>6. ASSUME NEW a \in Actors, Shutdown(a) PROVE TypeOK'
  BY <1>0, <1>6 DEF Shutdown, TakeAll, TypeOK
<1>7. ASSUME NEW n \in Conns, FailAll(n) PROVE TypeOK'
  BY <1>0, <1>7 DEF FailAll, TakeAll, TypeOK
<1>8. ASSUME NEW a \in Actors, CloseConn(a) PROVE TypeOK'
  BY <1>0, <1>8 DEF CloseConn, TypeOK
<1>9. ASSUME NEW a \in Actors, NEW f \in Fanouts, Terminate(a, f) PROVE TypeOK'
  <2>1. targets[f] \in SUBSET Consumers /\ targets' \in [Fanouts -> SUBSET Consumers]
    BY <1>0, <1>9 DEF Terminate, TypeOK
  <2> QED BY <1>0, <1>9, <2>1 DEF Terminate, TypeOK
<1>10. ASSUME NEW a \in Actors, Reset(a) PROVE TypeOK'
  BY <1>0, <1>10 DEF Reset, TypeOK
<1>11. ASSUME NEW n \in Conns, Breaks(n) PROVE TypeOK'
  BY <1>0, <1>11 DEF Breaks, TypeOK
<1>12. ASSUME NEW n \in Conns, NEW f \in Fanouts, ReadComplete(n, f) PROVE TypeOK'
  BY <1>0, <1>12 DEF ReadComplete, TypeOK
<1>13. ASSUME NEW n \in Conns, Completed(n) PROVE TypeOK'
  <2>1. fanouts' \in [Keys -> {0} \cup Fanouts] BY <1>0, <1>13 DEF Completed, RemoveFanout, TypeOK
  <2> QED BY <1>0, <1>13, <2>1 DEF Completed, RemoveFanout, TypeOK
<1>14. ASSUME NEW n \in Conns, NEW f \in Fanouts, ReadNext(n, f) PROVE TypeOK'
  <2>1. frames' \in 0..MaxFrames BY <1>0, <1>14, GraphQLSubBrokerAssumption DEF ReadNext, TypeOK
  <2> QED BY <1>0, <1>14, <2>1 DEF ReadNext, TypeOK
<1>15. ASSUME NEW n \in Conns, Send(n) PROVE TypeOK'
  <2>1. panicked' \in BOOLEAN BY <1>0, <1>15 DEF Send, TypeOK
  <2> QED BY <1>0, <1>15, <2>1 DEF Send, TypeOK
<1>16. CASE UNCHANGED vars BY <1>0, <1>16 DEF vars, TypeOK
<1> QED
  BY <1>1, <1>2, <1>3, <1>4, <1>5, <1>6, <1>7, <1>8, <1>9, <1>10, <1>11, <1>12, <1>13, <1>14,
     <1>15, <1>16 DEF Next

-----------------------------------------------------------------------------
(* The other parts of the invariant.                                       *)

\* A consumer that is off stays off, and none becomes new again.
LEMMA OffStays ==
    IInv /\ [Next]_vars =>
        \A c \in Consumers : (pc[c] = "off" => pc'[c] = "off") /\ (pc'[c] = "new" => pc[c] = "new")
<1> SUFFICES ASSUME IInv, [Next]_vars, NEW c \in Consumers
             PROVE  (pc[c] = "off" => pc'[c] = "off") /\ (pc'[c] = "new" => pc[c] = "new")
  OBVIOUS
<1>1. pc \in [Consumers -> {"new", "attach", "on", "leave", "off"}] BY DEF IInv, TypeOK
<1>2. pc' = pc \/ \E d \in Consumers, v \in {"attach", "on", "leave", "off"} :
                     pc[d] # "off" /\ pc' = [pc EXCEPT ![d] = v]
  BY DEF Next, vars, AcquireFails, Attach, Release, Leave, Acquire, Shutdown, CloseConn, Reset,
         Terminate, FailAll, Breaks, Completed, Send, ReadComplete, ReadNext
<1> QED BY <1>1, <1>2

LEMMA WorkPreserved == IInv /\ [Next]_vars => ConnHeldToClose' /\ IdleUntilOff'
<1> SUFFICES ASSUME IInv, [Next]_vars PROVE ConnHeldToClose' /\ IdleUntilOff'
  OBVIOUS
<1>0. /\ ConnHeldToClose /\ IdleUntilOff /\ work \in [Actors -> Work \cup {Nobody}]
      /\ \A c \in Consumers : c \in Actors /\ (pc[c] = "off" => pc'[c] = "off")
  BY OffStays DEF IInv, TypeOK, Actors
<1>1. CASE work' = work BY <1>0, <1>1 DEF ConnHeldToClose, IdleUntilOff
<1>2. ASSUME NEW a \in Actors, NEW w \in Work \cup {Nobody}, WorkStep(a, w)
      PROVE  ConnHeldToClose' /\ IdleUntilOff'
  <2>1. work'[a] = w /\ \A b \in Actors : b # a => work'[b] = work[b] BY <1>0, <1>2 DEF WorkStep
  <2>2. ConnHeldToClose' BY <1>0, <1>2, <2>1 DEF WorkStep, ConnHeldToClose
  <2>3. IdleUntilOff' BY <1>0, <1>2, <2>1 DEF WorkStep, IdleUntilOff
  <2> QED BY <2>2, <2>3
<1> QED BY <1>1, <1>2, WorkSteps

\* What the steps do to b.conn and to the sockets: nothing new is open, or a
\* new connection is dialed, or b.conn moves into the hands of a goroutine.
LEMMA ConnSteps ==
    IInv /\ [Next]_vars =>
        \/ conn' = conn /\ open' \subseteq open
        \/ conn = 0 /\ work' = work /\ open' = open \cup {conn'}
        \/ /\ open' = open
           /\ \E a \in Actors, w \in Work : /\ work' = [work EXCEPT ![a] = w] /\ w.conn = conn
                                            /\ work[a] = Nobody \/ work[a].conn = 0
<1> SUFFICES ASSUME IInv, [Next]_vars
             PROVE  \/ conn' = conn /\ open' \subseteq open
                    \/ conn = 0 /\ work' = work /\ open' = open \cup {conn'}
                    \/ /\ open' = open
                       /\ \E a \in Actors, w \in Work :
                             /\ work' = [work EXCEPT ![a] = w] /\ w.conn = conn
                             /\ work[a] = Nobody \/ work[a].conn = 0
  OBVIOUS
<1>0. /\ ConnHeldToClose /\ Live \in SUBSET Fanouts /\ conn \in {0} \cup Conns
      /\ \A n \in Conns : n \in Actors
  BY DEF IInv, TypeOK, Live, Actors
<1>1. ASSUME NEW c \in Consumers, NEW k \in Keys, Acquire(c, k)
      PROVE  \/ conn' = conn /\ open' \subseteq open
             \/ conn = 0 /\ work' = work /\ open' = open \cup {conn'}
  BY <1>1 DEF Acquire, Dial
<1>2. ASSUME NEW a \in Actors, NEW kind \in {"shutdown", "failAll"}, TakeAll(a, kind), open' = open,
             work[a] = Nobody \/ work[a].conn = 0
      PROVE  \E w \in Work : /\ work' = [work EXCEPT ![a] = w] /\ w.conn = conn
                             /\ work[a] = Nobody \/ work[a].conn = 0
  <2> DEFINE x == [Doing(kind) EXCEPT !.conn = conn, !.fans = Live]
  <2>1. x \in Work /\ x.conn = conn BY <1>0 DEF Doing, Work
  <2>2. work' = [work EXCEPT ![a] = x] BY <1>2 DEF TakeAll
  <2> HIDE DEF x
  <2> QED BY <1>2, <2>1, <2>2
<1>3. ASSUME NEW a \in Actors, Shutdown(a)
      PROVE  \/ conn' = conn /\ open' = open
             \/ open' = open /\ TakeAll(a, "shutdown") /\ work[a].conn = 0
  BY <1>0, <1>3 DEF Shutdown, ConnHeldToClose
<1>4. ASSUME NEW n \in Conns, FailAll(n)
      PROVE  open' = open /\ TakeAll(n, "failAll") /\ work[n] = Nobody
  BY <1>4 DEF FailAll
<1>5. ASSUME NEW c \in Consumers, AcquireFails(c) \/ Attach(c) \/ Release(c) \/ Leave(c)
      PROVE  conn' = conn /\ open' \subseteq open
  BY <1>5 DEF AcquireFails, Attach, Release, Leave, RemoveFanout, brokerVars
<1>6. ASSUME NEW a \in Actors,
             CloseConn(a) \/ Reset(a) \/ \E f \in Fanouts : Terminate(a, f)
      PROVE  conn' = conn /\ open' \subseteq open
  BY <1>6 DEF CloseConn, Reset, Terminate, brokerVars
<1>7. ASSUME NEW n \in Conns, \/ Breaks(n) \/ Completed(n) \/ Send(n)
                              \/ \E f \in Fanouts : ReadComplete(n, f) \/ ReadNext(n, f)
      PROVE  conn' = conn /\ open' \subseteq open
  BY <1>7 DEF Breaks, Completed, Send, ReadComplete, ReadNext, RemoveFanout, brokerVars
<1>8. CASE UNCHANGED vars BY <1>8 DEF vars
<1> QED BY <1>0, <1>1, <1>2, <1>3, <1>4, <1>5, <1>6, <1>7, <1>8 DEF Next

LEMMA NoLostSocketPreserved == IInv /\ [Next]_vars => NoLostSocket'
<1> SUFFICES ASSUME IInv, [Next]_vars, NEW n \in open'
             PROVE  n = conn' \/ \E a \in Actors : work'[a] # Nobody /\ work'[a].conn = n
  BY DEF NoLostSocket
<1>0. /\ NoLostSocket /\ work \in [Actors -> Work \cup {Nobody}] /\ open \subseteq Conns
      /\ Nobody \notin Work /\ 0 \notin Conns
  BY GraphQLSubBrokerAssumption DEF IInv, TypeOK, Conns
<1>1. CASE conn' = conn /\ open' \subseteq open
  <2>1. CASE n = conn BY <1>1, <2>1
  <2>2. CASE n # conn
    <3>1. PICK a \in Actors : work[a] # Nobody /\ work[a].conn = n
      BY <1>0, <1>1, <2>2 DEF NoLostSocket
    <3>2. CASE work' = work BY <3>1, <3>2
    <3>3. ASSUME NEW b \in Actors, NEW w \in Work \cup {Nobody}, WorkStep(b, w)
          PROVE  work'[a] = work[a]
      BY <1>0, <1>1, <3>1, <3>3 DEF WorkStep
    <3> QED BY <3>1, <3>2, <3>3, WorkSteps
  <2> QED BY <2>1, <2>2
<1>2. CASE conn = 0 /\ work' = work /\ open' = open \cup {conn'}
  BY <1>0, <1>2 DEF NoLostSocket
<1>3. CASE /\ open' = open
           /\ \E a \in Actors, w \in Work : /\ work' = [work EXCEPT ![a] = w] /\ w.conn = conn
                                            /\ work[a] = Nobody \/ work[a].conn = 0
  <2>1. PICK a \in Actors, w \in Work : /\ work' = [work EXCEPT ![a] = w] /\ w.conn = conn
                                        /\ work[a] = Nobody \/ work[a].conn = 0
    BY <1>3
  <2>2. CASE n = conn BY <1>0, <2>1, <2>2
  <2>3. CASE n # conn
    <3>1. PICK b \in Actors : work[b] # Nobody /\ work[b].conn = n
      BY <1>0, <1>3, <2>3 DEF NoLostSocket
    <3>2. b # a BY <1>0, <1>3, <2>1, <3>1
    <3> QED BY <1>0, <2>1, <3>1, <3>2
  <2> QED BY <2>2, <2>3
<1> QED BY <1>1, <1>2, <1>3, ConnSteps

\* The fanouts of the broker change in an acquire, which may add one, or some
\* of them are taken out, together with the connection or not.
LEMMA FanoutSteps ==
    IInv /\ [Next]_vars =>
        \/ \E c \in Consumers, k \in Keys : Acquire(c, k)
        \/ /\ made' = made /\ info' = info /\ fan' = fan
           /\ \A k \in Keys : fanouts'[k] = 0 \/ (fanouts'[k] = fanouts[k] /\ conn' = conn)
<1> SUFFICES ASSUME IInv, [Next]_vars, ~ \E c \in Consumers, k \in Keys : Acquire(c, k)
             PROVE  /\ made' = made /\ info' = info /\ fan' = fan
                    /\ \A k \in Keys : fanouts'[k] = 0 \/ (fanouts'[k] = fanouts[k] /\ conn' = conn)
  OBVIOUS
<1>0. fanouts \in [Keys -> {0} \cup Fanouts] BY DEF IInv, TypeOK
<1>1. ASSUME NEW a, NEW f, RemoveFanout(a, f)
      PROVE  \A k \in Keys : fanouts'[k] = 0 \/ (fanouts'[k] = fanouts[k] /\ conn' = conn)
  BY <1>0, <1>1 DEF RemoveFanout
<1>2. ASSUME NEW c \in Consumers, AcquireFails(c) \/ Attach(c) \/ Release(c)
      PROVE  fanouts' = fanouts /\ conn' = conn /\ made' = made /\ info' = info /\ fan' = fan
  BY <1>2 DEF AcquireFails, Attach, Release, brokerVars
<1>3. ASSUME NEW c \in Consumers, Leave(c)
      PROVE  RemoveFanout(c, fan[c]) /\ made' = made /\ info' = info /\ fan' = fan
  BY <1>3 DEF Leave, RemoveFanout
<1>4. ASSUME NEW n \in Conns, Completed(n)
      PROVE  RemoveFanout(n, work[n].fan) /\ made' = made /\ info' = info /\ fan' = fan
  BY <1>4 DEF Completed, RemoveFanout
<1>5. ASSUME NEW a \in Actors, Shutdown(a)
      PROVE  /\ made' = made /\ info' = info /\ fan' = fan
             /\ \/ fanouts' = fanouts /\ conn' = conn
                \/ fanouts' = [k \in Keys |-> 0]
  BY <1>5 DEF Shutdown, TakeAll
<1>6. ASSUME NEW n \in Conns, FailAll(n)
      PROVE  made' = made /\ info' = info /\ fan' = fan /\ fanouts' = [k \in Keys |-> 0]
  BY <1>6 DEF FailAll, TakeAll
<1>7. ASSUME NEW a \in Actors, CloseConn(a) \/ Reset(a) \/ \E f \in Fanouts : Terminate(a, f)
      PROVE  fanouts' = fanouts /\ conn' = conn /\ made' = made /\ info' = info /\ fan' = fan
  BY <1>7 DEF CloseConn, Reset, Terminate, brokerVars
<1>8. ASSUME NEW n \in Conns, \/ Breaks(n) \/ Send(n)
                              \/ \E f \in Fanouts : ReadComplete(n, f) \/ ReadNext(n, f)
      PROVE  fanouts' = fanouts /\ conn' = conn /\ made' = made /\ info' = info /\ fan' = fan
  BY <1>8 DEF Breaks, Send, ReadComplete, ReadNext, brokerVars
<1>9. CASE UNCHANGED vars BY <1>9 DEF vars
<1> QED BY <1>1, <1>2, <1>3, <1>4, <1>5, <1>6, <1>7, <1>8, <1>9 DEF Next

LEMMA FanoutsPreserved == IInv /\ [Next]_vars => FanoutsMade' /\ FanoutsOnConn'
<1> SUFFICES ASSUME IInv, [Next]_vars PROVE FanoutsMade' /\ FanoutsOnConn'
  OBVIOUS
<1>0. /\ FanoutsMade /\ FanoutsOnConn /\ fanouts \in [Keys -> {0} \cup Fanouts]
      /\ conn \in {0} \cup Conns /\ dials \in Nat /\ made \in Nat /\ Fanouts \subseteq Nat \ {0}
      /\ info \in [Fanouts -> [key: Keys, conn: Conns] \cup {Nobody}]
  BY FanoutNumbers, GraphQLSubBrokerAssumption DEF IInv, TypeOK
<1>1. ASSUME NEW c \in Consumers, NEW k \in Keys, Acquire(c, k)
      PROVE  FanoutsMade' /\ FanoutsOnConn'
  <2>1. made + 1 \in Fanouts BY <1>1, RoomForFanout DEF Acquire
  <2>2. conn' # 0 /\ (conn # 0 => conn' = conn) BY <1>0, <1>1 DEF Acquire, Dial
  <2>3. \A j \in Keys : fanouts[j] # 0 => conn' = conn BY <1>0, <2>2 DEF FanoutsOnConn
  <2>4. CASE fanouts' = fanouts /\ made' = made /\ info' = info
    BY <1>0, <2>2, <2>3, <2>4 DEF FanoutsMade, FanoutsOnConn
  <2>5. CASE /\ made' = made + 1
             /\ info' = [info EXCEPT ![made + 1] = [key |-> k, conn |-> conn']]
             /\ fanouts' = [fanouts EXCEPT ![k] = made + 1]
    <3>1. \A j \in Keys : fanouts'[j] = IF j = k THEN made + 1 ELSE fanouts[j] BY <1>0, <2>5
    <3>2. \A j \in Keys : fanouts[j] \in Nat /\ fanouts[j] <= made
      <4>1. \A j \in Keys : fanouts[j] \in {0} \cup Fanouts BY <1>0
      <4>2. \A j \in Keys : fanouts[j] <= made BY <1>0 DEF FanoutsMade
      <4>3. \A f \in {0} \cup Fanouts : f \in Nat BY FanoutNumbers
      <4>4. \A j \in Keys : fanouts[j] \in Nat BY <4>1, <4>3
      <4> QED BY <4>2, <4>4
    <3>3. FanoutsMade' BY <1>0, <2>5, <3>1, <3>2 DEF FanoutsMade
    <3>4. info'[made + 1] = [key |-> k, conn |-> conn'] BY <1>0, <2>1, <2>5
    <3>5. ASSUME NEW j \in Keys, fanouts'[j] # 0
          PROVE  conn' # 0 /\ info'[fanouts'[j]] = [key |-> j, conn |-> conn']
      <4>1. CASE j = k BY <2>2, <3>1, <3>4, <4>1
      <4>2. CASE j # k
        <5>1. fanouts'[j] = fanouts[j] /\ fanouts[j] # 0 /\ fanouts[j] # made + 1
          BY <1>0, <3>1, <3>2, <3>5, <4>2
        <5>2. info'[fanouts[j]] = info[fanouts[j]] BY <1>0, <2>5, <5>1
        <5>3. info[fanouts[j]] = [key |-> j, conn |-> conn] /\ conn' = conn
          BY <1>0, <2>3, <5>1 DEF FanoutsOnConn
        <5> QED BY <2>2, <5>1, <5>2, <5>3
      <4> QED BY <4>1, <4>2
    <3> QED BY <3>3, <3>5 DEF FanoutsOnConn
  <2> QED BY <1>1, <2>4, <2>5 DEF Acquire
<1>2. CASE /\ made' = made /\ info' = info
           /\ \A k \in Keys : fanouts'[k] = 0 \/ (fanouts'[k] = fanouts[k] /\ conn' = conn)
  <2>1. FanoutsMade' BY <1>0, <1>2 DEF FanoutsMade
  <2>2. FanoutsOnConn' BY <1>0, <1>2 DEF FanoutsOnConn
  <2> QED BY <2>1, <2>2
<1> QED BY <1>1, <1>2, FanoutSteps

LEMMA AcquiresPreserved == IInv /\ [Next]_vars => MadeByAcquires' /\ FanoutKnown'
<1> SUFFICES ASSUME IInv, [Next]_vars PROVE MadeByAcquires' /\ FanoutKnown'
  OBVIOUS
<1>0. /\ TypeOK /\ TypeOK' /\ MadeByAcquires /\ FanoutKnown /\ made \in Nat /\ made' \in Nat
      /\ fan \in [Consumers -> {0} \cup Fanouts]
      /\ pc \in [Consumers -> {"new", "attach", "on", "leave", "off"}]
  BY TypeStep, FanoutNumbers DEF IInv, TypeOK
<1>1. Cardinality(Started) \in Nat /\ made <= Cardinality(Started)
  BY <1>0, StartedFacts DEF MadeByAcquires
<1>2. IsFiniteSet(Started') /\ Cardinality(Started') \in Nat /\ Cardinality(Started) <= Cardinality(Started')
  <2>1. Started \in SUBSET Started' /\ Started' \in SUBSET Consumers BY OffStays DEF Started
  <2>2. IsFiniteSet(Started') BY <2>1, GraphQLSubBrokerAssumption, FS_Subset
  <2> QED BY <2>1, <2>2, FS_Subset, FS_CardinalityType
<1>3. ASSUME NEW c \in Consumers, NEW k \in Keys, Acquire(c, k)
      PROVE  MadeByAcquires' /\ FanoutKnown'
  <2>1. pc[c] = "new" /\ made' \in {made, made + 1} /\ pc'[c] # "new" /\ \A d \in Consumers : d # c => pc'[d] = pc[d]
    BY <1>0, <1>3 DEF Acquire
  <2>2. Started' = Started \cup {c} BY <2>1 DEF Started
  <2>3. Cardinality(Started \cup {c}) = Cardinality(Started) + 1 BY <1>0, <2>1, StartedFacts
  <2>4. MadeByAcquires' BY <1>0, <1>1, <2>1, <2>2, <2>3 DEF MadeByAcquires
  <2>5. made + 1 \in Fanouts BY <2>1, RoomForFanout
  <2>6. fanouts[k] \in {0} \cup Fanouts BY <1>0 DEF TypeOK
  <2>7. pc'[c] = "attach" => fan'[c] \in Fanouts BY <1>0, <1>3, <2>5, <2>6 DEF Acquire
  <2>8. pc'[c] \in {"attach", "off"} /\ \A d \in Consumers : d # c => fan'[d] = fan[d]
    BY <1>0, <1>3 DEF Acquire
  <2>9. FanoutKnown' BY <1>0, <2>1, <2>7, <2>8 DEF FanoutKnown
  <2> QED BY <2>4, <2>9
<1>4. CASE made' = made /\ fan' = fan /\ ~ \E c \in Consumers, k \in Keys : Acquire(c, k)
  <2>1. MadeByAcquires' BY <1>0, <1>1, <1>2, <1>4 DEF MadeByAcquires
  <2>2. \A c \in Consumers : pc'[c] \in {"attach", "on", "leave"} => pc[c] \in {"attach", "on", "leave"}
    BY <1>0, <1>4 DEF Next, vars, AcquireFails, Attach, Release, Leave, Acquire, Shutdown, CloseConn,
         Reset, Terminate, FailAll, Breaks, Completed, Send, ReadComplete, ReadNext
  <2>3. FanoutKnown' BY <1>0, <1>4, <2>2 DEF FanoutKnown
  <2> QED BY <2>1, <2>3
<1> QED BY <1>3, <1>4, FanoutSteps

LEMMA OnIsTargetPreserved == IInv /\ [Next]_vars => OnIsTarget'
<1> SUFFICES ASSUME IInv, [Next]_vars PROVE OnIsTarget'
  OBVIOUS
<1> USE DEF brokerVars, upVars
<1>0. /\ OnIsTarget /\ FanoutKnown /\ targets \in [Fanouts -> SUBSET Consumers]
      /\ pc \in [Consumers -> {"new", "attach", "on", "leave", "off"}]
      /\ fan \in [Consumers -> {0} \cup Fanouts]
  BY DEF IInv, TypeOK
<1>1. ASSUME NEW c \in Consumers, Attach(c) PROVE OnIsTarget'
  <2>1. fan[c] \in Fanouts BY <1>0, <1>1 DEF Attach, FanoutKnown
  <2>2. CASE /\ fan[c] \notin terminal /\ targets' = [targets EXCEPT ![fan[c]] = @ \cup {c}]
             /\ closed' = closed /\ terminal' = terminal /\ fan' = fan
    <3>1. c \in targets'[fan[c]] /\ \A f \in Fanouts : targets[f] \subseteq targets'[f]
      BY <1>0, <2>1, <2>2
    <3>2. \A d \in Consumers : d # c => pc'[d] = pc[d] BY <1>0, <1>1 DEF Attach
    <3> QED BY <1>0, <2>2, <3>1, <3>2 DEF OnIsTarget, FanoutKnown
  <2>3. CASE fan[c] \in terminal
    BY <1>0, <1>1, <2>3 DEF Attach, OnIsTarget
  <2> QED BY <1>1, <2>2, <2>3 DEF Attach
<1>2. ASSUME NEW c \in Consumers, Release(c) PROVE OnIsTarget'
  <2>1. fan[c] \in Fanouts BY <1>0, <1>2 DEF Release, FanoutKnown
  <2>2. pc'[c] # "on" /\ \A d \in Consumers : d # c => pc'[d] = pc[d] BY <1>0, <1>2 DEF Release
  <2>3. \A f \in Fanouts, d \in Consumers : d # c /\ d \in targets[f] => d \in targets'[f]
    BY <1>0, <1>2, <2>1 DEF Release
  <2>4. closed \subseteq closed' /\ terminal' = terminal /\ fan' = fan BY <1>2 DEF Release
  <2> QED BY <1>0, <2>2, <2>3, <2>4 DEF OnIsTarget, FanoutKnown
<1>3. ASSUME NEW a \in Actors, NEW f \in Fanouts, Terminate(a, f) PROVE OnIsTarget'
  <2>1. /\ closed' = closed \cup targets[f] /\ terminal' = terminal \cup {f} /\ pc' = pc /\ fan' = fan
        /\ \A g \in Fanouts : g # f => targets'[g] = targets[g]
    BY <1>0, <1>3 DEF Terminate
  <2> QED BY <1>0, <2>1 DEF OnIsTarget, FanoutKnown
<1>4. ASSUME NEW c \in Consumers, AcquireFails(c) \/ Leave(c) \/ \E k \in Keys : Acquire(c, k)
      PROVE  OnIsTarget'
  <2>1. /\ targets' = targets /\ terminal' = terminal /\ closed' = closed /\ pc'[c] # "on"
        /\ \A d \in Consumers : d # c => pc'[d] = pc[d] /\ fan'[d] = fan[d]
    BY <1>0, <1>4 DEF AcquireFails, Leave, Acquire
  <2> QED BY <1>0, <2>1 DEF OnIsTarget
<1>5. CASE UNCHANGED <<targets, terminal, closed, pc, fan>> BY <1>0, <1>5 DEF OnIsTarget
<1>6. ASSUME NEW a \in Actors, Shutdown(a) \/ CloseConn(a) \/ Reset(a)
      PROVE  UNCHANGED <<targets, terminal, closed, pc, fan>>
  BY <1>6 DEF Shutdown, CloseConn, Reset
<1>7. ASSUME NEW n \in Conns, \/ FailAll(n) \/ Breaks(n) \/ Completed(n) \/ Send(n)
                              \/ \E f \in Fanouts : ReadComplete(n, f) \/ ReadNext(n, f)
      PROVE  UNCHANGED <<targets, terminal, closed, pc, fan>>
  BY <1>7 DEF FailAll, Breaks, Completed, Send, ReadComplete, ReadNext
<1>8. CASE UNCHANGED vars BY <1>5, <1>8 DEF vars
<1> QED BY <1>1, <1>2, <1>3, <1>4, <1>5, <1>6, <1>7, <1>8 DEF Next

-----------------------------------------------------------------------------
(* The theorems.                                                           *)

LEMMA InitInv == Init => IInv
<1> SUFFICES ASSUME Init PROVE IInv
  OBVIOUS
<1>1. Cardinality(Consumers) \in Nat /\ MaxDials \in Nat /\ MaxFrames \in Nat
  BY FanoutNumbers, GraphQLSubBrokerAssumption
<1>2. TypeOK
  <2>1. 0 \in 0..MaxDials /\ 0 \in 0..Cardinality(Consumers) /\ 0 \in 0..MaxFrames BY <1>1
  <2>2. info \in [Fanouts -> [key: Keys, conn: Conns] \cup {Nobody}] BY DEF Init
  <2>3. work \in [Actors -> Work \cup {Nobody}] BY DEF Init
  <2>4. dialed \in [Conns -> Endpoints \cup {Nobody}] BY DEF Init
  <2> QED BY <2>1, <2>2, <2>3, <2>4 DEF Init, TypeOK
<1>3. MadeByAcquires BY <1>2, StartedFacts DEF Init, MadeByAcquires
<1> QED
  BY <1>2, <1>3 DEF Init, IInv, ConnHeldToClose, IdleUntilOff, FanoutsMade, FanoutKnown, OnIsTarget,
     NoLostSocket, FanoutsOnConn, Actors

LEMMA IInvHolds == Spec => []IInv
<1>1. IInv /\ [Next]_vars => IInv'
  BY TypeStep, WorkPreserved, NoLostSocketPreserved, FanoutsPreserved, AcquiresPreserved,
     OnIsTargetPreserved DEF IInv
<1> QED BY <1>1, InitInv, PTL DEF Spec

(***************************************************************************)
(* The broker's fields, the fanouts and the goroutines have their types.   *)
(***************************************************************************)
THEOREM TypeCorrect == Spec => []TypeOK
<1>1. IInv => TypeOK BY DEF IInv
<1> QED BY <1>1, IInvHolds, PTL

(***************************************************************************)
(* Whatever acquires, releases, broken connections and new dials overlap,  *)
(* an open socket is the broker's, or some shutdown or failAll has it in   *)
(* hand and closes it: graphql_sub_broker.go loses none.                   *)
(***************************************************************************)
THEOREM NoLostSocketHolds == Spec => []NoLostSocket
<1>1. IInv => NoLostSocket BY DEF IInv
<1> QED BY <1>1, IInvHolds, PTL

(***************************************************************************)
(* No consumer keeps an open channel on a terminated fanout, also when it  *)
(* was between the two locks of acquire when the fanout was terminated.    *)
(***************************************************************************)
THEOREM TerminatedSeesEndHolds == Spec => []TerminatedSeesEnd
<1>1. IInv => TerminatedSeesEnd BY DEF IInv, OnIsTarget, TerminatedSeesEnd
<1> QED BY <1>1, IInvHolds, PTL

(***************************************************************************)
(* The fanouts that an acquire can join are subscriptions of the current   *)
(* connection, under their own key; b.fanouts never survives b.conn.       *)
(***************************************************************************)
THEOREM FanoutsOnConnHolds == Spec => []FanoutsOnConn
<1>1. IInv => FanoutsOnConn BY DEF IInv
<1> QED BY <1>1, IInvHolds, PTL
=============================================================================
