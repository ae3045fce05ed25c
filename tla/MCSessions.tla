----------------------------- MODULE MCSessions -----------------------------
(***************************************************************************)
(* Instances of Sessions, GatStreams and Uploads, checked side by side:    *)
(* they have no state in common, so a behaviour is one of one of them.     *)
(***************************************************************************)
EXTENDS Sessions, GatStreams, Integers, TLC

CONSTANTS c1, c2, p1, p2, Handlers, Declared, FileLen, MaxChunk, Limit, MaxLost, MaxFaults

VARIABLES part, dir, meta, body, stale, patch, client, pos, evictor, opened, resolver, lost, faults

ASSUME UploadsAssumption == Declared \subseteq Nat \cup {-1} /\ {FileLen, MaxChunk, Limit} \subseteq Nat

Up == INSTANCE Uploads

BothKinds == "a" :> "proto" @@ "b" :> "openapi"

Deploy(ip, total, each) == [ip |-> ip, MaxStreamsTotal |-> total, MaxStreams |-> each]
OneAddress == c1 :> p1 @@ c2 :> p1
OneTrusted == c1 :> p1 @@ c2 :> p2
\* Both caps, and each of them off.
Capped2 == {Deploy(OneAddress, 2, 1), Deploy(OneTrusted, 1, 1), Deploy(OneAddress, 1, 0), Deploy(OneAddress, 0, 1)}

\* Deferred, empty, shorter than what the client sends, and exact.
SomeLengths == {-1, 0, 2, 3}

\* Streams that are refused, that end, and that go on until the client leaves.
Op(by, declared, refuses, sends, stubborn, endless) ==
    [by |-> by, declared |-> declared, refuses |-> refuses, sends |-> sends, stubborn |-> stubborn, endless |-> endless]
SomeOperations ==
    {Op("RegisterSSE", {"Tick"}, 403, <<"Tick">>, FALSE, FALSE),
     Op("Subscribe", {}, 500, <<"Tick">>, FALSE, TRUE),
     Op("RegisterSSE", {"Tick"}, 0, <<>>, FALSE, FALSE),
     Op("RegisterSSE", {"Tick", "Bye"}, 0, <<"", "Tick", "Odd", "Bye">>, FALSE, FALSE),
     Op("RegisterSSE", {"Tick", "Bye"}, 0, <<"Tick", "Odd", "Bye">>, TRUE, TRUE),
     Op("Subscribe", {}, 0, <<"Tick", "Tick">>, FALSE, TRUE)}

UpVars == <<dir, meta, body, stale, patch, client, pos, evictor, opened, resolver, lost, faults>>
AllVars == <<part, vars, streamsVars, UpVars>>
EitherInit == /\ part \in {"sessions", "streams", "uploads"} /\ Init /\ StreamsInit /\ Up!Init
              /\ part # "sessions" => dep = CHOOSE d \in Deployments : TRUE
              /\ part # "streams" => streamOp = CHOOSE o \in Operations : TRUE
EitherNext == \/ part = "sessions" /\ Next /\ UNCHANGED <<part, streamsVars, UpVars>>
              \/ part = "streams" /\ StreamsNext /\ UNCHANGED <<part, vars, UpVars>>
              \/ part = "uploads" /\ Up!Next /\ UNCHANGED <<part, vars, streamsVars>>

\* StreamsFairness, where the streams are what runs.
FairWhenStreams == /\ WF_streamsVars(part = "streams" /\ RunStep)
                   /\ WF_streamsVars(part = "streams" /\ ServerStep)
                   /\ WF_streamsVars(part = "streams" /\ RPCStep)
Either == EitherInit /\ [][EitherNext]_AllVars /\ Fairness /\ FairWhenStreams

\* An upload is never mixed up or cut: Append keeps the body and the offset
\* together, whatever broke off or got lost (upload_store.go Append, upload_tus.go
\* servePatch), and a resolver that gets to open it reads the whole file as it was
\* declared (upload.go Open, upload_store.go Open).
UploadIntact == Up!BodyIsPrefix /\ Up!OpenedIsWhole
=============================================================================
