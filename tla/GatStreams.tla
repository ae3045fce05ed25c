----------------------------- MODULE GatStreams -----------------------------
(***************************************************************************)
(* Streams of the embedded gateway: an operation registered with           *)
(* RegisterSSE (gw/gat/sse.go) or Subscribe (gw/gat/subscribe.go) is       *)
(* served as a GraphQL subscription over graphql-transport-ws and as a     *)
(* gRPC server stream (gw/gat/stream.go, gw/gat/graphql_ws.go), behind the *)
(* middlewares REST clients go through (gw/gat/huma_middleware.go).        *)
(*                                                                         *)
(* Over GraphQL four goroutines hand an event on: the handler's run, the   *)
(* resolver that waits for it to start, the GraphQL library, and the       *)
(* connection's writer; over gRPC the run sends for itself.  The same      *)
(* operation runs on both surfaces here, each for a client of its own.     *)
(***************************************************************************)
EXTENDS Naturals, Sequences, SequencesExt

CONSTANTS
    Operations,    \* the streaming operations, see Operation
    EchoComplete   \* Gateway.EchoComplete

(***************************************************************************)
(* An operation and what its handler does: how it was registered, the      *)
(* declared event types, the status its middlewares, its input check or    *)
(* its source refuse the request with (0 when they let it pass), the       *)
(* values it sends (NoData is a message without data), whether it goes on  *)
(* when a send fails, and whether it ends by itself.                       *)
(***************************************************************************)
NoData == ""
Operation == [by: {"RegisterSSE", "Subscribe"}, declared: SUBSET STRING, refuses: Nat,
              sends: Seq(STRING), stubborn: BOOLEAN, endless: BOOLEAN]

ASSUME GatStreamsAssumption == Operations \subseteq Operation /\ EchoComplete \in BOOLEAN

VARIABLES
    streamOp,    \* the operation
    subCtx,      \* the subscription's context: "live", "completed" by the client, "lost" with the socket
    running,     \* GraphQL: where run is, the next value, and what it returned
    startedCh, doneCh, outClosed,  \* the channels of streamDispatcher.Dispatch
    resolverAt,  \* where Dispatch is, the status it returned
    library,     \* the GraphQL library: where it is, the result it hands over
    writerAt,    \* runGraphQLSubscription: where it is, the result it writes
    wsFrames,    \* frames the client was sent
    taken,       \* history: values whose send succeeded
    rpcRunning, rpcCtx, rpcSent, rpcEnd  \* the same over gRPC

dispatchVars == <<running, startedCh, doneCh, outClosed, resolverAt, library>>
rpcVars == <<rpcRunning, rpcCtx, rpcSent, rpcEnd>>
streamsVars == <<streamOp, subCtx, dispatchVars, writerAt, wsFrames, taken, rpcVars>>

Handing(at, status, ev) == [step |-> at, code |-> status, event |-> ev]
AtGate == [step |-> "gate", nth |-> 1]

StreamsInit ==
    /\ streamOp \in Operations
    /\ subCtx = "live" /\ running = AtGate
    /\ startedCh = FALSE /\ doneCh = <<>> /\ outClosed = FALSE
    /\ resolverAt = [step |-> "waiting", code |-> 0]
    /\ library = Handing("resolving", 0, NoData) /\ writerAt = Handing("ranging", 0, NoData)
    /\ wsFrames = <<>> /\ taken = <<>>
    /\ rpcRunning = AtGate /\ rpcCtx = "live" /\ rpcSent = <<>> /\ rpcEnd = <<>>

-----------------------------------------------------------------------------
(* The handler. *)

\* bindStreams: several declared types make the output a union.
IsUnion == \E a, b \in streamOp.declared : a # b

\* eventFor, which only a union consults.
EventKnown(v) == IsUnion => v \in streamOp.declared

\* A status of 499 stands for the error of a context that ended meanwhile.
Cancelled == 499

HasNext(r) == r.nth <= Len(streamOp.sends)
Value(r) == streamOp.sends[r.nth]
Skip(r) == [r EXCEPT !.nth = @ + 1]

\* What a handler does after a send failed: the source's loop and a well-behaved
\* handler return, a stubborn one tries the next.
AfterFailure(r) == IF streamOp.by = "RegisterSSE" /\ streamOp.stubborn THEN Skip([r EXCEPT !.step = "started"])
                   ELSE [r EXCEPT !.step = "returning"]

\* runChain, the input check and the source, for a context c: the request is
\* refused, or the stream starts.
PassesGate(r) == r.step = "gate" /\ streamOp.refuses = 0
MayRefuse(r, c) == r.step = "gate" /\ (streamOp.refuses # 0 \/ c # "live")
RefusedWith == IF streamOp.refuses # 0 THEN streamOp.refuses ELSE Cancelled

\* The handler's next move other than a send that is tried: a message without
\* data sends nothing, a send whose context is over or whose type is not declared
\* fails, and at the end it returns, an endless one when its context does.
Silent(r) == HasNext(r) /\ streamOp.by = "RegisterSSE" /\ Value(r) = NoData
Moves(r, c) ==
    /\ r.step = "started"
    /\ \/ ~HasNext(r) /\ (streamOp.endless => c # "live")
       \/ HasNext(r) /\ (Silent(r) \/ ~EventKnown(Value(r)) \/ c # "live")
Moved(r) == IF ~HasNext(r) THEN [r EXCEPT !.step = "returning"]
            ELSE IF Silent(r) THEN Skip(r) ELSE AfterFailure(r)

\* A send that gets as far as its channel or stream.
Sends(r, c) == /\ r.step = "started" /\ HasNext(r) /\ ~Silent(r) /\ EventKnown(Value(r))
               /\ streamOp.by = "Subscribe" \/ c = "live"

-----------------------------------------------------------------------------
(* GraphQL: streamDispatcher.Dispatch. *)

RunStarts ==
    /\ PassesGate(running)
    /\ running' = [running EXCEPT !.step = "started"] /\ startedCh' = TRUE
    /\ UNCHANGED <<streamOp, subCtx, doneCh, outClosed, resolverAt, library, writerAt, wsFrames, taken, rpcVars>>

\* The error goes to the resolver, then the channel is closed.
RunRefused ==
    /\ MayRefuse(running, subCtx)
    /\ running' = [running EXCEPT !.step = "closing"] /\ doneCh' = <<RefusedWith>>
    /\ UNCHANGED <<streamOp, subCtx, startedCh, outClosed, resolverAt, library, writerAt, wsFrames, taken, rpcVars>>

RunMoves ==
    /\ Moves(running, subCtx)
    /\ running' = Moved(running)
    /\ UNCHANGED <<streamOp, subCtx, startedCh, doneCh, outClosed, resolverAt, library, writerAt, wsFrames, taken, rpcVars>>

RunOffers ==
    /\ Sends(running, subCtx)
    /\ running' = [running EXCEPT !.step = "offering"]
    /\ UNCHANGED <<streamOp, subCtx, startedCh, doneCh, outClosed, resolverAt, library, writerAt, wsFrames, taken, rpcVars>>

\* emit: the library takes the event ...
Handover ==
    /\ running.step = "offering" /\ library.step = "reading"
    /\ running' = Skip([running EXCEPT !.step = "started"])
    /\ library' = Handing("holding", 0, Value(running))
    /\ taken' = Append(taken, Value(running))
    /\ UNCHANGED <<streamOp, subCtx, startedCh, doneCh, outClosed, resolverAt, writerAt, wsFrames, rpcVars>>

\* Mutation: emit waits for the library alone.
OfferWaits == FALSE /\ UNCHANGED streamsVars

\* ... or the context ends.
OfferFails ==
    /\ running.step = "offering" /\ subCtx # "live"
    /\ running' = AfterFailure(running)
    /\ UNCHANGED <<streamOp, subCtx, startedCh, doneCh, outClosed, resolverAt, library, writerAt, wsFrames, taken, rpcVars>>

RunReturns ==
    /\ running.step = "returning"
    /\ running' = [running EXCEPT !.step = "closing"] /\ doneCh' = <<0>>
    /\ UNCHANGED <<streamOp, subCtx, startedCh, outClosed, resolverAt, library, writerAt, wsFrames, taken, rpcVars>>

RunCloses ==
    /\ running.step = "closing"
    /\ running' = [running EXCEPT !.step = "over"] /\ outClosed' = TRUE
    /\ UNCHANGED <<streamOp, subCtx, startedCh, doneCh, resolverAt, library, writerAt, wsFrames, taken, rpcVars>>

\* Mutation: the channel is handed back at once.
ResolvesAtOnce ==
    /\ resolverAt.step = "waiting"
    /\ resolverAt' = [step |-> "stream", code |-> 0]
    /\ UNCHANGED <<streamOp, subCtx, running, startedCh, doneCh, outClosed, library, writerAt, wsFrames, taken, rpcVars>>

\* The resolver waits for the run to start or to end, whichever it sees first.
Resolves ==
    /\ resolverAt.step = "waiting"
    /\ \/ startedCh /\ resolverAt' = [step |-> "stream", code |-> 0] /\ UNCHANGED doneCh
       \/ /\ doneCh # <<>> /\ doneCh' = <<>>
          /\ resolverAt' = [step |-> IF doneCh[1] = 0 THEN "stream" ELSE "error", code |-> doneCh[1]]
    /\ UNCHANGED <<streamOp, subCtx, running, startedCh, outClosed, library, writerAt, wsFrames, taken, rpcVars>>

-----------------------------------------------------------------------------
(* graphql.Subscribe, external: it resolves the field, and maps what the   *)
(* channel yields to results until the channel or the context ends.        *)

LibraryResolves ==
    /\ library.step = "resolving"
    /\ \/ resolverAt.step = "stream" /\ library' = Handing("reading", 0, NoData)
       \/ resolverAt.step = "error" /\ library' = Handing("holding", resolverAt.code, NoData)
    /\ UNCHANGED <<streamOp, subCtx, running, startedCh, doneCh, outClosed, resolverAt, writerAt, wsFrames, taken, rpcVars>>

LibraryEnds ==
    /\ \/ library.step = "reading" /\ (outClosed \/ subCtx # "live")
       \/ library.step = "holding" /\ subCtx # "live"
    /\ library' = Handing("over", 0, NoData)
    /\ UNCHANGED <<streamOp, subCtx, running, startedCh, doneCh, outClosed, resolverAt, writerAt, wsFrames, taken, rpcVars>>

-----------------------------------------------------------------------------
(* runGraphQLSubscription. *)

\* The next result, unless the context ended.
WriterTakes ==
    /\ writerAt.step = "ranging" /\ library.step = "holding"
    /\ library' = Handing(IF library.code = 0 THEN "reading" ELSE "over", 0, NoData)
    /\ writerAt' = IF subCtx # "live" THEN Handing("over", 0, NoData)
                   ELSE Handing("writing", library.code, library.event)
    /\ UNCHANGED <<streamOp, subCtx, running, startedCh, doneCh, outClosed, resolverAt, wsFrames, taken, rpcVars>>

Frame(kind, status, ev) == [kind |-> kind, code |-> status, event |-> ev]
Written(frame) == wsFrames' = IF subCtx = "lost" THEN wsFrames ELSE Append(wsFrames, frame)

\* An error ends the subscription, an event is a next frame.
WriterWrites ==
    /\ writerAt.step = "writing"
    /\ \/ /\ writerAt.code # 0 /\ Written(Frame("error", writerAt.code, NoData))
          /\ writerAt' = Handing("over", 0, NoData)
       \/ /\ writerAt.code = 0 /\ Written(Frame("next", 0, writerAt.event))
          /\ writerAt' = Handing("ranging", 0, NoData)
    /\ UNCHANGED <<streamOp, subCtx, dispatchVars, taken, rpcVars>>

\* The stream ended: complete, unless the client said so first.
WriterCompletes ==
    /\ writerAt.step = "ranging" /\ library.step = "over"
    /\ writerAt' = Handing("over", 0, NoData)
    /\ IF subCtx = "live" \/ EchoComplete THEN Written(Frame("complete", 0, NoData)) ELSE UNCHANGED wsFrames
    /\ UNCHANGED <<streamOp, subCtx, dispatchVars, taken, rpcVars>>

\* The client completes, or its socket goes: the context ends (see Sessions).
ClientEnds ==
    /\ subCtx = "live" /\ subCtx' \in {"completed", "lost"}
    /\ UNCHANGED <<streamOp, dispatchVars, writerAt, wsFrames, taken, rpcVars>>

-----------------------------------------------------------------------------
(* gRPC: connectStream runs the handler and sends on the stream itself. *)

RPCStarts ==
    /\ PassesGate(rpcRunning)
    /\ rpcRunning' = [rpcRunning EXCEPT !.step = "started"]
    /\ UNCHANGED <<streamOp, subCtx, dispatchVars, writerAt, wsFrames, taken, rpcCtx, rpcSent, rpcEnd>>

\* The codes of gRPC that a stream may end with.
CodeOK == 0
CodeCanceled == 1
CodeUnknown == 2
CodeInvalidArgument == 3
CodeInternal == 13
CodeOf == 404 :> 5 @@ 410 :> 5 @@ 409 :> 6 @@ 403 :> 7 @@ 413 :> 8 @@ 429 :> 8 @@ 412 :> 9
          @@ 501 :> 12 @@ 502 :> 14 @@ 503 :> 14 @@ 504 :> 14 @@ 401 :> 16

\* httpStatusToConnectCode: the table's code, or that of the class of the status.
httpStatusToConnectCode(status) ==
    CASE status \in DOMAIN CodeOf -> CodeOf[status]
      [] status \notin DOMAIN CodeOf /\ status >= 500 -> CodeInternal
      [] status \notin DOMAIN CodeOf /\ status \in 400 .. 499 -> CodeInvalidArgument
      [] OTHER -> CodeUnknown

\* connectError, of the status a request was refused with.
ErrorCode == IF streamOp.refuses # 0 THEN httpStatusToConnectCode(streamOp.refuses) ELSE CodeCanceled

RPCRefused ==
    /\ MayRefuse(rpcRunning, rpcCtx)
    /\ rpcRunning' = [rpcRunning EXCEPT !.step = "over"]
    /\ rpcEnd' = <<ErrorCode>>
    /\ UNCHANGED <<streamOp, subCtx, dispatchVars, writerAt, wsFrames, taken, rpcCtx, rpcSent>>

RPCMoves ==
    /\ Moves(rpcRunning, rpcCtx)
    /\ rpcRunning' = Moved(rpcRunning)
    /\ UNCHANGED <<streamOp, subCtx, dispatchVars, writerAt, wsFrames, taken, rpcCtx, rpcSent, rpcEnd>>

\* stream.Send, which fails once the client is gone.
RPCSends ==
    /\ Sends(rpcRunning, rpcCtx)
    /\ IF rpcCtx = "live" THEN /\ rpcSent' = Append(rpcSent, Value(rpcRunning))
                               /\ rpcRunning' = Skip(rpcRunning)
       ELSE rpcRunning' = AfterFailure(rpcRunning) /\ UNCHANGED rpcSent
    /\ UNCHANGED <<streamOp, subCtx, dispatchVars, writerAt, wsFrames, taken, rpcCtx, rpcEnd>>

RPCReturns ==
    /\ rpcRunning.step = "returning"
    /\ rpcRunning' = [rpcRunning EXCEPT !.step = "over"] /\ rpcEnd' = <<CodeOK>>
    /\ UNCHANGED <<streamOp, subCtx, dispatchVars, writerAt, wsFrames, taken, rpcCtx, rpcSent>>

RPCClientEnds ==
    /\ rpcCtx = "live" /\ rpcCtx' = "lost"
    /\ UNCHANGED <<streamOp, subCtx, dispatchVars, writerAt, wsFrames, taken, rpcRunning, rpcSent, rpcEnd>>

-----------------------------------------------------------------------------
RunStep == \/ RunStarts \/ RunRefused \/ RunMoves \/ RunOffers \/ Handover
           \/ OfferFails \/ RunReturns \/ RunCloses
ServerStep == \/ Resolves \/ LibraryResolves \/ LibraryEnds
              \/ WriterTakes \/ WriterWrites \/ WriterCompletes
RPCStep == RPCStarts \/ RPCRefused \/ RPCMoves \/ RPCSends \/ RPCReturns

StreamsNext == RunStep \/ ServerStep \/ RPCStep \/ ClientEnds \/ RPCClientEnds

\* Every goroutine runs on; clients owe nothing.
StreamsFairness == WF_streamsVars(RunStep) /\ WF_streamsVars(ServerStep) /\ WF_streamsVars(RPCStep)
StreamsSpec == StreamsInit /\ [][StreamsNext]_streamsVars /\ StreamsFairness

-----------------------------------------------------------------------------
Ended == wsFrames # <<>> /\ Last(wsFrames).kind # "next"
\* The values of the next frames: all frames but the one that ends the stream.
NextCount == IF Ended THEN Len(wsFrames) - 1 ELSE Len(wsFrames)
Nexts == [i \in 1 .. NextCount |-> wsFrames[i].event]

\* The code that stands for the status of the other surface's last frame.
ConnectCode(status) == IF status = 0 THEN CodeOK ELSE httpStatusToConnectCode(status)

(***************************************************************************)
(* What a client of a stream may rely on.  Its next frames are what the    *)
(* handler sent, in order; the last frame, and only that one, ends the     *)
(* stream: with complete it has seen everything the handler's sends        *)
(* accepted, unless it asked to stop.  A request that was refused is an    *)
(* error frame with its status and nothing else, never an empty stream.    *)
(* And both surfaces serve the same: what an undisturbed gRPC client got   *)
(* is what an undisturbed GraphQL client got, and its stream ended with    *)
(* the code that stands for the other's status.                            *)
(***************************************************************************)
StreamFrames ==
    /\ IsPrefix(Nexts, taken)
    /\ \A i \in DOMAIN wsFrames : wsFrames[i].kind # "next" => i = Len(wsFrames)
    /\ Ended /\ subCtx = "live" /\ Last(wsFrames).kind = "complete" => Nexts = taken /\ streamOp.refuses = 0
    /\ Ended /\ Last(wsFrames).kind = "error" => Len(wsFrames) = 1 /\ ~startedCh
    /\ writerAt.step = "over" /\ subCtx = "live" /\ rpcEnd # <<>> /\ rpcCtx = "live" =>
        /\ Nexts = rpcSent
        /\ rpcEnd[1] = ConnectCode(Last(wsFrames).code)

(***************************************************************************)
(* A client that completes or disconnects frees everything its stream      *)
(* holds: the handler returns, whatever it was waiting for, and so do the  *)
(* resolver's, the library's and the connection's goroutines.              *)
(***************************************************************************)
StreamsEnd ==
    /\ subCtx # "live" ~> running.step = "over" /\ library.step = "over" /\ writerAt.step = "over"
    /\ rpcCtx # "live" ~> rpcEnd # <<>>
=============================================================================
