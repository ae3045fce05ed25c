----------------------------- MODULE HTTPRelay ----------------------------
(***************************************************************************)
(* An HTTP request through a gateway (gw/http_ingress.go, gw/openapi.go):  *)
(* the route of a document's operation it takes, the arguments read from   *)
(* it, the request those arguments become upstream, and the answer or the  *)
(* stream that comes back.                                                 *)
(*                                                                         *)
(* A JSON value is [t |-> type, v |-> value]; a string's value is one word *)
(* and a file is a value of type "file".  Arguments are a function from    *)
(* names to values.  A request has its path as a sequence of words, "/"    *)
(* between the segments, its query as pairs of a name and a text, a body   *)
(* ("json", or "form" with named parts) and its headers.                   *)
(***************************************************************************)
EXTENDS OpenAPISchema

Val(t, v) == [t |-> t, v |-> v]
NullValue == Val("null", "null")
IsFile(v) == v.t = "file"

\* fmt.Sprintf("%v", v).
Text(v) ==
    CASE v.t = "string" -> v.v
      [] v.t = "null"   -> "<nil>"
      [] OTHER -> ToString(v.v)
StringOf(text) == Val("string", text)

\* Percent-escapes of "/" and of "%", and back.
PathEscape(w)   == CASE w = "/" -> "%2F" [] w = "%2F" -> "%252F" [] OTHER -> w
PathUnescape(w) == CASE w = "%2F" -> "/" [] w = "%252F" -> "%2F" [] OTHER -> w

--------------------------------------------------------------------------
(* Routes                                                                  *)

RECURSIVE SplitFrom(_, _)
SplitFrom(segs, path) ==
    IF path = <<>> THEN segs
    ELSE SplitFrom(IF path[1] = "/" THEN Append(segs, <<>>)
                   ELSE [segs EXCEPT ![Len(segs)] = Append(@, path[1])], Tail(path))

\* parseRouteTemplate: the segments of a path, which starts behind its first "/".
Segments(path) == SplitFrom(<<<<>>>>, path)
IsParam(seg) == Len(seg) >= 2 /\ seg[1] = "{" /\ Last(seg) = "}"
ParamName(seg) == SubSeq(seg, 2, Len(seg) - 1)
HasParam(path) == \E i \in DOMAIN Segments(path) : IsParam(Segments(path)[i])

\* A captured segment is unescaped although r.URL.Path is already.
Captured(part) == StringOf(PathUnescape(part[1]))

Matches(segs, parts) ==
    /\ Len(segs) = Len(parts)
    /\ \A i \in DOMAIN segs : IF IsParam(segs[i]) THEN Len(parts[i]) = 1 ELSE segs[i] = parts[i]

PathArgs(segs, parts) ==
    [n \in {ParamName(segs[i]) : i \in {j \in DOMAIN segs : IsParam(segs[j])}} |->
        Captured(parts[CHOOSE i \in DOMAIN segs : IsParam(segs[i]) /\ ParamName(segs[i]) = n])]

\* r.URL.Path.
URLPath(req) == [i \in DOMAIN req.path |-> PathUnescape(req.path[i])]

\* lookupIngressRoute: a path without placeholders is found by its text, before
\* any template is tried.  Templates are tried in the order in which the document's
\* paths were ranged over, which is any order.
ExactRoutes(ops, req, path) ==
    {op \in ops : ~ HasParam(op.path) /\ op.method = req.method /\ op.path = path}
TemplateRoutes(ops, req, path) ==
    {op \in ops : HasParam(op.path) /\ op.method = req.method /\ Matches(Segments(op.path), Segments(path))}
FirstOf(exact, templates) == IF exact # {} THEN exact ELSE templates
Routes(doc, req) ==
    FirstOf(ExactRoutes(ToSet(ReadOperations(doc)), req, URLPath(req)),
            TemplateRoutes(ToSet(ReadOperations(doc)), req, URLPath(req)))

--------------------------------------------------------------------------
(* openAPIArgPlan                                                          *)

IsMultipart(op) == op.body # <<>> /\ op.body[1].form # <<>>
HasJSONBody(op) == op.body # <<>> /\ op.body[1].form = <<>> /\ op.body[1].json # <<>>

QueryNames(op) == {op.params[i].name : i \in {j \in DOMAIN op.params : op.params[j].in = "query"}}
PathNames(op)  == {op.params[i].name : i \in {j \in DOMAIN op.params : op.params[j].in = "path"}}
ParamNames(op) == {op.params[i].name : i \in DOMAIN op.params}

RECURSIVE IsBinaryProp(_)
IsBinaryProp(s) ==
    \/ "string" \in ToSet(At(s, "type", <<>>)) /\ At(s, "format", "") \in {"binary", "byte"}
    \/ "array" \in ToSet(At(s, "type", <<>>)) /\ Has(s, "items") /\ IsBinaryProp(s.items)

FormProps(op) == At(op.body[1].form[1], "props", <<>>)
FileProps(op) == {FormProps(op)[i][1] : i \in {j \in DOMAIN FormProps(op) : IsBinaryProp(FormProps(op)[j][2])}}

--------------------------------------------------------------------------
(* buildIngressArgs                                                        *)

\* Mutation: the last of several.
LastOf(vs) == Last(vs)

\* One text is a string, several are a list.
OneOrMany(vs) == IF Len(vs) = 1 THEN vs[1] ELSE Val("array", vs)
ValuesOf(pairs, name) ==
    FoldLeft(LAMBDA vs, p : IF p[1] = name THEN Append(vs, p[2]) ELSE vs, <<>>, pairs)
Texts(query) == [i \in DOMAIN query |-> <<query[i][1], StringOf(query[i][2])>>]
ByName(pairs, names) ==
    [n \in names \cap {pairs[i][1] : i \in DOMAIN pairs} |-> OneOrMany(ValuesOf(pairs, n))]

\* decodeMultipartFormArgs: every part, declared or not; a file for a property
\* that is none is refused.
FormRefused(op, req) ==
    \/ req.type # "form"
    \/ \E i \in DOMAIN req.body : IsFile(req.body[i][2]) /\ req.body[i][1] \notin FileProps(op)
FormArgs(req) == ByName(req.body, {req.body[i][1] : i \in DOMAIN req.body})

BodyArgs(op, req) ==
    CASE IsMultipart(op) -> FormArgs(req)
      [] ~ IsMultipart(op) /\ HasJSONBody(op) /\ req.type = "json" /\ req.body # NullValue ->
            <<"body">> :> req.body
      [] OTHER -> <<>>

\* The arguments of a request; none when it is refused.
IngressArgs(op, req) ==
    IF IsMultipart(op) /\ FormRefused(op, req) THEN <<>>
    ELSE <<BodyArgs(op, req) @@ ByName(Texts(req.query), QueryNames(op))
              @@ PathArgs(Segments(op.path), Segments(URLPath(req)))>>

--------------------------------------------------------------------------
(* buildOpenAPIRequest                                                     *)

HasUpload(args) ==
    \E n \in DOMAIN args : \/ IsFile(args[n])
                           \/ args[n].t = "array" /\ \E i \in DOMAIN args[n].v : IsFile(args[n].v[i])

RECURSIVE Resolve(_, _, _, _)
ResolveName(done, path, close, args, names) ==
    IF close > 0 /\ SubSeq(path, 2, close - 1) \in names \cap DOMAIN args
    THEN Resolve(Append(done, PathEscape(Text(args[SubSeq(path, 2, close - 1)]))),
                 SubSeq(path, close + 1, Len(path)), args, names)
    ELSE Resolve(Append(done, path[1]), Tail(path), args, names)
Resolve(done, path, args, names) ==
    CASE path = <<>> -> done
      [] path # <<>> /\ path[1] = "{" ->
            ResolveName(done, path, SelectInSeq(path, LAMBDA w : w = "}"), args, names)
      [] OTHER -> Resolve(Append(done, path[1]), Tail(path), args, names)
ResolvedPath(op, args) == Resolve(<<>>, op.path, args, PathNames(op))

\* A list repeats its name.
Repeated(name, v) ==
    IF v.t = "array" THEN [i \in DOMAIN v.v |-> <<name, Text(v.v[i])>>] ELSE <<<<name, Text(v)>>>>
QueryOf(op, args) ==
    FoldLeft(LAMBDA q, p : IF p.in = "query" /\ p.name \in DOMAIN args THEN q \o Repeated(p.name, args[p.name]) ELSE q,
             <<>>, op.params)

\* buildMultipartBody: every argument the URL does not have; a text for what is
\* no file.
Part(name, v) == <<name, IF IsFile(v) THEN v ELSE StringOf(Text(v))>>
FormParts(name, v) ==
    CASE v.t = "null"  -> <<>>
      [] v.t = "array" -> [i \in DOMAIN v.v |-> Part(name, v.v[i])]
      [] OTHER -> <<Part(name, v)>>
FormOf(op, args) ==
    FoldSet(LAMBDA n, ps : ps \o FormParts(n, args[n]), <<>>, DOMAIN args \ ParamNames(op))

Bodied(req, type, body) == [req EXCEPT !.type = type, !.body = body]
WithBody(op, args, req) ==
    CASE IsMultipart(op) \/ HasUpload(args) -> Bodied(req, "form", FormOf(op, args))
      [] ~ IsMultipart(op) /\ ~ HasUpload(args) /\ <<"body">> \in DOMAIN args /\ args[<<"body">>] # NullValue ->
            Bodied(req, "json", args[<<"body">>])
      [] OTHER -> req

\* forwardOpenAPIHeaders: the allowed headers of the request that came in, and
\* with them the tracing ones; an empty list forwards neither.
TraceHeaders == {"traceparent", "b3"}
DefaultForwarded == {"Authorization"}
Forwarded(allow, headers) ==
    IF allow = {} THEN <<>> ELSE [h \in DOMAIN headers \cap (allow \cup TraceHeaders) |-> headers[h]]

Request(method, path, query, headers) ==
    [method |-> method, path |-> path, query |-> query, type |-> "", body |-> NullValue, headers |-> headers]

Outgoing(op, args, allow, headers) ==
    WithBody(op, args, Request(op.method, ResolvedPath(op, args), QueryOf(op, args), Forwarded(allow, headers)))

\* serveIngress and dispatchOpenAPIRaw: what the upstream can be sent for req.
Relay(doc, req) ==
    UNION {{Outgoing(op, args, DefaultForwarded, req.headers) : args \in ToSet(IngressArgs(op, req))} :
              op \in Routes(doc, req)}

--------------------------------------------------------------------------
(* Answers                                                                 *)

\* gat.HTTPStatus, httpStatusToConnectCode.
HTTPStatus(code) ==
    CASE code = "Canceled" -> 499
      [] code \in {"InvalidArgument", "FailedPrecondition", "OutOfRange"} -> 400
      [] code = "Unauthenticated" -> 401
      [] code = "PermissionDenied" -> 403
      [] code = "NotFound" -> 404
      [] code \in {"AlreadyExists", "Aborted"} -> 409
      [] code = "ResourceExhausted" -> 429
      [] code = "Unimplemented" -> 501
      [] code = "Unavailable" -> 503
      [] code = "DeadlineExceeded" -> 504
      [] OTHER -> 500

HTTPStatusToConnectCode(status) ==
    CASE status = 401 -> "Unauthenticated"
      [] status = 403 -> "PermissionDenied"
      [] status \in {404, 410} -> "NotFound"
      [] status = 409 -> "AlreadyExists"
      [] status = 412 -> "FailedPrecondition"
      [] status \in {413, 429} -> "ResourceExhausted"
      [] status = 501 -> "Unimplemented"
      [] status \in {502, 503, 504} -> "Unavailable"
      [] status \in 400..499 \ {401, 403, 404, 409, 410, 412, 413, 429} -> "InvalidArgument"
      [] status \in 500..599 \ {501, 502, 503, 504} -> "Internal"
      [] OTHER -> "Unknown"

\* A failure is a gateway rejection with a code, which may carry the status of
\* an upstream, or a status error of a gRPC upstream.
HTTPStatusToCode(status) ==
    CASE status = 401 -> "UNAUTHENTICATED"
      [] status = 403 -> "PERMISSION_DENIED"
      [] status = 404 -> "NOT_FOUND"
      [] status = 429 -> "RESOURCE_EXHAUSTED"
      [] status \in 500..599 -> "INTERNAL"
      [] OTHER -> "INVALID_ARGUMENT"
CodeToHTTPStatus(code) ==
    CASE code = "UNAUTHENTICATED" -> 401
      [] code = "PERMISSION_DENIED" -> 403
      [] code = "RESOURCE_EXHAUSTED" -> 429
      [] code = "INVALID_ARGUMENT" -> 400
      [] code = "NOT_FOUND" -> 404
      [] OTHER -> 500

Rejection(code) == [kind |-> "reject", code |-> code, status |-> 0]
UpstreamStatus(status) == [kind |-> "reject", code |-> HTTPStatusToCode(status), status |-> status]
GRPCStatus(code) == [kind |-> "grpc", code |-> code, status |-> 0]

\* rejection.GetStatus, gat.ErrorCode, writeIngressDispatchError.
GetStatus(e) == IF e.status # 0 THEN e.status ELSE CodeToHTTPStatus(e.code)
ErrorCode(e) == IF e.kind = "grpc" THEN e.code ELSE HTTPStatusToConnectCode(GetStatus(e))
IngressStatus(e) == IF e.status # 0 THEN e.status ELSE HTTPStatus(ErrorCode(e))

--------------------------------------------------------------------------
(* Streams                                                                 *)

\* The stream of a route; SSE is the framing that is told apart, lines and
\* sequences of JSON texts carry their items as they are.  An item is the JSON of
\* an event's data field or the event itself, the envelope, whose data is JSON
\* unless it is a string.  x-item-schema does not count here.
IsEnvelope(s) == DataProp(s) # <<>> /\ ~ JSONContent(DataProp(s)[1][2])
RouteStream(op) ==
    IF JSONResponses(op) # <<>> THEN <<>>
    ELSE FlattenSeq([i \in DOMAIN Codes |->
             IF Has(op.responses, Codes[i]) THEN op.responses[Codes[i]].item ELSE <<>>])
SSEMode(s) ==
    CASE ~ IsEnvelope(s) /\ ~ (Branches(s) # <<>> /\ \A i \in DOMAIN Branches(s) : DataProp(Branches(s)[i]) # <<>>) -> "data"
      [] IsEnvelope(s) /\ PrimaryType(DataProp(s)[1][2]) \notin {"", "string"} -> "json"
      [] OTHER -> "text"

\* An SSE line is a field and its value, the line that ends an event has none.
\* The value of a data line is a whole JSON text or one line of a text.
Line(field, value) == <<field, value>>
EventEnd == <<>>
FieldLine(ev, field) == IF Has(ev, field) THEN <<Line(field, ev[field])>> ELSE <<>>

\* writeSSEEnvelope: a text's lines each in a field of their own.
DataLines(mode, data) ==
    IF mode = "text" THEN [i \in DOMAIN data |-> Line("data", data[i])] ELSE <<Line("data", data)>>
WriteSSE(mode, ev) ==
    IF mode = "data" THEN <<Line("data", ev), EventEnd>>
    ELSE FieldLine(ev, "event") \o FieldLine(ev, "id") \o FieldLine(ev, "retry")
            \o DataLines(mode, ev.data) \o <<EventEnd>>
WriteStream(mode, items) == FlattenSeq([i \in DOMAIN items |-> WriteSSE(mode, items[i])])

\* nextSSE: "id" lasts until it is set again, the other fields until the event
\* ends; an event without data is none.
ReaderStart == [out |-> <<>>, data |-> <<>>, fields |-> <<>>, lastID |-> <<>>]
SSEEvent(mode, r) ==
    IF mode = "data" THEN r.data[1]
    ELSE [data |-> IF mode = "text" THEN r.data ELSE r.data[1]] @@ r.fields @@ r.lastID

EventDone(mode, r) ==
    [r EXCEPT !.out = IF r.data = <<>> THEN @ ELSE Append(@, SSEEvent(mode, r)),
              !.data = <<>>, !.fields = <<>>]
ReadLine(mode, r, line) ==
    CASE line = EventEnd -> EventDone(mode, r)
      [] line # EventEnd /\ line[1] = "data" -> [r EXCEPT !.data = Append(@, line[2])]
      [] line # EventEnd /\ line[1] = "id"   -> [r EXCEPT !.lastID = IF line[2] = "" THEN <<>> ELSE "id" :> line[2]]
      [] line # EventEnd /\ line[1] \in {"event", "retry"} -> [r EXCEPT !.fields = With(@, line[1], line[2])]
      [] OTHER -> r

RECURSIVE ReadLines(_, _, _)
ReadLines(mode, r, lines) ==
    IF lines = <<>> THEN r.out ELSE ReadLines(mode, ReadLine(mode, r, lines[1]), Tail(lines))
ReadStream(mode, lines) == ReadLines(mode, ReaderStart, lines)
===========================================================================
