------------------------------ MODULE Translate ---------------------------
(***************************************************************************)
(* A service and the gateways it passes through.                           *)
(*                                                                         *)
(* A first gateway registers an OpenAPI document, the tools of an MCP      *)
(* server, or the protobuf file another gateway made of either.  Every     *)
(* gateway serves what it has registered in each format: an OpenAPI        *)
(* document in version 3.0 or 3.1, a protobuf file for gRPC clients, and   *)
(* its place in the GraphQL schema.  The next gateway registers the        *)
(* document; the file and the schema are looked at in every state.         *)
(***************************************************************************)
EXTENDS OpenAPIVersions, GraphQLRelay, MCPSchema, GRPCRelay

CONSTANTS
    Documents,  \* the documents a first gateway may register
    ToolLists,  \* the tool lists a first gateway may register
    Values,     \* the JSON values documents are told apart by
    MaxHops     \* gateways after the first

VARIABLES
    source,     \* what was registered first
    first,      \* the service the first gateway registered
    doc,        \* the document svc was read from, none for tools and files
    svc,        \* the service the last gateway registered
    files,      \* its file for gRPC clients, with what is read from that
    mirrors,    \* the operations a mirror of its GraphQL schema offers
    hops        \* the number of gateways after the first

vars == <<source, first, doc, svc, files, mirrors, hops>>

Package == <<"pkg">>
Namespace == <<"ns">>

\* A source has a document or tools; "file" says that it comes as a file.
Read(src) == IF src.tools = <<>> THEN IngestOpenAPI(src.doc[1]) ELSE IngestMCP(src.tools)

\* A reference to a type the service does not have, or to one proto has no
\* message for, dangles, and a method has its operation's name as it is; protodesc
\* refuses a file with a dangling reference, or with a method whose name is no
\* identifier or another's, and the service gets no gRPC routes.
MethodNames(s) == [i \in DOMAIN FlatOperations(s) |-> FlatOperations(s)[i].name]
FileServed(s) ==
    /\ Mentioned(s) \subseteq {n \in DOMAIN s.types : s.types[n].kind \in {"object", "input", "enum", "union"}}
    /\ \A name \in ToSet(MethodNames(s)) : ValidIdentifier(name)
    /\ IsInjective(MethodNames(s))

\* The file of a service that came without one, if protobuf accepts it.
FileRead(file) == <<[file |-> file, back |-> IngestProto(file), fd |-> Descriptor(file)]>>
FilesOf(s) == IF source.file \/ ~ FileServed(s) THEN <<>> ELSE FileRead(RenderProto(s, Package))

\* The namespace of the service as the latest version, with the first gateway's
\* beside it as version 1, which is the stable one.
MirrorRead(schema) == IF SchemaBuilds(schema) THEN <<FlatOperations(IngestGraphQL(schema))>> ELSE <<>>
MirrorsOf(s, t) ==
    MirrorRead(RenderGraphQL(Namespace, <<[svc |-> s, ver |-> "v1"], [svc |-> t, ver |-> "v2"]>>, 1))

Sources == [doc : {<<d>> : d \in Documents}, tools : {<<>>}, file : BOOLEAN]
               \cup [doc : {<<>>}, tools : {l \in ToolLists : ToolsAccepted(l)}, file : BOOLEAN]

FirstRegistered(s) == /\ source.file => FileServed(s)
                  /\ first = IF source.file THEN IngestProto(RenderProto(s, Package)) ELSE s

Init == /\ source \in Sources
        /\ FirstRegistered(Read(source))
        /\ doc = IF source.file THEN <<>> ELSE source.doc
        /\ svc = first
        /\ files = FilesOf(svc)
        /\ mirrors = MirrorsOf(first, svc)
        /\ hops = 0

\* RenderOpenAPIWith: an OpenAPI service by its own document.
Document == IF svc.origin = "openapi" THEN doc[1] ELSE RenderOpenAPI(svc)

In(version, d) == IF version = "3.0" THEN To30(d) ELSE To31(d)

\* The next gateway registers the document the last one serves.
Serve(version) ==
    /\ hops < MaxHops /\ hops' = hops + 1
    /\ doc' = <<In(version, Document)>>
    /\ svc' = IngestOpenAPI(doc'[1])
    /\ files' = FilesOf(svc')
    /\ mirrors' = MirrorsOf(first, svc')
    /\ UNCHANGED <<source, first>>

Next == \E version \in {"3.0", "3.1"} : Serve(version)

Spec == Init /\ [][Next]_vars

--------------------------------------------------------------------------
(* The schemas                                                             *)

\* Null is declared in one place of the schema and an enum beside it lists it:
\* the way up writes each declaration of null where the first one stood.
RECURSIVE NullDeclaredOnce(_)
NullDeclaredOnce(s) ==
    LET listed == Cardinality({k \in {"oneOf", "anyOf"} :
                      \E i \in DOMAIN At(s, k, <<>>) : OnlyNull(s[k][i])})
        twice  == \E k \in {"oneOf", "anyOf"} : \E i, j \in DOMAIN At(s, k, <<>>) :
                      i # j /\ OnlyNull(s[k][i]) /\ OnlyNull(s[k][j])
        own    == IF TypeHasNull(s) THEN 1 ELSE 0
    IN  /\ listed + own <= 1
        /\ ~ twice
        /\ TypeHasNull(s) /\ Has(s, "enum") => "null" \in ToSet(s.enum)
        /\ \A k \in DOMAIN s \cap {"oneOf", "anyOf", "allOf"} :
               \A i \in DOMAIN s[k] : NullDeclaredOnce(s[k][i])
        /\ \A i \in DOMAIN At(s, "props", <<>>) : NullDeclaredOnce(s.props[i][2])
        /\ \A k \in DOMAIN s \cap {"items", "addl", "not"} : NullDeclaredOnce(s[k])

FromDocument == source.doc # <<>> /\ ~ source.file
ComponentAt(d, n) == CHOOSE i \in DOMAIN d.schemas : d.schemas[i][1] = n
Version(ds) == ds[1].version

\* A 3.1 document that was served as 3.0 on the way and as 3.1 again accepts
\* exactly the values its source does, component by component: the table of
\* conversions is lossless where null is declared once (docs/gat.md "OpenAPI
\* version"; render_openapi30.go, render_openapi31.go).
AcceptsTheSame ==
    FromDocument /\ Version(source.doc) = "3.1" /\ Version(doc) = "3.1" =>
        LET was == source.doc[1].schemas
            is  == doc[1].schemas
        IN  \A i \in DOMAIN was : NullDeclaredOnce(was[i][2]) =>
                \A v \in Values : Accepts(was, was[i][2], v)
                                     = Accepts(is, is[ComponentAt(doc[1], was[i][1])][2], v)

--------------------------------------------------------------------------
(* The operations                                                          *)

\* The services under which the operations of a document are registered.
OpSignatures(s) == {[name |-> s.ops[i].name, kind |-> s.ops[i].kind,
                     method |-> s.ops[i].method] : i \in DOMAIN s.ops}

\* However often a document is converted, it registers with the operations of
\* its source, QUERY, custom-method and streamed ones included: what 3.0 and 3.1
\* cannot hold is in the extensions ReadOperations and ItemSchemas read
\* (docs/gat.md; ingest_openapi.go ReadOperations, openapi_stream.go).
OperationsKept ==
    FromDocument => OpSignatures(svc) = OpSignatures(first)

\* The requirements a caller of the operation has to meet, one of them.
Effective(d, op) ==
    IF op.security # <<>> THEN op.security[1]
    ELSE IF d.security # <<>> THEN d.security[1] ELSE <<>>

\* An operation never asks for other requirements than its source does: in 3.0
\* the ones without mutual TLS, in 3.1 all of them again.  In particular, an
\* operation whose own requirements all go does not take over the document's
\* (render_openapi30.go security).
SecurityKept ==
    FromDocument =>
        \A i \in DOMAIN doc[1].ops :
            LET src == source.doc[1]
                was == Effective(src, src.ops[i])
            IN  Effective(doc[1], doc[1].ops[i])
                    = IF Version(doc) = "3.0"
                      THEN SelectSeq(was, LAMBDA r : r \cap src.mtls = {}) ELSE was

\* A document that was served by other gateways says what its source said: the
\* same values are accepted, the same operations offered, the same requirements
\* made, as spelled out above.
DocumentKept == AcceptsTheSame /\ OperationsKept /\ SecurityKept

--------------------------------------------------------------------------
(* The file descriptor for gRPC clients                                    *)

Names(list) == {list[i].name : i \in DOMAIN list}

\* The type names a file uses.
RECURSIVE UsedBy(_)
UsedBy(m) == {m.fields[i].type : i \in {j \in DOMAIN m.fields : m.fields[j].kind \in {"message", "enum"}}}
                 \cup UNION {UsedBy(m.nested[i]) : i \in DOMAIN m.nested}

\* The names a file declares in its package.
Declared(f) == [i \in DOMAIN f.messages |-> f.messages[i].name] \o [i \in DOMAIN f.enums |-> f.enums[i].name]
                   \o FlattenSeq([i \in DOMAIN f.enums |-> f.enums[i].values])

RECURSIVE WellFormed(_)
WellFormed(m) ==
    /\ Cardinality(Names(m.fields)) = Len(m.fields)
    /\ Cardinality({m.fields[i].number : i \in DOMAIN m.fields}) = Len(m.fields)
    /\ Cardinality(Names(m.nested)) = Len(m.nested)
    /\ \A name \in Names(m.fields) \cup Names(m.nested) : ValidIdentifier(name)
    /\ \A i \in DOMAIN m.nested : WellFormed(m.nested[i])

\* Every service whose references resolve and whose operations have names proto
\* can spell is rendered as a file that protobuf accepts: every type name
\* resolves, no two messages, enums or enum values of the package share a name,
\* no two methods do, every declared name is an identifier, and no two fields of
\* a message share a name or a number.  A nested list or map needs boxes of its
\* own, which their parents host (render_proto.go renderProtoField,
\* renderProtoMapEntry, uniqueSynthName, sanitizeProtoIdentifier).
FileResolves ==
    files # <<>> =>
        LET f     == files[1].file
            all   == {p[1] : p \in AllMessages(f.messages, Package)}
            enums == {Package \o <<".">> \o n : n \in Names(f.enums)}
        IN  /\ UNION {UsedBy(f.messages[i]) : i \in DOMAIN f.messages} \subseteq all \cup enums
            /\ {f.methods[i].in : i \in DOMAIN f.methods} \cup {f.methods[i].out : i \in DOMAIN f.methods}
                   \subseteq all
            /\ IsInjective(Declared(f)) /\ \A name \in ToSet(Declared(f)) : ValidIdentifier(name)
            /\ Cardinality(Names(f.methods)) = Len(f.methods)
            /\ \A name \in Names(f.methods) : ValidIdentifier(name)
            /\ \A i \in DOMAIN f.messages : WellFormed(f.messages[i])

\* What a reference describes once the boxes are looked through.  A box is a
\* message that is not one of the file's own.
RECURSIVE Shape(_, _, _)
Shape(types, top, r) ==
    CASE r.k = "builtin" -> <<ProtoScalar(r.scalar)>>
      [] r.k = "unknown" -> <<"string">>
      [] r.k = "list"    -> <<"list", Shape(types, top, r.elem)>>
      [] r.k = "map"     -> <<"map", Shape(types, top, r.val)>>
      [] r.k = "named" /\ QualifyTop(r.name, Package) \in top -> QualifyTop(r.name, Package)
      [] OTHER -> LET f == types[r.name].fields[1]
                      e == Shape(types, top, f.type)
                  IN  IF f.repeated THEN <<"list", e>> ELSE e

FieldShape(types, top, f) ==
    LET e == Shape(types, top, f.type) IN IF f.repeated THEN <<"list", e>> ELSE e

\* A list of maps has no box: it is rendered as the map alone.
RECURSIVE ListOfMaps(_, _)
ListOfMaps(r, listed) ==
    CASE r.k = "map"  -> listed \/ ListOfMaps(r.val, FALSE)
      [] r.k = "list" -> ListOfMaps(r.elem, TRUE)
      [] OTHER -> FALSE

\* A gateway that registers the rendered file reads the shapes the document
\* described: lists of lists and maps of maps come back through the boxes they
\* were put in (render_proto.go, ingest_proto.go).
ShapesThroughProto ==
    files # <<>> =>
        LET own  == svc.types
            file == files[1].file
            back == files[1].back.types
            top  == {Package \o <<".">> \o n : n \in Names(file.messages) \cup Names(file.enums)}
        IN  \A n \in DOMAIN own : own[n].kind \in {"object", "input"} =>
                LET was == SelectSeq(own[n].fields, LAMBDA f : ValidIdentifier(f.name))
                    is  == back[QualifyTop(n, Package)].fields
                IN  /\ Len(is) = Len(was)
                    /\ \A i \in DOMAIN was : ~ ListOfMaps(was[i].type, was[i].repeated) =>
                           FieldShape(own, top, was[i]) = FieldShape(back, top, is[i])

\* The file gRPC clients get is one protobuf accepts, and describes the shapes
\* of the registered service.
FileFaithful == FileResolves /\ ShapesThroughProto

--------------------------------------------------------------------------
(* The GraphQL schema                                                      *)

\* Whether values are required on each level of a slot's lists.
RECURSIVE RefLayers(_)
RefLayers(r) == IF r.k = "list" THEN <<r.itemRequired>> \o RefLayers(r.elem) ELSE <<>>
Layers(f) == <<f.required>> \o (IF f.repeated THEN <<f.itemRequired>> ELSE <<>>) \o RefLayers(f.type)

\* Where version 1 and version 2 of an operation stand, flattened.
Places(kind) ==
    LET at(path) == Namespace \o <<"_">> \o path
    IN  {<<svc, at(<<>>)>>} \cup {<<first, at(<<v, "_">>)>> : v \in {"v1", "stable"}}
            \cup (IF kind = "subscription" THEN {} ELSE {<<svc, at(<<"v2", "_">>)>>})

TakesUnion(s) == \E i \in DOMAIN s.ops : \E j \in DOMAIN s.ops[i].args :
    LET l == Leaf(s.ops[i].args[j].type)
    IN  l.k = "named" /\ l.name \in DOMAIN s.types /\ s.types[l.name].kind \in {"union", "interface"}

\* Every operation, argument and type has a name GraphQL can spell.  The types of
\* a proto service have their dots replaced; in its OpenAPI document they keep them.
Spelled(s) ==
    /\ \A i \in DOMAIN s.ops : /\ ValidGraphQL(s.ops[i].name)
                               /\ \A a \in ToSet(s.ops[i].args) : ValidGraphQL(a.name)
    /\ s.origin # "proto" => \A n \in DOMAIN s.types : ValidGraphQL(n)
Offerable(s) == Spelled(s) /\ ~ TakesUnion(s)

\* Two versions and the stable alias fit into one GraphQL schema, and a gateway
\* that mirrors it by introspection offers every operation with arguments in all
\* its places, with the same arguments and the same lists and nulls as the
\* registered service (render_graphql_runtime.go buildNamespaceFold,
\* typebuilder.go; ingest_graphql.go tryGraphQLGroup).  A service whose
\* operation takes a union has no schema.  Nor has one with a name that
\* graphql.NewSchema refuses: an operation without an operationId, which is named
\* by its method and path, or a component with a dot, such as a proto service's.
MirrorOffers ==
    Offerable(first) /\ Offerable(svc) =>
        /\ mirrors # <<>>
        /\ LET mirror == ToSet(mirrors[1])
               Same(f, g) == f.name = g.name /\ Layers(f) = Layers(g)
           IN  \A kind \in {"query", "mutation", "subscription"} : \A p \in Places(kind) :
                   \A op \in ToSet(p[1].ops) : op.kind = kind /\ op.args # <<>> =>
                       \E m \in mirror :
                           /\ m.name = p[2] \o op.name /\ m.kind = kind
                           /\ Len(m.args) = Len(op.args)
                           /\ \A i \in DOMAIN m.args : Same(m.args[i], op.args[i])
                           /\ op.out # <<>> => Layers(m.out[1]) = Layers(op.out[1])

\* Every registered service is served as gRPC (docs/operations.md), and a schema
\* build is not failed by a name an OpenAPI document has (ingest_openapi.go
\* isGraphQLName).  Neither holds: both are lost to an operation without an
\* operationId (ingestOpenAPIOp; grpc_ingress.go addCanonicalArgsGRPCRoutesLocked).
ServedAsGRPC == source.file \/ files # <<>>
ServedAsGraphQL == TakesUnion(first) \/ TakesUnion(svc) \/ mirrors # <<>>

--------------------------------------------------------------------------
(* The document of a service that came without one                         *)

\* The slots operation op offers its callers, those of its JSON body included.
Slots(s, op) ==
    ToSet(op.args) \cup
        UNION {ToSet(s.types[op.args[i].type.name].fields) :
                  i \in {j \in DOMAIN op.args : /\ op.args[j].loc = "body" /\ op.args[j].type.k = "named"
                                                /\ op.args[j].type.name \in DOMAIN s.types}}

\* A gateway that registers the document of an MCP or proto service offers every
\* unary operation of it under its name, and every argument, be it as a parameter,
\* in the body or, an object, as the body, with the same lists and required values
\* (render_openapi.go renderOpenAPIOp; ingest_openapi.go).
DocumentOffers ==
    hops = 1 /\ ~ FromDocument =>
        \A op \in {o \in ToSet(first.ops) : o.kind # "subscription"} :
            \E m \in ToSet(svc.ops) :
                /\ m.name = op.name
                /\ \A a \in ToSet(op.args) : \E f \in Slots(svc, m) :
                       /\ Layers(f) = Layers(a)
                       /\ f.name = a.name \/ (a.type.k = "named" /\ f.name = <<"body">>)
--------------------------------------------------------------------------
(* HTTP requests                                                           *)

\* The arguments a caller of op has: a text or a number in the path, a text, a
\* list or nothing in the query, a value or nothing in the body, every part of
\* a form.
PathChoices == {StringOf("a"), Val("integer", 1)}
QueryChoices(names) ==
    {<<>>} \cup {[n \in names |-> v] : v \in {StringOf("%2F"), Val("array", <<StringOf("a"), Val("bool", TRUE)>>)}}
FormValue(s) == IF IsBinaryProp(s) THEN Val("file", "f") ELSE StringOf("a")
FormNames(props) == {props[i][1] : i \in DOMAIN props}
FormChoice(props) ==
    [n \in FormNames(props) |-> FormValue(props[CHOOSE i \in DOMAIN props : props[i][1] = n][2])]
BodyChoices(op) ==
    CASE IsMultipart(op) -> {FormChoice(FormProps(op))}
      [] HasJSONBody(op) -> {<<>>, <<"body">> :> Val("object", <<"p">> :> StringOf("a"))}
      [] OTHER -> {<<>>}
ArgChoices(op) ==
    {b @@ q @@ [n \in PathNames(op) |-> p] :
        b \in BodyChoices(op), q \in QueryChoices(QueryNames(op)), p \in PathChoices}

Headers == ("Authorization" :> "t") @@ ("traceparent" :> "s") @@ ("Cookie" :> "c")
Requests(op) == {Outgoing(op, args, DefaultForwarded, Headers) : args \in ArgChoices(op)}

\* A request the next gateway makes from a document this one serves reaches the
\* upstream of this one as it is, whichever version the document is served in:
\* the same operation, path, query and body, with the credentials and without
\* the cookies.  A path value is one that needs no escaping.
RequestRelayed(req) == Relay(doc[1], req) = {req}

\* The events a stream in a mode may have: with and without the fields that last
\* for one event, an id that stays, data of one or two lines.
Events(mode) ==
    IF mode = "data" THEN {"a", "b"}
    ELSE {[data |-> IF mode = "text" THEN <<"a", "b">> ELSE "a"] @@ r @@ e @@ ("id" :> i) :
              r \in {<<>>, "retry" :> "1"}, e \in {<<>>, "event" :> "e"}, i \in {"1", "2"}}

\* What the next gateway reads from a stream of this one is what this one was
\* sent: both take the mode from their document.
StreamRelayed(mode, next) ==
    \A a, b \in Events(mode) : ReadStream(next, WriteStream(mode, <<a, b>>)) = <<a, b>>
StreamKept(op, ops) ==
    RouteStream(op) # <<>> =>
        \E is \in ops : /\ is.path = op.path /\ is.method = op.method
                        /\ StreamRelayed(SSEMode(RouteStream(op)[1]), SSEMode(ItemSchemas(is)[1]))

\* A failed answer keeps its status over HTTP; over gRPC it stays a failure of
\* the caller or of the service, and a further crossing changes it no more.
FailedStatuses == {400, 401, 403, 404, 409, 410, 412, 413, 418, 429, 499, 500, 501, 502, 503, 504}
OverGRPC(status) == HTTPStatus(ErrorCode(UpstreamStatus(status)))
FailureKept(status) ==
    /\ IngressStatus(UpstreamStatus(status)) = status
    /\ (OverGRPC(status) >= 500) = (status >= 500)
    /\ IngressStatus(GRPCStatus(ErrorCode(UpstreamStatus(status)))) = OverGRPC(status)
    /\ OverGRPC(OverGRPC(status)) = OverGRPC(status)
    /\ (IngressStatus(Rejection(HTTPStatusToCode(status))) >= 500) = (status >= 500)

\* Whatever the next gateway sends by the document it was served goes through
\* this gateway unchanged, and what comes back does so too: requests, the events
\* of a stream, whose fields do not leak into the next event, and the status of
\* a failure (http_ingress.go lookupIngressRoute, buildIngressArgs,
\* writeSSEEnvelope, writeIngressDispatchError; openapi.go buildOpenAPIRequest;
\* openapi_stream.go nextSSE).
Relayed ==
    [][FromDocument =>
           /\ \A op \in ToSet(ReadOperations(doc'[1])) : \A req \in Requests(op) : RequestRelayed(req)
           /\ \A op \in ToSet(ReadOperations(doc[1])) : StreamKept(op, ToSet(ReadOperations(doc'[1])))
           /\ \A status \in FailedStatuses : FailureKept(status)]_vars

--------------------------------------------------------------------------
(* gRPC calls                                                              *)

\* A value for a slot of the service, none where a message has no way to carry
\* one: a union, a list of maps, an enum value that is the default.  "form" says
\* who has it: "given" is the caller's own, "carried" what a message makes of
\* it, where 64-bit integers are numerals and enum values numbers, "mapped" the
\* same below a map, where enum values are names.
Is64Bit(r) == r.k = "builtin" /\ r.scalar \in {"int64", "uint64"}
ScalarSample(scalar, form) ==
    CASE scalar \in {"int64", "uint64"} /\ form # "given" -> StringOf("1")
      [] scalar \in {"int64", "uint64", "int32", "uint32", "float", "double"} /\ (form = "given" \/ ~ Is64Bit(Builtin(scalar))) ->
            Val("integer", 1)
      [] scalar = "bool" -> Val("bool", TRUE)
      [] OTHER -> StringOf("a")
EnumSample(name, values, form) ==
    CASE Len(values) < 2 -> <<>>
      [] Len(values) >= 2 /\ form = "given" -> <<StringOf(Last(values))>>
      [] Len(values) >= 2 /\ form = "carried" -> <<Val("int32", Len(values) - 1)>>
      [] OTHER -> <<StringOf(name \o <<"_", Last(values)>>)>>

InList(v) == [i \in DOMAIN v |-> Val("array", <<v[i], v[i]>>)]
InMap(v) == [i \in DOMAIN v |-> Val("object", <<"k">> :> v[i])]

RECURSIVE RefSample(_, _, _, _), ObjectSample(_, _, _, _)
SlotSample(types, f, form, depth) ==
    CASE f.repeated /\ f.type.k = "map" -> <<>>
      [] f.repeated /\ f.type.k # "map" -> InList(RefSample(types, f.type, form, depth))
      [] OTHER -> RefSample(types, f.type, form, depth)
NamedSample(types, name, form, depth) ==
    CASE types[name].kind = "enum" -> EnumSample(name, types[name].enum, form)
      [] types[name].kind \in {"object", "input"} /\ depth > 0 ->
            <<Val("object", ObjectSample(types, types[name].fields, form, depth - 1))>>
      [] OTHER -> <<>>
InMapForm(form) == IF form = "given" THEN "given" ELSE "mapped"
RefSample(types, r, form, depth) ==
    CASE r.k = "builtin" -> <<ScalarSample(r.scalar, form)>>
      [] r.k = "named"   -> NamedSample(types, r.name, form, depth)
      [] r.k = "list"    -> IF r.elem.k = "map" THEN <<>> ELSE InList(RefSample(types, r.elem, form, depth))
      [] r.k = "map"     -> InMap(RefSample(types, r.val, InMapForm(form), depth))
      [] OTHER -> <<StringOf("a")>>

\* A name with "_" is spelled otherwise in a message's JSON.
Carriable(types, f, depth) ==
    ValidIdentifier(f.name) /\ "_" \notin ToSet(f.name) /\ SlotSample(types, f, "given", depth) # <<>>
ObjectSample(types, slots, form, depth) ==
    [n \in {f.name : f \in {g \in ToSet(slots) : Carriable(types, g, depth)}} |->
        SlotSample(types, CHOOSE f \in ToSet(slots) : f.name = n, form, depth)[1]]

\* The message a caller writes from JSON, and what its fields are read as.
MessageFrom(fd, full, obj) == ToMessage(fd, MessageAt(fd.all, full), RewriteObject(fd, MessageAt(fd.all, full), obj, TRUE))

SampleDepth == 2
NoBoxes(fd) == \A p \in fd.all : ~ IsBox(fd, p[1])
ArgsCarried(fd, m, op) ==
    /\ NoBoxes(fd) => ChainArgs(fd, m, ObjectSample(svc.types, op.args, "given", SampleDepth))
                          = Ok(ObjectSample(svc.types, op.args, "carried", SampleDepth))
    /\ \E msg \in ToSet(MessageFrom(fd, m.in, ObjectSample(svc.types, op.args, "given", SampleDepth))) :
           GRPCArgs(fd, m, msg) = ObjectSample(svc.types, op.args, "carried", SampleDepth)

\* The slots of the answer's message.
AnswerSlots(types, op) ==
    IF ReturnsBare(types, op) THEN types[op.out[1].type.name].fields ELSE <<BareSlot(<<"value">>, op.out[1])>>
Result(types, op, form) ==
    IF ReturnsBare(types, op) THEN Val("object", ObjectSample(types, AnswerSlots(types, op), form, SampleDepth))
    ELSE ObjectSample(types, AnswerSlots(types, op), form, SampleDepth)[<<"value">>]
HasValueOnly(slots) == Len(slots) = 1 /\ slots[1].name = <<"value">>
Answerable(types, op) ==
    IF ReturnsBare(types, op) THEN types[op.out[1].type.name].kind # "union" /\ ~ HasValueOnly(AnswerSlots(types, op))
    ELSE Carriable(types, AnswerSlots(types, op)[1], SampleDepth)
AnswerCarried(fd, m, op) ==
    \E msg \in ToSet(GRPCAnswer(fd, m, Result(svc.types, op, "given"))) :
        RewriteObject(fd, MessageAt(fd.all, m.out), MessageToMap(fd, MessageAt(fd.all, m.out), msg), FALSE)
            = ObjectSample(svc.types, AnswerSlots(svc.types, op), "carried", SampleDepth)

\* A gRPC call reaches the service's own dispatcher with the arguments its caller
\* gave, and its result comes back as a message that says the same: the boxes
\* around inner lists and maps are put on and taken off where they belong, at
\* every depth.  A runtime chain, which sees a message too, passes on the same
\* arguments (grpc_ingress.go newCanonicalArgsGRPCHandler, protocodec.go,
\* runtime_chain_canonical.go).
CallsCarried ==
    files # <<>> =>
        \A i \in DOMAIN files[1].file.methods :
            LET m == files[1].file.methods[i]
                op == FlatOperations(svc)[i]
            IN  /\ ArgsCarried(files[1].fd, m, op)
                /\ op.out # <<>> /\ Answerable(svc.types, op) => AnswerCarried(files[1].fd, m, op)

--------------------------------------------------------------------------
(* GraphQL calls                                                           *)

\* The GraphQL schema of a service that offers the operations of s on its roots.
PlainRoot(b, kind) == OpFields(b, SelectSeq(b.svc.ops, LAMBDA op : op.kind = kind))
PlainSchema(s) ==
    LET b == [svc |-> s, ns |-> <<"up">>, ver |-> "v1", latest |-> TRUE]
    IN  SchemaOf([kind \in {"query", "mutation"} |-> [fields |-> PlainRoot(b, kind), types |-> {}]],
                 PlainRoot(b, "subscription"), BuiltTypes(b, s.ops))

\* Its mirror stands in the namespace as both versions.
MirrorSchema(s) == RenderGraphQL(Namespace, <<[svc |-> s, ver |-> "v1"], [svc |-> s, ver |-> "v2"]>>, 0)
Mirrors == {Mirror(Namespace, "v1", FALSE), Mirror(Namespace, "v2", TRUE)}

\* A selection of everything in a type, with its name, or with aliases.
RECURSIVE SelectAll(_, _, _, _)
Selectable(types, name, style, depth) ==
    Composite(types, name) => depth > 0 /\ SelectAll(types, name, style, depth - 1) # <<>>
SelectField(types, f, style, depth) ==
    Select(IF style = "aliased" THEN <<"as">> \o f.name ELSE <<>>, f.name, {},
           SelectAll(types, RefName(f.type), style, depth - 1))
SelectVariants(types, vs, style, depth) ==
    [i \in DOMAIN vs |-> OnType(vs[i], SelectAll(types, vs[i], style, depth - 1))]
NameIf(style) == IF style = "named" THEN <<Select(<<>>, Typename, {}, <<>>)>> ELSE <<>>
SelectAll(types, name, style, depth) ==
    LET t  == CHOOSE u \in TypesNamed(types, name) : TRUE
        fs == SelectSeq(t.fields, LAMBDA f : f.args = <<>> /\ Selectable(types, RefName(f.type), style, depth))
        vs == SelectSeq(t.variants, LAMBDA v : Selectable(types, v, style, depth))
    IN  IF ~ Composite(types, name) THEN <<>>
        ELSE NameIf(style) \o (IF t.kind = "union" THEN SelectVariants(types, vs, style, depth)
                               ELSE [i \in DOMAIN fs |-> SelectField(types, fs[i], style, depth)])

\* The calls of an operation by field d: every argument by a variable.  A variable
\* of an input type of the mirror is not known to the mirrored service.
CanCall(types, d) ==
    /\ \A a \in ToSet(d.args) : RefName(a.type) \in Builtins
    /\ Composite(types, RefName(d.type)) => SelectAll(types, RefName(d.type), "plain", SampleDepth) # <<>>
ArgNames(d) == {a.name : a \in ToSet(d.args)}
Call(types, d, style) ==
    Select(<<>>, d.name, ArgNames(d), SelectAll(types, RefName(d.type), style, SampleDepth))
CallQuery(kind, d, f) == Query(kind, {[name |-> a.name, type |-> a.type] : a \in ToSet(d.args)}, f)

\* The styles a mirror answers alike: an older version's names come back as the
\* latest's.
Styles(m) == {"plain", "aliased"} \cup (IF m.latest THEN {"named"} ELSE {})

\* The fields of a mirror's operations and groups in the local schema.
MirrorFields(schema, m, kind) ==
    LET FieldsAt(f) == UNION {ToSet(t.fields) : t \in TypesNamed(schema.types, RefName(f.type))}
        latest == UNION {FieldsAt(f) : f \in ToSet(schema.roots[kind])}
    IN  IF m.latest THEN latest ELSE UNION {FieldsAt(f) : f \in {g \in latest : g.name = <<m.ver>>}}

LeafRelayed(up, local, m, d, kind) ==
    CanCall(local.types, d) =>
        \A style \in Styles(m) :
            LET q == CallQuery(kind, d, Call(local.types, d, style))
            IN  DispatchAppend(m, up, q, d.name) = ValueAt(local.types, d.type, q.field)

\* A call of one operation below a group, with the group's field around it.
Containers(types, d) == {t \in TypesNamed(types, RefName(d.type)) : t.of[1] = "container"}
RECURSIVE GroupCalls(_, _, _)
CallsAt(types, d, style) ==
    CASE Containers(types, d) # {} -> GroupCalls(types, d, style)
      [] Containers(types, d) = {} /\ CanCall(types, d) -> {CallQuery("query", d, Call(types, d, style))}
      [] OTHER -> {}
GroupCalls(types, d, style) ==
    UNION {{[q EXCEPT !.field = Select(IF style = "aliased" THEN <<"as">> \o d.name ELSE <<>>, d.name, {}, <<@>>)] :
               q \in CallsAt(types, f, style)} : f \in UNION {ToSet(t.fields) : t \in Containers(types, d)}}
GroupRelayed(up, local, m, d, kind) ==
    \A style \in Styles(m) : \A call \in GroupCalls(local.types, d, style) :
        GroupAppend(m, up, [call EXCEPT !.kind = kind], d.name) = ValueAt(local.types, d.type, call.field)

EventRelayed(up, local, m, op) ==
    LET d == RootField(local, "subscription", Prefix(m) \o op.name)
        q == CallQuery("subscription", d, Call(local.types, d, "named"))
    IN  CanCall(local.types, d) =>
            SubscriptionEvent(m, up, q, op.name, local.types, d.type)
                = ValueAt(local.types, d.type, [q.field EXCEPT !.name = op.name])

NamedIn(list, kind) == {x.name : x \in {y \in ToSet(list) : y.kind = kind}}
MirrorRelays(up, s, local) ==
    /\ \A op \in {o \in ToSet(s.ops) : HasCanonical(o, FALSE)} : ValidQuery(up, CanonicalQuery(up, op))
    /\ \A m \in Mirrors :
           /\ \A op \in {o \in ToSet(s.ops) : o.kind = "subscription"} : EventRelayed(up, local, m, op)
           /\ \A kind \in {"query", "mutation"} : \A d \in MirrorFields(local, m, kind) :
                  /\ d.name \in NamedIn(s.ops, kind) => LeafRelayed(up, local, m, d, kind)
                  /\ d.name \in NamedIn(s.groups, kind) => GroupRelayed(up, local, m, d, kind)

\* What a mirror answers to a selection is what the local schema says of it,
\* field by field and with the local type names, although the mirrored service,
\* be it another gateway, was asked; and the query that stands for a caller
\* without a selection is one the service accepts, with variables of the types
\* it declares (graphql_dispatcher.go DispatchAppend, dispatchSubscribe,
\* buildGraphQLCanonicalQuery; graphql_mirror.go).
SelectionsRelayed ==
    \A up \in {u \in {PlainSchema(svc), MirrorSchema(svc)} : SchemaBuilds(u)} :
        \A s \in {IngestGraphQL(up)} : \A local \in {MirrorSchema(s)} :
            SchemaBuilds(local) => MirrorRelays(up, s, local)

---------------------------------------------------------------------------
\* Every format in which a gateway serves what was registered says what was
\* registered, through up to three further gateways: the OpenAPI document, the
\* protobuf file, the GraphQL schema, and the document of a service that came
\* without one, each as spelled out above (ir/ingest_openapi.go, render_openapi.go,
\* render_openapi30.go, render_proto.go, render_graphql_runtime.go).
SchemasKept == DocumentKept /\ FileFaithful /\ MirrorOffers /\ DocumentOffers

\* What a caller asks of one format reaches a service of another and comes back
\* unchanged: gRPC calls with their boxes, and GraphQL selections on a mirror
\* (grpc_ingress.go, protocodec.go, graphql_dispatcher.go, graphql_mirror.go).
CallsKept == CallsCarried /\ SelectionsRelayed

---------------------------------------------------------------------------
(***************************************************************************)
(* A small instance for TLC: a component C of every shape the conversions  *)
(* tell apart, beside an object A and a string B, used by the operations   *)
(* in every place a schema can stand; and documents whose operations need  *)
(* what 3.0 or 3.1 lacks.                                                  *)
(***************************************************************************)
Of(types) == [type |-> types]
Null == Of(<<"null">>)
Str == Of(<<"string">>)
RefTo(n) == [ref |-> <<"schemas", <<n>>>>]
Obj(props) == [type |-> <<"object">>, props |-> props]

Plain ==
    {<<>>, Str, Null, Of(<<"string", "null">>), Of(<<"string", "integer">>),
     Of(<<"string", "integer", "null">>), RefTo("A"), RefTo("A") @@ [const |-> "a"],
     [type |-> <<"string">>, enum |-> <<"a">>], [type |-> <<"string", "null">>, enum |-> <<"a", "null">>],
     [const |-> "a"], [const |-> "null"], [const |-> "a", enum |-> <<"a", "b">>],
     [bool |-> TRUE], [bool |-> FALSE],
     [type |-> <<"integer">>, exMin |-> [num |-> 1]],
     [type |-> <<"integer">>, exMin |-> [num |-> 1], min |-> [num |-> 2]],
     [type |-> <<"integer">>, exMin |-> [num |-> 2], min |-> [num |-> 1]],
     [type |-> <<"string">>, encoding |-> "base64"], [type |-> <<"string">>, mediaType |-> "binary"]}

Branch == {RefTo("A"), RefTo("B"), Null, Str, Obj(<< <<<<"q">>, Of(<<"integer">>)>> >>)}
Lists == {<<x, y>> : x, y \in Branch} \cup {<<RefTo("A"), RefTo("B"), Null>>, <<Null>>, <<RefTo("A")>>}

ListOf(s) == [type |-> <<"array">>, items |-> s]
MapOf(s)  == [type |-> <<"object">>, addl |-> s]
InProp(s) == [type |-> <<"object">>, props |-> << <<<<"p">>, s>> >>, required |-> {<<"p">>}]

Shapes ==
    Plain \cup {[oneOf |-> l] : l \in Lists} \cup {[anyOf |-> l] : l \in Lists}
    \cup {ListOf(s) : s \in Plain} \cup {MapOf(s) : s \in Plain} \cup {InProp(s) : s \in Plain}
    \cup {InProp(ListOf(ListOf(Str))), InProp(ListOf(ListOf(ListOf(Str)))), InProp(MapOf(MapOf(Str))), InProp(MapOf(ListOf(ListOf(Str)))),
          InProp(ListOf(MapOf(ListOf(RefTo("A"))))), InProp(MapOf(RefTo("B"))),
          InProp([type |-> <<"string">>, enum |-> <<"a", "b">>]), InProp([oneOf |-> <<RefTo("A"), RefTo("C")>>]),
          InProp(Obj(<< <<<<"q">>, ListOf(ListOf(Str))>> >>)),
          [allOf |-> <<RefTo("A"), RefTo("B")>>], [not |-> Str],
          [type |-> <<"string", "array">>, items |-> Str], Of(<<"array">>),
          [type |-> <<"array">>, prefixItems |-> <<Str>>, items |-> Of(<<"integer">>)],
          [type |-> <<"array">>, prefixItems |-> <<Str>>],
          [oneOf |-> <<RefTo("A"), Null>>, anyOf |-> <<RefTo("B"), RefTo("A")>>],
          [oneOf |-> <<RefTo("A"), Null>>, allOf |-> <<RefTo("B")>>],
          [type |-> <<"object">>, defs |-> << <<<<"D">>, Of(<<"string", "null">>)>> >>,
           props |-> << <<<<"p">>, [ref |-> <<"schemas", <<"C">>, "$defs", <<"D">>>>]>> >>],
          [type |-> <<"object">>, defs |-> << <<<<"A">>, Of(<<"integer">>)>> >>,
           props |-> << <<<<"p">>, [ref |-> <<"schemas", <<"C">>, "$defs", <<"A">>>>]>>,
                        <<<<"q">>, RefTo("A")>> >>]}

Doc(version, ops, schemas, mtls, security) ==
    [version |-> version, mtls |-> mtls, security |-> security, kept |-> <<>>,
     ops |-> ops, schemas |-> schemas]

Components(c) == << <<<<"A">>, InProp(Str)>>, <<<<"B">>, Str>>, <<<<"C">>, c>> >>

Returns(op, s) == [op EXCEPT !.responses = ("200" :> Response(<<s>>, <<>>, <<>>))]
Streams(op, s) == [op EXCEPT !.responses = ("200" :> Response(<<>>, <<s>>, <<>>))]
Takes(op, s) ==
    [op EXCEPT !.params = <<[name |-> <<"p">>, in |-> "query", schema |-> Str, required |-> TRUE],
                            [name |-> <<"x", "-", "y">>, in |-> "header", schema |-> Str, required |-> FALSE]>>,
               !.body = <<[json |-> <<s>>, form |-> <<>>, required |-> TRUE]>>]

SchemaDocs ==
    {Doc("3.1", <<Returns(DocOperation(<<"get">>, "GET", <<"x">>), s),
                  Takes(DocOperation(<<"put">>, "PUT", <<"x">>), RefTo("C"))>>,
         Components(s), {}, <<>>) : s \in Shapes}

\* The shape in the body itself, beside a component whose name the protobuf
\* renderer would give the request.
BodyDocs ==
    {Doc("3.1", <<Takes(DocOperation(<<"put">>, "PUT", <<"x">>), s)>>,
         Append(Components(Str), <<<<"put", "Request">>, InProp(Str)>>), {}, <<>>) : s \in Shapes}

\* What 3.1 and 3.0 have no place for.
MethodDocs(id) ==
    {Doc("3.2", <<Returns(DocOperation(<<"find">>, "QUERY", <<"x">>), s),
                  Streams(DocOperation(<<"watch">>, "GET", <<"x">>), s),
                  Returns(DocOperation(id, "PURGE", <<"x">>), RefTo("A")),
                  DocOperation(<<"trace">>, "TRACE", <<"x">>),
                  [DocOperation(<<"send">>, "POST", <<"x">>) EXCEPT
                      !.body = <<[json |-> <<>>, required |-> TRUE,
                                  form |-> <<Obj(<< <<<<"file">>, [type |-> <<"string">>, format |-> "byte"]>>,
                                                   <<<<"note">>, s>> >>)>>]>>]>>,
         Components(s), {}, <<>>) : s \in {Str, Of(<<"string", "null">>), InProp(Null), RefTo("A")}}

Requirements == {<<>>, <<<<>>>>, <<<<{"tls"}>>>>, <<<<{"key"}>>>>, <<<<{"tls"}, {"key"}>>>>, <<<<{"tls", "key"}>>>>}
SecurityDocs ==
    {Doc("3.1", <<[DocOperation(<<"get">>, "GET", <<"x">>) EXCEPT !.security = own],
                  DocOperation(<<"put">>, "PUT", <<"x">>)>>,
         Components(Str), {"tls"}, all) : own, all \in Requirements}

\* Templates, one of them beside a path it would match, a list in the query, a
\* form with files, and streams of every kind.
Param(in, name, s) == [name |-> name, in |-> in, schema |-> s, required |-> in = "path"]
AtPath(id, method, path, params, body) ==
    [DocOperation(id, method, path) EXCEPT !.params = params, !.body = body]
Event(data) == Obj(<< <<<<"data">>, data>>, <<<<"event">>, Str>> >>)
RelayOps(id) ==
    {<<AtPath(<<"one">>, "GET", <<"x", "/", "{", "id", "}">>, <<Param("path", <<"id">>, Str)>>, <<>>),
       AtPath(<<"mine">>, "GET", <<"x", "/", "me">>, <<Param("query", <<"q">>, ListOf(Str))>>, <<>>)>>,
     <<AtPath(id, "PUT", <<"{", "id", "}", "/", "{", "no", "}">>,
              <<Param("path", <<"no">>, Of(<<"integer">>)), Param("path", <<"id">>, Str),
                Param("query", <<"q">>, Str), Param("header", <<"h">>, Str)>>,
              <<[json |-> <<RefTo("A")>>, form |-> <<>>, required |-> FALSE]>>)>>}
    \cup {<<AtPath(<<"send">>, "POST", <<"y", "/", "{", "id", "}">>, <<Param("path", <<"id">>, Str)>>,
                   <<[json |-> <<>>, required |-> TRUE,
                      form |-> <<Obj(<< <<<<"f">>, [type |-> <<"string">>, format |-> f]>>,
                                        <<<<"fs">>, ListOf([type |-> <<"string">>, format |-> f])>>,
                                        <<<<"note">>, Str>> >>)>>]>>)>> : f \in {"byte", "binary"}}
    \cup {<<Streams(DocOperation(<<"tail">>, "GET", <<"z">>), e)>> :
              e \in {RefTo("A"), Event(Str), Event(Of(<<"integer">>)),
                     Event([type |-> <<"string">>, contentSchema |-> Str]),
                     Event([type |-> <<"string">>, contentSchema |-> Str, mediaType |-> "text"]),
                     [oneOf |-> <<Event(Str), Event(Of(<<"integer">>))>>]}}
RelayDocs(id) == {Doc("3.2", ops, Components(Str), {}, <<>>) : ops \in RelayOps(id)}

\* The same documents with and without an operationId: those without have no
\* protobuf file and no GraphQL schema.
MCDocuments == SchemaDocs \cup BodyDocs \cup SecurityDocs
                   \cup UNION {RelayDocs(id) \cup MethodDocs(id) : id \in {<<>>, <<"change">>}}

Tool(name, props) == [name |-> name, schema |-> [type |-> <<"object">>, props |-> props, required |-> {<<"p">>}]]
MCToolLists ==
    {<<Tool(<<"say", "-", "it">>, << <<<<"p">>, s>> >>), Tool(<<"stop">>, <<>>)>> :
        s \in {Str, [type |-> <<"string">>, enum |-> <<"a", "b">>], Of(<<"null", "integer">>), Of(<<"array">>),
               ListOf(ListOf(Str)), Obj(<< <<<<"q">>, ListOf(Str)>>, <<<<"r">>, Of(<<"object">>)>> >>), <<>>}}
    \cup {<<Tool(<<"stop">>, <<>>), Tool(<<"stop", ".">>, <<>>)>>}

Json(t, v) == [t |-> t, v |-> v]
Atoms == {Json("null", "null"), Json("string", "a"), Json("string", "b"),
          Json("integer", 1), Json("integer", 2), Json("integer", 3)}
MCValues ==
    Atoms \cup {Json("array", <<x>>) : x \in Atoms} \cup {Json("object", <<>>)}
    \cup {Json("array", <<Json("string", "a"), Json("integer", 1)>>),
          Json("array", <<Json("string", "a"), Json("string", "a")>>)}
    \cup {Json("object", <<"p">> :> x) : x \in Atoms}
===========================================================================
