----------------------------- MODULE GRPCRelay ----------------------------
(***************************************************************************)
(* A gRPC call through a gateway (gw/grpc_ingress.go, gw/internal/         *)
(* protocodec, gw/runtime_chain_canonical.go): messages of the rendered    *)
(* file become canonical arguments for the dispatcher of an OpenAPI or MCP *)
(* operation, and its result becomes a message again.                      *)
(*                                                                         *)
(* A message is a function from the names of its set fields to their       *)
(* values.  "fd" is what is looked up in the file: all its messages, and   *)
(* the values of its enums.                                                *)
(***************************************************************************)
EXTENDS HTTPRelay, ProtoSchema

Descriptor(file) ==
    [all   |-> AllMessages(file.messages, file.pkg),
     enums |-> [n \in {file.pkg \o <<".">> \o file.enums[i].name : i \in DOMAIN file.enums} |->
                   (CHOOSE e \in ToSet(file.enums) : file.pkg \o <<".">> \o e.name = n)]]

\* LowerCamel of a field's name: the key its value has outside of a message.
JSONKey(f) == Camel(f.name)

\* Errors are the empty sequence.
Ok(v) == <<v>>
AllOk(results) == \A i \in DOMAIN results : results[i] # <<>>
Unwrapped(results) == [i \in DOMAIN results |-> results[i][1]]

--------------------------------------------------------------------------
(* ArgsToMessage                                                           *)

Numerals == 0..9
ParseInt(text) ==
    IF \E n \in Numerals : ToString(n) = text THEN Ok(Val("integer", CHOOSE n \in Numerals : ToString(n) = text))
    ELSE <<>>

\* toInt64 and toFloat64 take numbers and numerals; a json.Number, as a JSON body
\* of the HTTP ingress has it, is neither.
ToNumber(v) ==
    CASE v.t = "integer" -> Ok(v)
      [] v.t = "string"  -> ParseInt(v.v)
      [] OTHER -> <<>>

\* EnumValueByExternalName: with the enum's name before it, or as it is.
EnumIndex(enum, name) ==
    SelectInSeq(enum.values, LAMBDA w : w = enum.name \o <<"_", name>> \/ w = <<name>>)
ToEnum(enum, v) ==
    CASE v.t = "int32" -> Ok(v)
      [] v.t = "string" /\ EnumIndex(enum, v.v) > 0 -> Ok(Val("int32", EnumIndex(enum, v.v) - 1))
      [] OTHER -> <<>>

BadBase64 == {"!"}
NumberKinds == {"int32", "uint32", "int64", "uint64", "float", "double"}

\* A scalar at its default, an empty list and an empty map are not set.
IsUnset(v) == v \in {Val("integer", 0), Val("string", ""), Val("bool", FALSE), Val("int32", 0),
                     Val("array", <<>>), Val("map", <<>>)}

RECURSIVE ToMessage(_, _, _), SetField(_, _, _)

ToScalar(fd, f, v) ==
    CASE f.kind = "bool" -> IF v.t = "bool" THEN Ok(v) ELSE <<>>
      [] f.kind \in NumberKinds -> ToNumber(v)
      [] f.kind = "string" -> IF v.t = "string" THEN Ok(v) ELSE <<>>
      [] f.kind = "bytes"  -> IF v.t = "string" /\ v.v \notin BadBase64 THEN Ok(v) ELSE <<>>
      [] f.kind = "enum"   -> ToEnum(fd.enums[f.type], v)
      [] OTHER -> IF v.t = "object" THEN ToMessage(fd, MessageAt(fd.all, f.type), v.v) ELSE <<>>

ListOrError(results) == IF AllOk(results) THEN Ok(Val("array", Unwrapped(results))) ELSE <<>>
MapOrError(results)  == IF AllOk(results) THEN Ok(Val("map", Unwrapped(results))) ELSE <<>>
EntryValue(fd, f) == MessageAt(fd.all, f.type).fields[2]

SetField(fd, f, v) ==
    CASE IsMapField(fd.all, f) ->
            IF v.t = "object" THEN MapOrError([k \in DOMAIN v.v |-> ToScalar(fd, EntryValue(fd, f), v.v[k])]) ELSE <<>>
      [] ~ IsMapField(fd.all, f) /\ f.label = "repeated" ->
            IF v.t = "array" THEN ListOrError([i \in DOMAIN v.v |-> ToScalar(fd, f, v.v[i])]) ELSE <<>>
      [] OTHER -> ToScalar(fd, f, v)

\* A value no field is for is dropped; files are left out by SkipArg.
Written(md, args) ==
    {i \in DOMAIN md.fields : JSONKey(md.fields[i]) \in DOMAIN args /\ ~ IsFile(args[JSONKey(md.fields[i])])}
MessageOrError(md, set) ==
    IF AllOk(set)
    THEN Ok(Val("message", [n \in {md.fields[i].name : i \in {j \in DOMAIN set : ~ IsUnset(set[j][1])}} |->
                set[CHOOSE i \in DOMAIN set : md.fields[i].name = n][1]]))
    ELSE <<>>
ToMessage(fd, md, args) ==
    MessageOrError(md, [i \in Written(md, args) |-> SetField(fd, md.fields[i], args[JSONKey(md.fields[i])])])

--------------------------------------------------------------------------
(* MessageToMap                                                            *)

RECURSIVE MessageToMap(_, _, _), ValueToAny(_, _, _), JSONValueToAny(_, _, _)

\* 64-bit integers as numerals, enums as their numbers.
ScalarToAny(fd, f, v) ==
    CASE f.kind \in {"int64", "uint64"} -> StringOf(ToString(v.v))
      [] f.kind = "message" -> Val("object", MessageToMap(fd, MessageAt(fd.all, f.type), v))
      [] OTHER -> v

\* In a map, enums are names.
JSONValueToAny(fd, f, v) ==
    CASE f.kind = "enum" -> StringOf(fd.enums[f.type].values[v.v + 1])
      [] f.kind = "message" ->
            Val("object", [k \in {JSONKey(g) : g \in {g \in ToSet(MessageAt(fd.all, f.type).fields) : g.name \in DOMAIN v.v}} |->
                LET g == CHOOSE g \in ToSet(MessageAt(fd.all, f.type).fields) : g.name \in DOMAIN v.v /\ JSONKey(g) = k
                IN  CASE IsMapField(fd.all, g) -> ValueToAny(fd, g, v.v[g.name])
                      [] ~ IsMapField(fd.all, g) /\ g.label = "repeated" ->
                            Val("array", [i \in DOMAIN v.v[g.name].v |-> JSONValueToAny(fd, g, v.v[g.name].v[i])])
                      [] OTHER -> JSONValueToAny(fd, g, v.v[g.name])])
      [] OTHER -> ScalarToAny(fd, f, v)

ValueToAny(fd, f, v) ==
    CASE IsMapField(fd.all, f) ->
            Val("object", [k \in DOMAIN v.v |-> JSONValueToAny(fd, EntryValue(fd, f), v.v[k])])
      [] ~ IsMapField(fd.all, f) /\ f.label = "repeated" ->
            Val("array", [i \in DOMAIN v.v |-> ScalarToAny(fd, f, v.v[i])])
      [] OTHER -> ScalarToAny(fd, f, v)

FieldOfKey(md, msg, k) == CHOOSE f \in ToSet(md.fields) : f.name \in DOMAIN msg.v /\ JSONKey(f) = k
MessageToMap(fd, md, msg) ==
    [k \in {JSONKey(f) : f \in {g \in ToSet(md.fields) : g.name \in DOMAIN msg.v}} |->
        ValueToAny(fd, FieldOfKey(md, msg, k), msg.v[FieldOfKey(md, msg, k).name])]

--------------------------------------------------------------------------
(* Boxes                                                                   *)

\* ir.IsListRow and ir.IsMapValueBox: a nested message with the one field
\* "value", a list under a name that ends in Row or a map under one in Value.
EndsIn(name, word) == name # <<>> /\ Last(name) = word
IsNested(fd, full) == \E p \in fd.all : IsPrefix(p[1] \o <<".">>, full)
IsBox(fd, full) ==
    LET md == MessageAt(fd.all, full)
    IN  /\ Len(md.fields) = 1 /\ md.fields[1].name = <<"value">> /\ IsNested(fd, full)
        /\ \/ EndsIn(md.name, "Row") /\ md.fields[1].label = "repeated" /\ ~ IsMapField(fd.all, md.fields[1])
           \/ EndsIn(md.name, "Value") /\ IsMapField(fd.all, md.fields[1])

\* The message a field or the values of a map field hold.
Held(fd, f) ==
    CASE IsMapField(fd.all, f) -> IF EntryValue(fd, f).kind = "message" THEN EntryValue(fd, f).type ELSE <<>>
      [] ~ IsMapField(fd.all, f) /\ f.kind = "message" -> f.type
      [] OTHER -> <<>>

RECURSIVE RewriteObject(_, _, _, _), RewriteField(_, _, _, _)

Boxed(fd, inner, v) ==
    IF (v.t = "object") = IsMapField(fd.all, inner) /\ v.t \in {"object", "array"}
    THEN Val("object", <<"value">> :> RewriteField(fd, inner, v, TRUE)) ELSE v

\* Mutation: what is in a box is taken as it is.
UnboxedOnce(fd, inner, v) ==
    CASE v.t # "object" -> v
      [] v.t = "object" /\ <<"value">> \notin DOMAIN v.v -> Val("array", <<>>)
      [] OTHER -> v.v[<<"value">>]

Unboxed(fd, inner, v) ==
    CASE v.t # "object" -> v
      [] v.t = "object" /\ <<"value">> \notin DOMAIN v.v ->
            IF IsMapField(fd.all, inner) THEN Val("object", <<>>) ELSE Val("array", <<>>)
      [] OTHER -> RewriteField(fd, inner, v.v[<<"value">>], FALSE)

RewriteValue(fd, full, v, box) ==
    CASE ~ IsBox(fd, full) -> IF v.t = "object" THEN Val("object", RewriteObject(fd, MessageAt(fd.all, full), v.v, box)) ELSE v
      [] IsBox(fd, full) /\ box -> Boxed(fd, MessageAt(fd.all, full).fields[1], v)
      [] OTHER -> Unboxed(fd, MessageAt(fd.all, full).fields[1], v)

\* A map and a list value by value.
RewriteField(fd, f, v, box) ==
    CASE f.label = "repeated" /\ v.t \in {"object", "array"} ->
            IF (v.t = "object") # IsMapField(fd.all, f) THEN v
            ELSE IF Held(fd, f) = <<>> THEN v
            ELSE [v EXCEPT !.v = [k \in DOMAIN v.v |-> RewriteValue(fd, Held(fd, f), v.v[k], box)]]
      [] f.label # "repeated" /\ Held(fd, f) # <<>> -> RewriteValue(fd, Held(fd, f), v, box)
      [] OTHER -> v

\* The key of a value may be the field's name or its JSON name.
KeysOf(f) == <<f.name, JSONKey(f)>>
KeyIn(f, obj) == SelectSeq(KeysOf(f), LAMBDA k : k \in DOMAIN obj)
RewriteObject(fd, md, obj, box) ==
    [k \in DOMAIN obj |->
        LET fs == {f \in ToSet(md.fields) : Held(fd, f) # <<>> /\ KeyIn(f, obj) # <<>> /\ KeyIn(f, obj)[1] = k}
        IN  IF fs = {} THEN obj[k] ELSE RewriteField(fd, CHOOSE f \in fs : TRUE, obj[k], box)]

--------------------------------------------------------------------------
(* newCanonicalArgsGRPCHandler                                             *)

\* The arguments a call's dispatcher gets.
GRPCArgs(fd, method, msg) ==
    RewriteObject(fd, MessageAt(fd.all, method.in), MessageToMap(fd, MessageAt(fd.all, method.in), msg), FALSE)

\* isSynthResponseWrapper: told by the one field's name alone.
IsWrapper(md) == Len(md.fields) = 1 /\ md.fields[1].name = <<"value">>

Payload(md, result) ==
    CASE IsWrapper(md) -> Ok(<<"value">> :> result)
      [] ~ IsWrapper(md) /\ result.t = "object" -> Ok(result.v)
      [] OTHER -> <<>>
FromPayload(fd, md, payload) ==
    IF payload = <<>> THEN <<>> ELSE ToMessage(fd, md, RewriteObject(fd, md, payload[1], TRUE))

\* The message a call is answered with; none when the result does not fit.
GRPCAnswer(fd, method, result) ==
    IF result = NullValue THEN Ok(Val("message", <<>>))
    ELSE FromPayload(fd, MessageAt(fd.all, method.out), Payload(MessageAt(fd.all, method.out), result))

--------------------------------------------------------------------------
(* canonicalChainedDispatcher.run                                          *)

\* The arguments of a call as a message, through the runtime chain (here one
\* that changes nothing) and back; what the message has not kept is passed on as
\* it was.  Nothing is boxed on this way.
ChainArgs(fd, method, args) ==
    LET md  == MessageAt(fd.all, method.in)
        req == ToMessage(fd, md, args)
    IN  IF req = <<>> THEN <<>> ELSE Ok(MessageToMap(fd, md, req[1]) @@ args)
===========================================================================
