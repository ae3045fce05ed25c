--------------------------- MODULE OpenAPISchema --------------------------
(***************************************************************************)
(* IngestOpenAPI and RenderOpenAPI (gw/ir): an OpenAPI document into the   *)
(* schema representation and back.                                         *)
(*                                                                         *)
(* A schema is a function from the keywords it has to their values:        *)
(* [type |-> <<"string", "null">>, enum |-> <<"a">>].  "props" is the      *)
(* sequence of its properties in sorted order, each a pair of a name and a *)
(* schema; "ref" is the JSON pointer of a $ref, a sequence.  A null among  *)
(* enum values is the string "null".                                       *)
(*                                                                         *)
(* A document has its component schemas ("schemas", pairs in sorted        *)
(* order) and its operations ("ops", in path and verb order).              *)
(***************************************************************************)
EXTENDS SchemaIR

Has(s, keyword) == keyword \in DOMAIN s
At(s, keyword, default) == IF Has(s, keyword) THEN s[keyword] ELSE default
Without(s, keywords) == [k \in DOMAIN s \ keywords |-> s[k]]
With(s, keyword, value) == (keyword :> value) @@ s

--------------------------------------------------------------------------
(* Reading one schema                                                      *)

TypeHasNull(s) == "null" \in ToSet(At(s, "type", <<>>))
SaysNull(s) == At(s, "nullable", FALSE) \/ TypeHasNull(s)

\* The single non-null type, "" for none or for several.
PrimaryType(s) ==
    LET ts == SelectSeq(At(s, "type", <<>>), LAMBDA t : t # "null")
    IN  IF Len(ts) = 1 THEN ts[1] ELSE ""

IsNullType(s) == ~ Has(s, "ref") /\ At(s, "type", <<>>) = <<"null">>

\* oneOf is preferred; anyOf is the fallback.
Branches(s) ==
    IF At(s, "oneOf", <<>>) # <<>> THEN s.oneOf ELSE At(s, "anyOf", <<>>)

\* The one schema s wraps, with whether a null branch was dropped.
NullableWrapper(s) ==
    LET none  == [inner |-> <<>>, null |-> FALSE]
        own   == At(s, "props", <<>>) # <<>>
                    \/ At(s, "type", <<>>) \notin {<<>>, <<"null">>}
        all   == At(s, "allOf", <<>>)
        one   == At(s, "oneOf", <<>>)
        any   == At(s, "anyOf", <<>>)
        rest  == SelectSeq(Branches(s), LAMBDA b : ~ IsNullType(b))
        null  == Len(rest) < Len(Branches(s))
    IN  CASE own -> none
          [] Len(all) = 1 /\ one = <<>> /\ any = <<>> -> [inner |-> all, null |-> FALSE]
          [] all = <<>> /\ (one = <<>>) # (any = <<>>) /\ Len(rest) <= 1
                /\ (null \/ At(s, "nullable", FALSE)) -> [inner |-> rest, null |-> null]
          [] OTHER -> none

IsObjectSchema(s) == At(s, "props", <<>>) # <<>> \/ PrimaryType(s) = "object"

\* Identifiers keep only letters, digits and "_".
SanitizeIdent(name) == SelectSeq(name, LAMBDA w : w \notin {"-", ".", "/", "{", "}"})

EnumValues(s) == SelectSeq(At(s, "enum", <<>>), LAMBDA v : v # "null")

StringRef(s) ==
    CASE At(s, "format", "") = "binary" -> Builtin("upload")
      [] At(s, "format", "") = "byte" \/ At(s, "encoding", "") = "base64" -> Builtin("bytes")
      [] OTHER -> Builtin("string")

IntegerRef(s) ==
    [Builtin(IF At(s, "format", "") \in {"int64", "uint64"} THEN "int64" ELSE "int32")
        EXCEPT !.as = At(s, "scalar", "")]

NumberRef(s) == Builtin(IF At(s, "format", "") = "float" THEN "float" ELSE "double")

--------------------------------------------------------------------------
(* Schemas to types.  "types" is Service.Types so far; every operator      *)
(* returns it with what it registered.                                     *)

RECURSIVE PropToField(_, _, _, _, _), SchemaToType(_, _, _), FieldsFrom(_, _, _, _),
          VariantsFrom(_, _, _, _)

\* A slot as the next field of a type.
WithField(r, g) == [types |-> g.types, fields |-> Append(r.fields, g.f)]

\* The properties of s from the i-th on, as fields of type "name".
FieldsFrom(r, name, s, i) ==
    IF i > Len(At(s, "props", <<>>)) THEN r
    ELSE FieldsFrom(WithField(r, PropToField(r.types, name \o SanitizeIdent(s.props[i][1]), s.props[i][1],
                                             s.props[i][2], s.props[i][1] \in At(s, "required", {}))),
                    name, s, i + 1)

ObjectOf(r, name) == With(r.types, name, ObjectType(r.fields))

\* Type "name" is registered empty before its fields are read.
AddObject(types, name, s) ==
    ObjectOf(FieldsFrom([types |-> With(types, name, ObjectType(<<>>)), fields |-> <<>>], name, s, 1), name)

WithVariant(u, types, names, ok) == [types |-> types, names |-> u.names \o names, all |-> u.all /\ ok]

\* Variant names of a oneOf or anyOf from its i-th branch on; an inline
\* object variant is registered as "<hint>Variant<i>".
VariantsFrom(u, hint, branches, i) ==
    IF i > Len(branches) THEN u
    ELSE VariantsFrom(
            CASE Has(branches[i], "ref") -> WithVariant(u, u.types, <<Last(branches[i].ref)>>, TRUE)
              [] ~ Has(branches[i], "ref") /\ IsObjectSchema(branches[i]) ->
                    WithVariant(u, SchemaToType(u.types, hint \o <<"Variant", ToString(i)>>, branches[i]),
                                <<hint \o <<"Variant", ToString(i)>>>>, TRUE)
              [] OTHER -> WithVariant(u, u.types, <<>>, FALSE),
            hint, branches, i + 1)

UnionVariants(types, hint, s) ==
    VariantsFrom([types |-> types, names |-> <<>>, all |-> TRUE], hint, Branches(s), 1)

UnionOf(u, name) == With(u.types, name, UnionType(u.names))

\* openapiSchemaToType: register schema s under "name", replacing any other.
SchemaToType(types, name, s) ==
    CASE Branches(s) # <<>> ->
            UnionOf(UnionVariants(With(types, name, UnionType(<<>>)), name, s), name)
      [] Branches(s) = <<>> /\ PrimaryType(s) = "string" /\ At(s, "enum", <<>>) # <<>> ->
            With(types, name, EnumType(EnumValues(s)))
      [] OTHER -> AddObject(types, name, s)

\* synthesizeInlineObject: an object type already there under the name is reused.
InlineObject(types, name, s) ==
    IF name \in DOMAIN types /\ types[name].kind = "object" THEN types ELSE AddObject(types, name, s)

InlineEnum(types, name, s) ==
    IF name \in DOMAIN types /\ types[name].kind = "enum" THEN types
    ELSE With(types, name, EnumType(EnumValues(s)))

\* synthesizeInlineUnion: "AOrB", or no name when a branch is no object.  The
\* variants registered on the way stay registered.
UnionName(names) ==
    FlattenSeq([i \in DOMAIN names |-> IF i = 1 THEN names[i] ELSE <<"Or">> \o names[i]])
NamedUnion(u, name) ==
    CASE ~ u.all \/ u.names = <<>> -> [types |-> u.types, name |-> <<>>]
      [] u.all /\ name \in DOMAIN u.types -> [types |-> u.types, name |-> name]
      [] OTHER -> [types |-> UnionOf(u, name), name |-> name]
AsUnion(u) == NamedUnion(u, UnionName(u.names))
InlineUnion(types, hint, s) == AsUnion(UnionVariants(types, hint, s))

Typed(types, f, t) == [types |-> types, f |-> [f EXCEPT !.type = t]]

\* A list of the slot "item", an element of which may be a list.
Listed(f, item) ==
    [types |-> item.types,
     f |-> [f EXCEPT !.repeated = TRUE, !.itemRequired = ~ item.f.nullable,
                     !.type = IF item.f.repeated THEN ListRef(item.f.type, item.f.itemRequired)
                              ELSE item.f.type]]

Mapped(f, val) == Typed(val.types, f, MapRef(Builtin("string"), val.f.type))

ArrayField(types, hint, f, s) ==
    IF ~ Has(s, "items")
    THEN [types |-> types, f |-> [f EXCEPT !.repeated = TRUE, !.type = Builtin("string")]]
    ELSE IF Has(s.items, "ref")
    THEN [types |-> types, f |-> [f EXCEPT !.repeated = TRUE, !.itemRequired = TRUE,
                                           !.type = NamedRef(Last(s.items.ref))]]
    ELSE Listed(f, PropToField(types, hint \o <<"Item">>, <<"item">>, s.items, FALSE))

\* What a slot without a $ref and a wrapper is; u is its schema as a union.
PropShape(u, hint, f, s) ==
    CASE u.name # <<>> -> Typed(u.types, f, NamedRef(u.name))
      [] u.name = <<>> /\ PrimaryType(s) = "string" ->
            IF StringRef(s) = Builtin("string") /\ At(s, "enum", <<>>) # <<>>
            THEN Typed(InlineEnum(u.types, hint, s), f, NamedRef(hint))
            ELSE Typed(u.types, f, StringRef(s))
      [] u.name = <<>> /\ PrimaryType(s) = "boolean" -> Typed(u.types, f, Builtin("bool"))
      [] u.name = <<>> /\ PrimaryType(s) = "integer" -> Typed(u.types, f, IntegerRef(s))
      [] u.name = <<>> /\ PrimaryType(s) = "number"  -> Typed(u.types, f, NumberRef(s))
      [] u.name = <<>> /\ PrimaryType(s) = "array"   -> ArrayField(u.types, hint, f, s)
      [] u.name = <<>> /\ PrimaryType(s) = "object"  ->
            IF Has(s, "addl") /\ ~ Has(s.addl, "bool")
            THEN Mapped(f, PropToField(u.types, hint \o <<"Value">>, <<"v">>, s.addl, FALSE))
            ELSE IF At(s, "props", <<>>) # <<>>
            THEN Typed(InlineObject(u.types, hint, s), f, NamedRef(hint))
            ELSE Typed(u.types, f, Builtin("string"))
      [] OTHER -> Typed(u.types, f, Unknown)

OrNull(g, null) == [g EXCEPT !.f.nullable = @ \/ null]

\* openapiPropToField: one slot.  "hint" names what has to be synthesised.
PropToField(types, hint, name, s, req) ==
    CASE Has(s, "ref") -> [types |-> types, f |-> Field(name, NamedRef(Last(s.ref)), req)]
      [] ~ Has(s, "ref") /\ NullableWrapper(s).inner # <<>> ->
            OrNull(PropToField(types, hint, name, NullableWrapper(s).inner[1], req),
                   NullableWrapper(s).null \/ SaysNull(s))
      [] OTHER -> PropShape(InlineUnion(types, hint, s), hint,
                            [Field(name, Unknown, req) EXCEPT !.nullable = SaysNull(s)], s)

RECURSIVE IngestSchemas(_, _)
IngestSchemas(types, schemas) ==
    IF schemas = <<>> THEN types
    ELSE IngestSchemas(SchemaToType(types, schemas[1][1], schemas[1][2]), Tail(schemas))

--------------------------------------------------------------------------
(* Operations of a document                                                *)

\* A response's media types: "json" is the schema of application/json, "item"
\* the itemSchema of a sequential media type, "xitem" the same as the extension
\* an earlier version of the document keeps it in; each empty when absent.
Response(json, item, xitem) == [json |-> json, item |-> item, xitem |-> xitem]

\* "ext" says that the operation sits in x-additional-operations.
DocOperation(id, method, path) ==
    [id |-> id, method |-> method, path |-> path, ext |-> FALSE,
     params |-> <<>>, body |-> <<>>, responses |-> <<>>, security |-> <<>>, kept |-> <<>>]

Codes == <<"200", "201", "default">>
FixedMethods == {"GET", "POST", "PUT", "PATCH", "DELETE", "HEAD", "OPTIONS", "TRACE", "CONNECT"}
Ingested == {"GET", "POST", "PUT", "PATCH", "DELETE"}

\* The operations IngestOpenAPI reads: the five verbs, QUERY and custom methods,
\* and those an extension holds for a method the path does not have itself.
ReadOperations(doc) ==
    LET native(op) == \E i \in DOMAIN doc.ops : /\ ~ doc.ops[i].ext
                                                /\ doc.ops[i].path = op.path
                                                /\ doc.ops[i].method = op.method
    IN  SelectSeq(doc.ops, LAMBDA op :
            IF op.ext THEN op.method \notin FixedMethods /\ ~ native(op)
            ELSE op.method \in Ingested \/ op.method \notin FixedMethods)

\* The response schemas of an operation in the order of preference.
JSONResponses(op) ==
    FlattenSeq([i \in DOMAIN Codes |->
        IF Has(op.responses, Codes[i]) THEN op.responses[Codes[i]].json ELSE <<>>])

\* withExtItemSchema: the extension counts where there is no itemSchema.
ItemSchemas(op) ==
    FlattenSeq([i \in DOMAIN Codes |->
        IF ~ Has(op.responses, Codes[i]) THEN <<>>
        ELSE LET r == op.responses[Codes[i]] IN IF r.item # <<>> THEN r.item ELSE r.xitem])

DataProp(s) == SelectSeq(At(s, "props", <<>>), LAMBDA p : p[1] = <<"data">>)

\* isJSONMediaType: a contentSchema without contentMediaType is one of JSON.
JSONContent(s) == Has(s, "contentSchema") /\ At(s, "mediaType", "json") = "json"

\* sseItem: an event is the JSON in its data field when that has a contentSchema
\* of JSON; else it is the item, an envelope (with data, or a union of envelopes)
\* or the schema of its data.  SSEMode tells the two apart.
StreamItem(s) ==
    LET data == DataProp(s)
    IN  IF data # <<>> /\ JSONContent(data[1][2]) THEN data[1][2].contentSchema ELSE s

\* OpenAPIStreamOf: an operation with a unary JSON response is no stream.
StreamOf(op) ==
    IF JSONResponses(op) # <<>> \/ ItemSchemas(op) = <<>> THEN <<>>
    ELSE <<StreamItem(ItemSchemas(op)[1])>>

Arg(f, loc) == [f EXCEPT !.loc = loc, !.nullable = FALSE]

GraphQLName(name) == name # <<>> /\ name = SanitizeIdent(name)

\* A slot as the next argument of an operation.
WithArg(r, g, loc) == [types |-> g.types, args |-> Append(r.args, Arg(g.f, loc))]

RECURSIVE IngestParams(_, _, _), IngestForm(_, _, _, _)
IngestParams(r, hint, params) ==
    IF params = <<>> THEN r
    ELSE IngestParams(
            IF params[1].in \in {"header", "cookie"} /\ ~ GraphQLName(params[1].name) THEN r
            ELSE WithArg(r, PropToField(r.types, hint \o SanitizeIdent(params[1].name), params[1].name,
                                        params[1].schema, params[1].required), params[1].in),
            hint, Tail(params))

\* openapiByteProp: a format:byte property of a form, or an array of it, is a file.
ByteProp(s) ==
    LET e == IF "array" \in ToSet(At(s, "type", <<>>)) /\ Has(s, "items") THEN s.items ELSE s
    IN  At(e, "format", "") = "byte"

FormField(g, byte, req) ==
    [g EXCEPT !.f.type = IF @ = Builtin("bytes") /\ byte THEN Builtin("upload") ELSE @,
              !.f.itemRequired = g.f.repeated /\ req]

\* The properties of a multipart form become arguments of their own.
IngestForm(r, hint, s, i) ==
    IF i > Len(At(s, "props", <<>>)) THEN r
    ELSE IngestForm(
            WithArg(r, FormField(PropToField(r.types, hint \o <<"FormData">> \o SanitizeIdent(s.props[i][1]),
                                             s.props[i][1], s.props[i][2], s.props[i][1] \in At(s, "required", {})),
                                 ByteProp(s.props[i][2]), s.props[i][1] \in At(s, "required", {})), "formdata"),
            hint, s, i + 1)

BodyArg(r, g, req) ==
    [types |-> g.types, args |-> Append(r.args, [Field(<<"body">>, g.f.type, req) EXCEPT !.loc = "body"])]

\* The request body: a multipart form before a JSON body.  A JSON body is one
\* argument, of its schema's type without the list around it.
IngestBody(r, hint, body) ==
    CASE body # <<>> /\ body[1].form # <<>> -> IngestForm(r, hint, body[1].form[1], 1)
      [] body # <<>> /\ body[1].form = <<>> /\ body[1].json # <<>> ->
            BodyArg(r, PropToField(r.types, hint \o <<"Body">>, <<"body">>, body[1].json[1], body[1].required),
                    body[1].required)
      [] OTHER -> r

\* An operation without an operationId is named by its method and path, whose
\* leading slash paths leave out here.
OpName(op) == IF op.id # <<>> THEN op.id ELSE <<op.method, "/">> \o op.path

OpKind(op) == IF op.method \in {"GET", "HEAD", "QUERY"} THEN "query" ELSE "mutation"

\* An output slot.
OutSlot(f, req) == [Field(<<>>, f.type, req) EXCEPT !.repeated = f.repeated, !.itemRequired = f.itemRequired]
Answers(made, g) == [types |-> g.types, op |-> [made EXCEPT !.out = <<OutSlot(g.f, FALSE)>>]]
Emits(made, g) ==
    [types |-> g.types,
     op |-> [made EXCEPT !.kind = "subscription", !.out = <<OutSlot(g.f, ~ g.f.nullable)>>]]

\* The response of an operation whose arguments are r, or the stream that
\* replaces it.
WithOutput(r, hint, op, made) ==
    CASE StreamOf(op) # <<>> ->
            Emits(made, PropToField(r.types, hint \o <<"Event">>, <<"event">>, StreamOf(op)[1], TRUE))
      [] StreamOf(op) = <<>> /\ JSONResponses(op) # <<>> ->
            Answers(made, PropToField(r.types, hint \o <<"Response">>, <<"response">>, JSONResponses(op)[1], FALSE))
      [] OTHER -> [types |-> r.types, op |-> made]

WithArgs(r, hint, op) ==
    WithOutput(r, hint, op,
        [Operation(OpName(op), OpKind(op), r.args, <<>>) EXCEPT
            !.method = op.method, !.path = op.path, !.multipart = op.body # <<>> /\ op.body[1].form # <<>>])

\* ingestOpenAPIOp: parameters, then the body, then the output.
IngestOp(types, hint, op) ==
    WithArgs(IngestBody(IngestParams([types |-> types, args |-> <<>>], hint, op.params), hint, op.body), hint, op)

WithOp(r, g) == [types |-> g.types, ops |-> Append(r.ops, g.op)]

RECURSIVE IngestOps(_, _)
IngestOps(r, ops) ==
    IF ops = <<>> THEN r
    ELSE IngestOps(WithOp(r, IngestOp(r.types, SanitizeIdent(OpName(ops[1])), ops[1])), Tail(ops))

ServiceOf(r) == Service(r.ops, <<>>, r.types, "openapi")

\* Components first, then the operations.
IngestOpenAPI(doc) ==
    ServiceOf(IngestOps([types |-> IngestSchemas(<<>>, doc.schemas), ops |-> <<>>], ReadOperations(doc)))

--------------------------------------------------------------------------
(* RenderOpenAPI: a service of another format as a 3.0 document            *)

PrimitiveOpenAPI(scalar) ==
    CASE scalar = "bool" -> [type |-> <<"boolean">>]
      [] scalar = "bytes" -> [type |-> <<"string">>, format |-> "byte"]
      [] scalar \in {"int32", "uint32"} -> [type |-> <<"integer">>, format |-> "int32"]
      [] scalar \in {"int64", "uint64"} -> [type |-> <<"integer">>, format |-> "int64"]
      [] scalar \in {"float", "double"} -> [type |-> <<"number">>, format |-> scalar]
      [] scalar = "timestamp" -> [type |-> <<"string">>, format |-> "date-time"]
      [] scalar = "upload" -> [type |-> <<"string">>, format |-> "binary"]
      [] OTHER -> [type |-> <<"string">>]

\* A $ref cannot have siblings in 3.0.
NullableForm(s) ==
    IF Has(s, "ref") THEN [allOf |-> <<s>>, nullable |-> TRUE] ELSE With(s, "nullable", TRUE)

ItemForm(s, itemRequired) == IF itemRequired THEN s ELSE NullableForm(s)

RECURSIVE RefForm(_)
RefForm(r) ==
    CASE r.k = "builtin" -> IF r.as = "" THEN PrimitiveOpenAPI(r.scalar)
                            ELSE With(PrimitiveOpenAPI(r.scalar), "scalar", r.as)
      [] r.k = "named"   -> [ref |-> <<"schemas", r.name>>]
      [] r.k = "map"     -> [type |-> <<"object">>, addl |-> RefForm(r.val)]
      [] r.k = "list"    -> [type |-> <<"array">>, items |-> ItemForm(RefForm(r.elem), r.itemRequired)]
      [] OTHER -> PrimitiveOpenAPI("")

\* renderOpenAPIFieldSchema; an argument or an output is never nullable here.
\* A nullable map loses its null.
SlotForm(f) ==
    CASE f.repeated -> [type |-> <<"array">>, items |-> ItemForm(RefForm(f.type), f.itemRequired)]
                           @@ (IF f.nullable THEN [nullable |-> TRUE] ELSE <<>>)
      [] ~ f.repeated /\ f.nullable /\ f.type.k # "map" -> NullableForm(RefForm(f.type))
      [] OTHER -> RefForm(f.type)

SlotsForm(slots) ==
    [type |-> <<"object">>,
     props |-> [i \in DOMAIN slots |-> <<slots[i].name, SlotForm(slots[i])>>],
     required |-> {slots[i].name : i \in {j \in DOMAIN slots : slots[j].required}}]

TypeForm(t) ==
    CASE t.kind = "enum"  -> [type |-> <<"string">>, enum |-> t.enum]
      [] t.kind = "union" -> [oneOf |-> [i \in DOMAIN t.variants |-> [ref |-> <<"schemas", t.variants[i]>>]]]
      [] OTHER -> SlotsForm(t.fields)

\* renderOpenAPIOp.  A proto operation takes one JSON object; elsewhere an
\* argument goes where it came from, a named one into the body.  The last body
\* argument is the one that is kept.
InBody(a) == a.loc = "body" \/ (a.loc = "" /\ a.type.k = "named")

Placing(svc, op) == CASE svc.origin = "proto" /\ op.args # <<>> -> "object"
                      [] svc.origin # "proto" /\ op.multipart -> "form"
                      [] OTHER -> "each"

ParamForms(params) ==
    [i \in DOMAIN params |-> [name |-> params[i].name, in |-> IF params[i].loc = "" THEN "query" ELSE params[i].loc,
                              schema |-> SlotForm(params[i]), required |-> params[i].required]]
OpParams(placing, args) ==
    ParamForms(SelectSeq(args, LAMBDA a : CASE placing = "object" -> FALSE
                                            [] placing = "form" -> a.loc # "formdata"
                                            [] OTHER -> ~ InBody(a)))

JSONBody(schema, required) == <<[json |-> <<schema>>, form |-> <<>>, required |-> required]>>
FormBody(form) ==
    <<[json |-> <<>>, form |-> <<SlotsForm(form)>>, required |-> \E i \in DOMAIN form : form[i].required]>>
LastBody(bodies) == IF bodies = <<>> THEN <<>> ELSE JSONBody(SlotForm(Last(bodies)), Last(bodies).required)
OpBody(placing, args) ==
    CASE placing = "object" -> JSONBody(SlotsForm(args), \E i \in DOMAIN args : args[i].required)
      [] placing = "form" -> FormBody(SelectSeq(args, LAMBDA a : a.loc = "formdata"))
      [] OTHER -> LastBody(SelectSeq(args, InBody))

OpMethod(svc, op) == CASE op.method # "" -> op.method
                       [] op.method = "" /\ (svc.origin = "proto" \/ op.kind # "query") -> "POST"
                       [] OTHER -> "GET"
OpPath(op) == IF op.path # <<>> THEN op.path ELSE <<"Service", ".">> \o op.name

RenderOp(svc, op) ==
    [DocOperation(op.name, OpMethod(svc, op), OpPath(op)) EXCEPT
        !.ext = OpMethod(svc, op) \notin Ingested,
        !.params = OpParams(Placing(svc, op), op.args),
        !.body = OpBody(Placing(svc, op), op.args),
        !.responses = IF op.out = <<>> THEN <<>>
                      ELSE "200" :> Response(<<SlotForm(op.out[1])>>, <<>>, <<>>)]

\* An operation replaces another one with its path and method.
RenderUnary(svc, ops) ==
    LET at(i) == <<OpPath(ops[i]), OpMethod(svc, ops[i])>>
        last  == {i \in DOMAIN ops : \A j \in (i + 1)..Len(ops) : at(i) # at(j)}
    IN  FoldFunctionOnSet(LAMBDA o, s : Append(s, RenderOp(svc, o)), <<>>, ops, last)

RenderTypeForms(types) ==
    FoldSet(LAMBDA n, s : Append(s, <<n, TypeForm(types[n])>>), <<>>,
            {n \in DOMAIN types : types[n].kind \in {"object", "input", "enum", "union"}})

\* Streams have no place in the document.
RenderOpenAPI(svc) ==
    [version |-> "3.0", mtls |-> {}, security |-> <<>>, kept |-> <<>>,
     ops |-> RenderUnary(svc, SelectSeq(FlatOperations(svc),
                 LAMBDA op : op.kind # "subscription" /\ ~ op.streamingClient)),
     schemas |-> RenderTypeForms(svc.types)]
===========================================================================
