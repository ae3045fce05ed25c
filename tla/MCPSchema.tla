----------------------------- MODULE MCPSchema ----------------------------
(***************************************************************************)
(* IngestMCP (gw/ir): the tools of an MCP server as operations.            *)
(*                                                                         *)
(* A tool is a name and the JSON schema of its input, in the form          *)
(* OpenAPISchema has for schemas.                                          *)
(***************************************************************************)
EXTENDS OpenAPISchema

FreeForm == MapRef(Builtin("string"), Unknown)

\* mcpSchemaType: the first type that is not null.
FirstType(s) ==
    LET ts == SelectSeq(At(s, "type", <<>>), LAMBDA t : t # "null")
    IN  IF ts = <<>> THEN "" ELSE ts[1]

RECURSIVE ToolRef(_, _, _), ToolFields(_, _, _, _)

ToolRefs(types, ref, repeated) == [types |-> types, ref |-> ref, repeated |-> repeated]
Registered(types, hint, kind) == hint \in DOMAIN types /\ types[hint].kind = kind

WithToolField(r, name, required, g) ==
    [types |-> g.types,
     fields |-> Append(r.fields, [Field(name, g.ref, required) EXCEPT !.repeated = g.repeated])]

\* The properties of an object as slots.
ToolFields(r, hint, props, required) ==
    IF props = <<>> THEN r
    ELSE ToolFields(WithToolField(r, props[1][1], props[1][1] \in required,
                                  ToolRef(r.types, hint \o SanitizeIdent(props[1][1]), props[1][2])),
                    hint, Tail(props), required)

\* mcpTypeRef: one property.  Objects and enums get a type under "hint" unless
\* one of the kind has the name already.
ToolEnum(types, hint, s) ==
    CASE At(s, "enum", <<>>) = <<>> -> ToolRefs(types, Builtin("string"), FALSE)
      [] At(s, "enum", <<>>) # <<>> /\ Registered(types, hint, "enum") -> ToolRefs(types, NamedRef(hint), FALSE)
      [] OTHER -> ToolRefs(With(types, hint, EnumType(EnumValues(s))), NamedRef(hint), FALSE)
ListOfItem(item) ==
    ToolRefs(item.types, IF item.repeated THEN ListRef(item.ref, FALSE) ELSE item.ref, TRUE)
ObjectOfFields(r, hint) == ToolRefs(With(r.types, hint, ObjectType(r.fields)), NamedRef(hint), FALSE)

ToolRef(types, hint, s) ==
    CASE FirstType(s) = "string"  -> ToolEnum(types, hint, s)
      [] FirstType(s) = "boolean" -> ToolRefs(types, Builtin("bool"), FALSE)
      [] FirstType(s) = "integer" -> ToolRefs(types, Builtin("int64"), FALSE)
      [] FirstType(s) = "number"  -> ToolRefs(types, Builtin("double"), FALSE)
      [] FirstType(s) = "array"   ->
            IF Has(s, "items") THEN ListOfItem(ToolRef(types, hint \o <<"Item">>, s.items))
            ELSE ToolRefs(types, Builtin("string"), TRUE)
      [] FirstType(s) = "object" /\ At(s, "props", <<>>) # <<>> ->
            IF Registered(types, hint, "object") THEN ToolRefs(types, NamedRef(hint), FALSE)
            ELSE ObjectOfFields(ToolFields([types |-> With(types, hint, ObjectType(<<>>)), fields |-> <<>>],
                                           hint, s.props, At(s, "required", {})), hint)
      [] OTHER -> ToolRefs(types, FreeForm, FALSE)

ToolName(tool) == SanitizeIdent(tool.name)

ToolArgs(types, hint, s) ==
    ToolFields([types |-> types, fields |-> <<>>], hint,
               IF FirstType(s) = "object" THEN At(s, "props", <<>>) ELSE <<>>, At(s, "required", {}))
WithTool(r, name, g) ==
    [types |-> g.types, ops |-> Append(r.ops, Operation(name, "mutation", g.fields, <<Field(<<>>, FreeForm, TRUE)>>))]

RECURSIVE IngestTools(_, _)
IngestTools(r, tools) ==
    IF tools = <<>> THEN r
    ELSE IngestTools(WithTool(r, ToolName(tools[1]), ToolArgs(r.types, ToolName(tools[1]), tools[1].schema)),
                     Tail(tools))

\* Two tools whose names become one are refused.
ToolsAccepted(tools) == Cardinality({ToolName(tools[i]) : i \in DOMAIN tools}) = Len(tools)

ToolService(r) == Service(r.ops, <<>>, r.types, "mcp")
IngestMCP(tools) == ToolService(IngestTools([types |-> <<>>, ops |-> <<>>], tools))
===========================================================================
