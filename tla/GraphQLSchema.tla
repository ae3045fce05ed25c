--------------------------- MODULE GraphQLSchema --------------------------
(***************************************************************************)
(* RenderGraphQLRuntime and IngestGraphQL (gw/ir): the GraphQL schema the  *)
(* gateway folds out of the versions of a namespace, and the service       *)
(* another gateway reads from it by introspection.                         *)
(*                                                                         *)
(* A schema is [types, roots]: "roots" gives each kind of operation the    *)
(* fields of its root type.  "types" is a set of named types; "of" tells   *)
(* apart types that were built separately, so that two of them with one    *)
(* name show up as two.                                                    *)
(***************************************************************************)
EXTENDS SchemaIR

NameRef(name) == [k |-> "name", name |-> name]
NonNull(t) == [k |-> "nonnull", of |-> t]
ListType(t) == [k |-> "list", of |-> t]
NoInput == [k |-> "error"]
JSON == NameRef(<<"JSON">>)

GField(name, args, type) == [name |-> name, args |-> args, type |-> type]
GType(name, kind, fields, variants, of) ==
    [name |-> name, kind |-> kind, fields |-> fields, variants |-> variants, of |-> of]

--------------------------------------------------------------------------
(* Naming.  A builder b is a service with its namespace, its version and   *)
(* whether that is the latest.                                             *)

LowerCamel(name) == SelectSeq(name, LAMBDA w : w # "_")
ExportedName(name) == [i \in DOMAIN name |-> IF name[i] = "." THEN "_" ELSE name[i]]
ValidGraphQL(name) == name # <<>> /\ ToSet(name) \cap {"-", ".", "/", "{", "}"} = {}

Prefix(b) == b.ns \o <<"_">> \o (IF b.latest THEN <<>> ELSE <<b.ver, "_">>)

\* newRuntimeTypeBuilder: types of proto services carry their package, the
\* others their namespace, and their version unless it is the latest.
TypeName(b, n) == IF b.svc.origin = "proto" THEN ExportedName(n) ELSE Prefix(b) \o n
InputName(b, n) ==
    TypeName(b, n) \o (CASE b.svc.origin = "proto"   -> <<"_", "Input">>
                         [] b.svc.origin = "graphql" -> <<>>
                         [] OTHER -> <<"Input">>)
FieldName(b, n) == IF b.svc.origin \in {"proto", "openapi"} THEN LowerCamel(n) ELSE n
OpFieldName(b, n) == IF b.svc.origin = "proto" THEN LowerCamel(n) ELSE n

--------------------------------------------------------------------------
(* The type builder                                                        *)

GScalar(b, r) ==
    CASE r.k = "unknown" -> IF b.svc.origin = "proto" THEN <<"String">> ELSE <<"JSON">>
      [] r.k = "builtin" /\ r.as # "" -> <<r.as>>
      [] OTHER ->
         CASE r.scalar = "bool" -> <<"Boolean">>
           [] r.scalar \in {"int32", "uint32"} -> <<"Int">>
           [] r.scalar \in {"int64", "uint64"} -> IF b.svc.origin = "openapi" THEN <<"Long">> ELSE <<"String">>
           [] r.scalar \in {"float", "double"} -> <<"Float">>
           [] r.scalar = "id" -> <<"ID">>
           [] r.scalar = "upload" -> <<"Upload">>
           [] OTHER -> <<"String">>

Wrap(t, repeated, required, itemRequired) ==
    LET l == IF repeated THEN ListType(IF itemRequired THEN NonNull(t) ELSE t) ELSE t
    IN  IF required THEN NonNull(l) ELSE l

\* The variants a union can have: objects of the service.
Objects(b, t) ==
    SelectSeq(t.variants, LAMBDA v : v \in DOMAIN b.svc.types /\ b.svc.types[v].kind = "object")

KindAt(b, n) == IF n \in DOMAIN b.svc.types THEN b.svc.types[n].kind ELSE "none"

RECURSIVE OutputBase(_, _), InputBase(_, _)
OutputBase(b, r) ==
    CASE r.k = "list" -> Wrap(OutputBase(b, r.elem), TRUE, FALSE, r.itemRequired)
      [] r.k = "map"  -> JSON
      [] r.k = "named" ->
            IF \/ KindAt(b, r.name) \in {"none", "input"}
               \/ KindAt(b, r.name) \in {"union", "interface"} /\ Objects(b, b.svc.types[r.name]) = <<>>
            THEN JSON ELSE NameRef(TypeName(b, r.name))
      [] OTHER -> NameRef(GScalar(b, r))

\* A union or an interface is no input: the field is left out, the operation
\* that takes it as an argument fails the whole schema.
InputBase(b, r) ==
    CASE r.k = "list" -> LET e == InputBase(b, r.elem)
                         IN  IF e = NoInput THEN e ELSE Wrap(e, TRUE, FALSE, r.itemRequired)
      [] r.k = "map"  -> JSON
      [] r.k = "named" ->
            CASE KindAt(b, r.name) = "none" -> JSON
              [] KindAt(b, r.name) \in {"object", "input"} -> NameRef(InputName(b, r.name))
              [] KindAt(b, r.name) \in {"enum", "scalar"} -> NameRef(TypeName(b, r.name))
              [] OTHER -> NoInput
      [] OTHER -> NameRef(GScalar(b, r))

OutputOf(b, f) == Wrap(OutputBase(b, f.type), f.repeated, f.required /\ ~ f.nullable, f.itemRequired)
InputOf(b, f)  == Wrap(InputBase(b, f.type), f.repeated, f.required /\ ~ f.nullable, f.itemRequired)

\* objectFor, inputObjectFor: fields whose names GraphQL cannot spell are left
\* out; an object with none gets a placeholder.
OrVoid(fields) == IF fields = <<>> THEN <<GField(<<"_void">>, <<>>, NameRef(<<"String">>))>> ELSE fields
OutAll(b, fs) == [i \in DOMAIN fs |-> GField(FieldName(b, fs[i].name), <<>>, OutputOf(b, fs[i]))]
InAll(b, fs)  == [i \in DOMAIN fs |-> GField(FieldName(b, fs[i].name), <<>>, InputOf(b, fs[i]))]
OutFields(b, t) == OrVoid(OutAll(b, SelectSeq(t.fields, LAMBDA f : ValidGraphQL(FieldName(b, f.name)))))
InFields(b, t) ==
    OrVoid(InAll(b, SelectSeq(t.fields, LAMBDA f : ValidGraphQL(FieldName(b, f.name))
                                                   /\ InputBase(b, f.type) # NoInput)))

\* A node of the type graph: a type of the service in output or input position.
\* Enums and scalars are the same type in both.
Node(b, dir, r) ==
    LET l == Leaf(r)
    IN  IF l.k # "named" \/ KindAt(b, l.name) = "none" THEN {}
        ELSE LET kind == b.svc.types[l.name].kind
             IN  CASE kind \in {"enum", "scalar"} -> {<<"out", l.name>>}
                   [] dir = "out" /\ kind = "input" -> {}
                   [] dir = "in" /\ kind \in {"union", "interface"} -> {}
                   [] OTHER -> {<<dir, l.name>>}

\* The nodes the fields and variants of a node's type lead to.
Successors(b, n, t) ==
    UNION {Node(b, n[1], t.fields[i].type) : i \in DOMAIN t.fields} \cup {<<"out", v>> : v \in ToSet(Objects(b, t))}

\* The nodes reached from "old" and "new", whose successors are not in yet.
RECURSIVE Reachable(_, _, _)
Reachable(b, old, new) ==
    IF new = {} THEN old
    ELSE Reachable(b, old \cup new, UNION {Successors(b, n, b.svc.types[n[2]]) : n \in new} \ (old \cup new))

\* The named type built for a node.
Built(b, n) ==
    LET t  == b.svc.types[n[2]]
        of == <<b.svc.origin, IF b.svc.origin = "proto" THEN "" ELSE b.ver, n[1], n[2]>>
    IN  CASE n[1] = "in" -> GType(InputName(b, n[2]), "input", InFields(b, t), <<>>, of)
          [] n[1] = "out" /\ t.kind = "object" -> GType(TypeName(b, n[2]), "object", OutFields(b, t), <<>>, of)
          [] n[1] = "out" /\ t.kind \in {"union", "interface"} ->
                GType(TypeName(b, n[2]), "union", <<>>,
                      [i \in DOMAIN Objects(b, t) |-> TypeName(b, Objects(b, t)[i])], of)
          [] OTHER -> GType(TypeName(b, n[2]), t.kind, <<>>, t.enum, of)

OpNodes(b, op) ==
    UNION {Node(b, "in", op.args[i].type) : i \in DOMAIN op.args}
        \cup UNION {Node(b, "out", op.out[i].type) : i \in DOMAIN op.out}

\* A union that ends up with no object variant is JSON, not a type.
BuiltTypes(b, ops) ==
    {Built(b, n) : n \in {m \in Reachable(b, {}, UNION {OpNodes(b, ops[i]) : i \in DOMAIN ops}) :
        ~ (b.svc.types[m[2]].kind \in {"union", "interface"} /\ Objects(b, b.svc.types[m[2]]) = <<>>)}}

--------------------------------------------------------------------------
(* Operations                                                              *)

KindSuffix(kind) == CASE kind = "mutation" -> "Mutation" [] kind = "subscription" -> "Subscription"
                      [] OTHER -> "Query"

\* buildRuntimeOperation
OpField(b, op) ==
    GField(OpFieldName(b, op.name),
           [i \in DOMAIN op.args |-> [name |-> op.args[i].name,
               type |-> Wrap(InputBase(b, op.args[i].type), op.args[i].repeated,
                             op.args[i].required, op.args[i].itemRequired)]],
           IF op.out = <<>> THEN NameRef(<<"String">>)
           ELSE Wrap(OutputBase(b, op.out[1].type), op.out[1].repeated, op.out[1].required,
                     op.out[1].itemRequired))

Container(path, kind, fields) ==
    GType(path \o <<KindSuffix(kind), "Namespace">>, "object", fields, <<>>, <<"container", path, kind>>)
ContainerField(name, c) == GField(name, <<>>, NonNull(NameRef(c.name)))

\* Containers side by side: fields and types put together.
Parts(list) == [fields |-> FlattenSeq([i \in DOMAIN list |-> list[i].fields]),
                types  |-> UNION {list[i].types : i \in DOMAIN list}]

\* A container of some content, as a field that leads to it.
ContainedIn(c, box, name) == [fields |-> <<ContainerField(name, box)>>, types |-> c.types \cup {box}]
Contained(c, path, kind, name) == ContainedIn(c, Container(path, kind, c.fields), name)

\* emitGroupContainer: a group has a container even if it is empty.
OrEmpty(c) ==
    IF c.fields = <<>> THEN [c EXCEPT !.fields = <<GField(<<"_empty">>, <<>>, NameRef(<<"String">>))>>] ELSE c

\* addServiceContent: the fields of the operations and groups of one kind,
\* with the containers made for the groups.
RECURSIVE Content(_, _, _, _, _), GroupContents(_, _, _, _)
OpFields(b, ops) == [i \in DOMAIN ops |-> OpField(b, ops[i])]
GroupContents(b, gs, kind, path) ==
    [i \in DOMAIN gs |-> Contained(OrEmpty(Content(b, gs[i].ops, gs[i].groups, kind, path \o gs[i].name)),
                                   path \o gs[i].name, kind, gs[i].name)]
Content(b, ops, groups, kind, path) ==
    Parts(<<[fields |-> OpFields(b, SelectSeq(ops, LAMBDA op : op.kind = kind)), types |-> {}]>>
              \o GroupContents(b, SelectSeq(groups, LAMBDA g : g.kind = kind), kind, path))

\* A version or the stable alias below its namespace, if it has operations.
Under(c, path, kind, name) == IF c.fields = <<>> THEN c ELSE Contained(c, path, kind, name)

\* Where the operations of a namespace stand: the latest version's in the
\* namespace itself, every version's and the stable one's in a sub-container.
Stand(b, name) == [b |-> b, name |-> name]
Stands(builders, stable) ==
    <<Stand(Last(builders), <<>>)>> \o [i \in DOMAIN builders |-> Stand(builders[i], <<builders[i].ver>>)]
        \o [i \in DOMAIN stable |-> Stand(stable[i], <<"stable">>)]
StandContent(c, ns, kind, name) == IF name = <<>> THEN c ELSE Under(c, ns \o name, kind, name)

\* buildNamespaceFold.  "stable" is a sequence of at most one builder.
NamespaceFold(ns, stands, kind) ==
    Under(Parts([i \in DOMAIN stands |->
                    StandContent(Content(stands[i].b, stands[i].b.svc.ops, stands[i].b.svc.groups, kind,
                                         ns \o stands[i].name), ns, kind, stands[i].name)]),
          ns, kind, ns)

\* addSubscriptionFlat: subscriptions are flat root fields, those of groups
\* included.
SubscriptionOps(svc) ==
    SelectSeq(svc.ops, LAMBDA op : op.kind = "subscription")
        \o FlattenSeq([i \in DOMAIN svc.groups |->
               IF svc.groups[i].kind = "subscription" THEN FlattenGroup(svc.groups[i], <<>>) ELSE <<>>])
Prefixed(fields, prefix) == [i \in DOMAIN fields |-> [fields[i] EXCEPT !.name = prefix \o @]]
Subscriptions(b, prefix) == Prefixed(OpFields(b, SubscriptionOps(b.svc)), prefix)

SchemaOf(roots, subs, built) ==
    [types |-> roots.query.types \cup roots.mutation.types \cup built,
     roots |-> [query |-> IF roots.query.fields = <<>>
                          THEN <<GField(<<"_status">>, <<>>, NameRef(<<"String">>))>> ELSE roots.query.fields,
                mutation |-> roots.mutation.fields, subscription |-> subs]]

\* Where the subscriptions of builders stand, by prefix.
Flat(builders, stable, ns) ==
    [i \in DOMAIN builders |-> [b |-> builders[i], prefix |-> Prefix(builders[i])]]
        \o [i \in DOMAIN stable |-> [b |-> stable[i], prefix |-> ns \o <<"_", "stable", "_">>]]

FoldBuilders(ns, bs, stable, flat) ==
    SchemaOf([kind \in {"query", "mutation"} |-> NamespaceFold(ns, Stands(bs, stable), kind)],
             FlattenSeq([i \in DOMAIN flat |-> Subscriptions(flat[i].b, flat[i].prefix)]),
             UNION {BuiltTypes(bs[i], FlatOperations(bs[i].svc)) : i \in DOMAIN bs})

WithStable(ns, bs, stable) == FoldBuilders(ns, bs, stable, Flat(bs, stable, ns))
WithBuilders(ns, bs, stableVN) == WithStable(ns, bs, IF stableVN = 0 THEN <<>> ELSE <<bs[stableVN]>>)

\* The schema of one namespace.  "services" are its versions in order, stableVN
\* the index of the stable one or 0.
RenderGraphQL(ns, services, stableVN) ==
    WithBuilders(ns, [i \in DOMAIN services |-> [svc |-> services[i].svc, ver |-> services[i].ver,
                                                 ns |-> ns, latest |-> i = Len(services)]], stableVN)

--------------------------------------------------------------------------
(* What makes graphql.NewSchema or the fold refuse                         *)

DistinctNames(fields) == Cardinality({fields[i].name : i \in DOMAIN fields}) = Len(fields)

RECURSIVE IsInputRef(_)
IsInputRef(t) == t # NoInput /\ (t.k \in {"list", "nonnull"} => IsInputRef(t.of))

Fields(schema) == UNION {ToSet(t.fields) : t \in {u \in schema.types : u.kind = "object"}}
                      \cup UNION {ToSet(schema.roots[k]) : k \in DOMAIN schema.roots}

\* Every name is an identifier.  Object fields that are none were left out; an
\* operation, its arguments and a type keep their names.
NamesSpelled(schema) ==
    /\ \A t \in schema.types : ValidGraphQL(t.name)
    /\ \A f \in Fields(schema) : ValidGraphQL(f.name) /\ \A a \in ToSet(f.args) : ValidGraphQL(a.name)

SchemaBuilds(schema) ==
    /\ NamesSpelled(schema)
    /\ \A t, u \in schema.types : t.name = u.name => t = u
    /\ \A t \in schema.types : t.of[1] = "container" => DistinctNames(t.fields)
    /\ \A k \in DOMAIN schema.roots : DistinctNames(schema.roots[k])
    /\ \A f \in Fields(schema) : \A i \in DOMAIN f.args : IsInputRef(f.args[i].type)

--------------------------------------------------------------------------
(* Reading a schema by introspection                                       *)

RECURSIVE StripNonNull(_), ElemRef(_)
StripNonNull(t) == IF t.k = "nonnull" THEN StripNonNull(t.of) ELSE t

ElemRef(t) ==
    CASE t.k = "list" -> ListRef(ElemRef(StripNonNull(t.of)), t.of.k = "nonnull")
      [] t.k = "name" /\ t.name = <<"String">>  -> Builtin("string")
      [] t.k = "name" /\ t.name = <<"Int">>     -> Builtin("int32")
      [] t.k = "name" /\ t.name = <<"Float">>   -> Builtin("double")
      [] t.k = "name" /\ t.name = <<"Boolean">> -> Builtin("bool")
      [] t.k = "name" /\ t.name = <<"ID">>      -> Builtin("id")
      [] OTHER -> NamedRef(t.name)

\* graphqlFieldToIRField: the outer list is the field's Repeated.
ReadSlot(name, t) ==
    LET bare == StripNonNull(t)
        list == bare.k = "list"
    IN  [Field(name, ElemRef(IF list THEN StripNonNull(bare.of) ELSE bare), t.k = "nonnull")
            EXCEPT !.repeated = list, !.itemRequired = list /\ bare.of.k = "nonnull"]

ReadOperation(f, kind) ==
    Operation(f.name, kind, [i \in DOMAIN f.args |-> ReadSlot(f.args[i].name, f.args[i].type)],
              <<ReadSlot(<<>>, f.type)>>)

ObjectsNamed(schema, t) ==
    LET bare == StripNonNull(t)
    IN  {u \in schema.types : bare.k = "name" /\ u.kind = "object" /\ u.name = bare.name}

RECURSIVE HasOperations(_, _, _)
HasOperations(schema, t, visited) ==
    /\ t.name \notin visited
    /\ \E f \in ToSet(t.fields) :
           \/ f.args # <<>>
           \/ \E u \in ObjectsNamed(schema, f.type) : HasOperations(schema, u, visited \cup {t.name})

\* tryGraphQLGroup: a field without arguments whose object offers operations is
\* a group; "seen" ends a cycle.
IsGroup(schema, f, seen) ==
    f.args = <<>> /\ \E t \in ObjectsNamed(schema, f.type) :
        t.name \notin seen /\ HasOperations(schema, t, {})

ReadFields(fields, kind) == [i \in DOMAIN fields |-> ReadOperation(fields[i], kind)]
NamespaceType(schema, f) == CHOOSE u \in ObjectsNamed(schema, f.type) : TRUE

\* The fields of a type or a root that are groups, and those that are not.
Grouped(schema, fields, seen, is) == SelectSeq(fields, LAMBDA g : IsGroup(schema, g, seen) = is)

RECURSIVE ReadGroup(_, _, _, _, _)
ReadGroups(schema, fields, kind, seen) ==
    [i \in DOMAIN fields |->
        ReadGroup(schema, fields[i], NamespaceType(schema, fields[i]), kind, seen)]
ReadGroup(schema, f, t, kind, seen) ==
    Group(f.name, kind, ReadFields(Grouped(schema, t.fields, seen \cup {t.name}, FALSE), kind),
          ReadGroups(schema, Grouped(schema, t.fields, seen \cup {t.name}, TRUE), kind, seen \cup {t.name}))

\* The namespace types: the objects that became groups.
RECURSIVE GroupTypes(_, _, _)
GroupTypes(schema, f, seen) ==
    IF ~ IsGroup(schema, f, seen) THEN {}
    ELSE LET t == NamespaceType(schema, f)
         IN  {t.name} \cup UNION {GroupTypes(schema, g, seen \cup {t.name}) : g \in ToSet(t.fields)}

ReadType(t) ==
    LET fs == [i \in DOMAIN t.fields |-> ReadSlot(t.fields[i].name, t.fields[i].type)]
    IN  CASE t.kind = "union" -> UnionType(t.variants)
          [] t.kind = "enum"  -> EnumType(t.variants)
          [] OTHER -> Type(t.kind, fs, <<>>, <<>>)

Builtins == {<<"String">>, <<"Int">>, <<"Float">>, <<"Boolean">>, <<"ID">>}

RECURSIVE RefName(_)
RefName(t) == IF t.k \in {"list", "nonnull"} THEN RefName(t.of) ELSE t.name

\* The custom scalars introspection lists: names no type of the schema has.
CustomScalars(schema) ==
    LET named == {RefName(f.type) : f \in Fields(schema) \cup
                      UNION {ToSet(t.fields) : t \in schema.types}}
                 \cup {RefName(a.type) : a \in UNION {ToSet(f.args) : f \in Fields(schema)}}
    IN  named \ (Builtins \cup {t.name : t \in schema.types})

ReadTypes(types) == [n \in {t.name : t \in types} |-> ReadType(CHOOSE t \in types : t.name = n)]

RootKinds == <<"query", "mutation", "subscription">>

IngestGraphQL(schema) ==
    Service(FlattenSeq([i \in DOMAIN RootKinds |->
                ReadFields(Grouped(schema, schema.roots[RootKinds[i]], {}, FALSE), RootKinds[i])]),
            FlattenSeq([i \in DOMAIN RootKinds |->
                ReadGroups(schema, Grouped(schema, schema.roots[RootKinds[i]], {}, TRUE), RootKinds[i], {})]),
            ReadTypes({t \in schema.types :
                \A f \in UNION {ToSet(schema.roots[k]) : k \in DOMAIN schema.roots} :
                    t.name \notin GroupTypes(schema, f, {})})
                @@ [n \in CustomScalars(schema) |-> Type("scalar", <<>>, <<>>, <<>>)], "graphql")
===========================================================================
