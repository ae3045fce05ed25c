---------------------------- MODULE GraphQLRelay ---------------------------
(***************************************************************************)
(* graphql_dispatcher.go and graphql_mirror.go: how a gateway that mirrors *)
(* a GraphQL service passes a caller's selection on to it, and what it     *)
(* makes of the answer.                                                    *)
(*                                                                         *)
(* A selection is a sequence of fields and of inline fragments; a named    *)
(* fragment is not modelled.  An argument is given by a variable, and      *)
(* "args" is the set of the names of the arguments and variables a field   *)
(* uses.                                                                   *)
(***************************************************************************)
EXTENDS GraphQLSchema, HTTPRelay

Select(alias, name, args, sub) ==
    [on |-> <<>>, alias |-> alias, name |-> name, args |-> args, sub |-> sub]
OnType(type, sub) == [on |-> <<type>>, alias |-> <<>>, name |-> <<>>, args |-> {}, sub |-> sub]
Typename == <<"__typename">>
ResponseKey(f) == IF f.alias = <<>> THEN f.name ELSE f.alias

\* One operation: its variables, by name and type, and its root field.
Query(kind, variables, field) == [kind |-> kind, vars |-> variables, field |-> field]

--------------------------------------------------------------------------
(* A GraphQL server: validation and execution (external)                   *)

TypesNamed(types, name) == {t \in types : t.name = name}
Composite(types, name) == \E t \in TypesNamed(types, name) : t.kind \in {"object", "union"}

\* A type condition holds for the object type itself and for its unions.
Applies(types, cond, name) ==
    cond = name \/ \E u \in TypesNamed(types, cond) : u.kind = "union" /\ name \in ToSet(u.variants)

\* The fields of a selection that are asked of an object of a type.
RECURSIVE CollectFields(_, _, _)
CollectFields(types, name, sel) ==
    FlattenSeq([i \in DOMAIN sel |->
        CASE sel[i].on = <<>> -> <<sel[i]>>
          [] sel[i].on # <<>> /\ Applies(types, sel[i].on[1], name) -> CollectFields(types, name, sel[i].sub)
          [] OTHER -> <<>>])

FieldOf(t, name) == CHOOSE f \in ToSet(t.fields) : f.name = name

\* The value at a field of some type.  A leaf tells the field it is read from, a
\* list has one element, and a union holds an object of its last variant.
RECURSIVE ValueAt(_, _, _), ObjectAt(_, _, _)
ValueAt(types, ref, f) ==
    CASE ref.k = "nonnull" -> ValueAt(types, ref.of, f)
      [] ref.k = "list" -> Val("array", <<ValueAt(types, ref.of, f)>>)
      [] ref.k = "name" /\ Composite(types, ref.name) ->
            ObjectAt(types, CHOOSE t \in TypesNamed(types, ref.name) : TRUE, f.sub)
      [] OTHER -> StringOf(f.name)

ObjectAt(types, t, sel) ==
    IF t.kind = "union" THEN ObjectAt(types, CHOOSE v \in TypesNamed(types, Last(t.variants)) : TRUE, sel)
    ELSE LET fs == CollectFields(types, t.name, sel)
             Value(f) == IF f.name = Typename THEN StringOf(t.name) ELSE ValueAt(types, FieldOf(t, f.name).type, f)
         IN  Val("object", [k \in {ResponseKey(fs[i]) : i \in DOMAIN fs} |->
                               Value(CHOOSE f \in ToSet(fs) : ResponseKey(f) = k)])

\* A variable may stand where its type or a type that allows more does.
RECURSIVE Fits(_, _)
Fits(v, t) ==
    CASE v.k = "nonnull" -> Fits(v.of, StripNonNull(t))
      [] v.k = "list" -> t.k = "list" /\ Fits(v.of, t.of)
      [] OTHER -> v = t

Required(f) == {f.args[i].name : i \in {j \in DOMAIN f.args : f.args[j].type.k = "nonnull"}}

\* Every field exists, leaves have no selection and composites do, required
\* arguments are given, and type conditions are types of the server.
RECURSIVE ValidIn(_, _, _)
ValidField(types, decl, f) ==
    /\ Required(decl) \subseteq f.args /\ f.args \subseteq {decl.args[i].name : i \in DOMAIN decl.args}
    /\ IF Composite(types, RefName(decl.type)) THEN f.sub # <<>> /\ ValidIn(types, RefName(decl.type), f.sub)
       ELSE f.sub = <<>>
ValidIn(types, name, sel) ==
    \A i \in DOMAIN sel :
        CASE sel[i].on # <<>> -> Composite(types, sel[i].on[1]) /\ ValidIn(types, sel[i].on[1], sel[i].sub)
          [] sel[i].on = <<>> /\ sel[i].name = Typename -> sel[i].sub = <<>>
          [] OTHER -> \E t \in TypesNamed(types, name) : \E d \in ToSet(t.fields) :
                          d.name = sel[i].name /\ ValidField(types, d, sel[i])

RECURSIVE UsedVariables(_)
UsedVariables(f) == f.args \cup UNION {UsedVariables(f.sub[i]) : i \in DOMAIN f.sub}

\* Every variable is used and its type is one of the server's.
ValidQuery(schema, q) ==
    /\ {v.name : v \in q.vars} = UsedVariables(q.field)
    /\ \A v \in q.vars : RefName(v.type) \in Builtins \cup {t.name : t \in schema.types} \cup CustomScalars(schema)
    /\ \E d \in ToSet(schema.roots[q.kind]) :
           /\ d.name = q.field.name /\ ValidField(schema.types, d, q.field)
           /\ \A i \in DOMAIN d.args : \A v \in q.vars :
                  v.name = d.args[i].name => Fits(v.type, d.args[i].type)

RootField(schema, kind, name) == CHOOSE d \in ToSet(schema.roots[kind]) : d.name = name

\* The answer: data with the root field, or errors.
Served(schema, q) ==
    IF ValidQuery(schema, q)
    THEN [data |-> ResponseKey(q.field) :> ValueAt(schema.types, RootField(schema, q.kind, q.field.name).type, q.field),
          errors |-> FALSE]
    ELSE [data |-> <<>>, errors |-> TRUE]

--------------------------------------------------------------------------
(* Forwarding a caller's selection                                         *)

\* graphQLMirror: a namespace, a version and whether that is the latest.
Mirror(ns, ver, latest) == [ns |-> ns, ver |-> ver, latest |-> latest]

StripPrefix(name, prefix) ==
    IF IsStrictPrefix(prefix, name) THEN SubSeq(name, Len(prefix) + 1, Len(name)) ELSE name

\* unprefixTypeName
UnprefixTypeName(m, name) ==
    LET long == StripPrefix(name, m.ns \o <<"_", m.ver, "_">>)
    IN  IF ~ m.latest /\ long # name THEN long ELSE StripPrefix(name, m.ns \o <<"_">>)

\* rewriteSelectionSet: type conditions become the server's; everything else
\* passes.
RECURSIVE RewriteSelectionSet(_, _)
RewriteSelectionSet(m, sel) ==
    [i \in DOMAIN sel |->
        [sel[i] EXCEPT !.on = [j \in DOMAIN @ |-> UnprefixTypeName(m, @[j])],
                       !.sub = RewriteSelectionSet(m, @)]]

\* rewriteFieldForRemote, and the same for the field of a group.
RewriteFieldForRemote(m, f, remoteName) ==
    Select(f.alias, remoteName, f.args, RewriteSelectionSet(m, f.sub))

\* The caller's operation with the field alone: all its variables go along.
ForwardedQuery(m, q, remoteName) == Query(q.kind, q.vars, RewriteFieldForRemote(m, q.field, remoteName))

--------------------------------------------------------------------------
(* Without a selection: callers over HTTP, gRPC and MCP                    *)

LeafScalar(scalar) ==
    CASE scalar = "bool" -> <<"Boolean">>
      [] scalar \in {"int32", "uint32", "int64", "uint64"} -> <<"Int">>
      [] scalar \in {"float", "double"} -> <<"Float">>
      [] scalar = "id" -> <<"ID">>
      [] OTHER -> <<"String">>

\* graphQLTypeNameForRef
RECURSIVE TypeNameForRef(_)
TypeNameForRef(r) ==
    CASE r.k = "list" -> Wrap(TypeNameForRef(r.elem), TRUE, FALSE, r.itemRequired)
      [] r.k = "named" -> NameRef(r.name)
      [] r.k = "builtin" -> NameRef(LeafScalar(r.scalar))
      [] OTHER -> NameRef(<<"String">>)

\* graphQLArgTypeString
ArgType(a) == Wrap(TypeNameForRef(a.type), a.repeated, a.required, a.itemRequired)

\* isLeafIntrospectionType: SCALAR and ENUM below the lists; input types do not
\* occur in output.
IsLeafType(types, ref) == ~ Composite(types, RefName(ref))

OnlyOptionalArgs(f) == Required(f) = {}

\* buildCanonicalSelectionSet: __typename and the leaves that need no argument.
LeafFields(types, t) == SelectSeq(t.fields, LAMBDA f : OnlyOptionalArgs(f) /\ IsLeafType(types, f.type))
CanonicalSelection(types, ref) ==
    IF ref.k # "named" \/ ~ Composite(types, ref.name) THEN <<>>
    ELSE <<Select(<<>>, Typename, {}, <<>>)>>
             \o FlattenSeq([i \in DOMAIN SetToSeq(TypesNamed(types, ref.name)) |->
                    LET fs == LeafFields(types, SetToSeq(TypesNamed(types, ref.name))[i])
                    IN  [j \in DOMAIN fs |-> Select(<<>>, fs[j].name, {}, <<>>)]])

\* newGraphQLDispatcher: not for what is in a group, and not for subscriptions.
HasCanonical(op, isGrouped) == ~ isGrouped /\ op.kind # "subscription"

\* buildGraphQLCanonicalQuery
CanonicalQuery(schema, op) ==
    Query(op.kind, {[name |-> op.args[i].name, type |-> ArgType(op.args[i])] : i \in DOMAIN op.args},
          Select(<<>>, op.name, {op.args[i].name : i \in DOMAIN op.args},
                 CanonicalSelection(schema.types, Leaf(op.out[1].type))))

--------------------------------------------------------------------------
(* The answer                                                              *)

\* indexAtKey: a key, not a text that reads like one, and with a text as value.
IsTypename(k, v) == k = Typename /\ v.t = "string"

\* prefixResponseTypenames
RECURSIVE PrefixResponseTypenames(_, _)
PrefixResponseTypenames(m, v) ==
    CASE v.t = "array" -> Val("array", [i \in DOMAIN v.v |-> PrefixResponseTypenames(m, v.v[i])])
      [] v.t = "object" ->
            Val("object", [k \in DOMAIN v.v |->
                IF IsTypename(k, v.v[k]) THEN StringOf(m.ns \o <<"_">> \o v.v[k].v)
                ELSE PrefixResponseTypenames(m, v.v[k])])
      [] OTHER -> v

Rejected == Val("error", "remote")
Member(data, key) == IF key \in DOMAIN data THEN data[key] ELSE NullValue

\* dispatchUnary and the read of one event of a subscription: the value at the
\* server's field name, whatever the alias.
DispatchUnary(schema, q, remoteName) ==
    LET resp == Served(schema, q)
    IN  IF resp.errors THEN Rejected ELSE Member(resp.data, remoteName)

\* DispatchAppend: the same bytes with this gateway's type names.
DispatchAppend(m, schema, q, remoteName) ==
    PrefixResponseTypenames(m, DispatchUnary(schema, ForwardedQuery(m, q, remoteName), remoteName))

\* The group dispatcher reads by alias.
GroupAppend(m, schema, q, groupName) ==
    LET fwd == ForwardedQuery(m, q, groupName)
    IN  PrefixResponseTypenames(m, DispatchUnary(schema, fwd, ResponseKey(fwd.field)))

--------------------------------------------------------------------------
(* Completing the events of a subscription by the local schema             *)

\* unionFor's ResolveType: by __typename, else the first variant whose required
\* fields are all there.
RequiredFields(t) == {f.name : f \in {g \in ToSet(t.fields) : g.type.k = "nonnull"}}
ResolveType(m, types, u, obj) ==
    LET Told(w)   == Typename \in DOMAIN obj /\ obj[Typename].v \in {w, UnprefixTypeName(m, w)}
        Likely(w) == \A t \in TypesNamed(types, w) : RequiredFields(t) \subseteq DOMAIN obj
    IN  SelectSeq(u.variants, Told) \o SelectSeq(u.variants, Likely)

\* What the executor makes of an event by the local types: it reads the fields by
\* their names and says __typename itself.
RECURSIVE Completed(_, _, _, _, _), CompletedObject(_, _, _, _, _)
Completed(m, types, ref, v, f) ==
    CASE ref.k = "nonnull" -> Completed(m, types, ref.of, v, f)
      [] ref.k = "list" /\ v.t = "array" ->
            Val("array", [i \in DOMAIN v.v |-> Completed(m, types, ref.of, v.v[i], f)])
      [] ref.k = "name" /\ Composite(types, ref.name) /\ v.t = "object" ->
            CompletedObject(m, types, CHOOSE t \in TypesNamed(types, ref.name) : TRUE, v.v, f.sub)
      [] OTHER -> v
CompletedObject(m, types, t, obj, sel) ==
    IF t.kind = "union"
    THEN LET as == ResolveType(m, types, t, obj)
         IN  IF as = <<>> THEN NullValue
             ELSE CompletedObject(m, types, CHOOSE w \in TypesNamed(types, as[1]) : TRUE, obj, sel)
    ELSE LET fs == CollectFields(types, t.name, sel)
             Value(f) == IF f.name = Typename THEN StringOf(t.name)
                         ELSE Completed(m, types, FieldOf(t, f.name).type, Member(obj, f.name), f)
         IN  Val("object", [k \in {ResponseKey(fs[i]) : i \in DOMAIN fs} |->
                               Value(CHOOSE f \in ToSet(fs) : ResponseKey(f) = k)])

\* dispatchSubscribe and the field's Resolve.
SubscriptionEvent(m, schema, q, remoteName, types, ref) ==
    Completed(m, types, ref, DispatchUnary(schema, ForwardedQuery(m, q, remoteName), remoteName), q.field)
===========================================================================
