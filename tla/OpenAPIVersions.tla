-------------------------- MODULE OpenAPIVersions -------------------------
(***************************************************************************)
(* RenderOpenAPIWith (gw/ir): a 3.1 document written as 3.0, with what 3.0 *)
(* cannot say kept in the extension x-gwag-oas31, and a 3.0 document       *)
(* written as 3.1, with what the extension holds put back.                 *)
(*                                                                         *)
(* Numeric bounds are records [num |-> x], the boolean ones of 3.0 are     *)
(* [flag |-> b].  "oas31" is the extension of a schema, a function from    *)
(* the keywords moved there.  Pointers are sequences of steps.             *)
(***************************************************************************)
EXTENDS OpenAPISchema, Integers

Schemas30 == {"ref", "type", "nullable", "format", "enum", "oneOf", "anyOf", "allOf", "not",
              "items", "props", "required", "addl", "min", "exMin"}
Extensions == {"scalar", "oas31"}

\* Move a keyword into the extension of its schema.
Keep(s, keyword) ==
    IF ~ Has(s, keyword) THEN s
    ELSE With(Without(s, {keyword, "oas31"}), "oas31",
              With(At(s, "oas31", <<>>), keyword, s[keyword]))

RECURSIVE KeepAll(_, _)
KeepAll(s, keywords) ==
    IF keywords = {} THEN s
    ELSE LET k == CHOOSE k \in keywords : TRUE IN KeepAll(Keep(s, k), keywords \ {k})

\* filter: what 3.0 has no keyword for moves out.
Filter30(s) == KeepAll(s, DOMAIN s \ (Schemas30 \cup Extensions))

--------------------------------------------------------------------------
(* The steps of one schema's conversion down                               *)

\* refSiblings: a $ref with siblings becomes allOf with the siblings beside it.
RefSiblings(s) ==
    IF ~ Has(s, "ref") \/ DOMAIN s \subseteq {"ref"} \cup Extensions THEN s
    ELSE With(Without(s, {"ref", "allOf"}), "allOf",
              <<[ref |-> s.ref]>> \o At(s, "allOf", <<>>))

\* typeList: null becomes nullable, several other types an anyOf.
TypeBranches(types, items) ==
    [i \in DOMAIN types |-> IF types[i] = "array" THEN [type |-> <<"array">>, items |-> items]
                            ELSE [type |-> <<types[i]>>]]
OrOnlyNull(s) == IF Has(s, "enum") THEN s ELSE With(s, "enum", <<"null">>)
AnyOfTypes(s, branches) ==
    IF Has(s, "anyOf") THEN With(s, "allOf", Append(At(s, "allOf", <<>>), [anyOf |-> branches]))
    ELSE With(s, "anyOf", branches)

\* s without its types, "types" those that are not null.
Retyped(s, types, items) ==
    CASE types = <<>> -> OrOnlyNull(s)
      [] Len(types) = 1 -> With(s, "type", types)
      [] OTHER -> AnyOfTypes(IF "array" \in ToSet(types) THEN Without(s, {"items"}) ELSE s, TypeBranches(types, items))
NullableIf(s, null) == IF null THEN With(s, "nullable", TRUE) ELSE s

TypeList(s) ==
    IF At(s, "type", <<>>) = <<>> THEN s
    ELSE Retyped(NullableIf(Without(s, {"type"}), TypeHasNull(s)),
                 SelectSeq(s.type, LAMBDA t : t # "null"), At(s, "items", <<>>))

\* isNullSchema: null is the only value.
OnlyNull(s) ==
    /\ ~ Has(s, "ref")
    /\ DOMAIN s \ Extensions \subseteq {"type", "const", "enum"}
    /\ DOMAIN s \ Extensions # {}
    /\ Has(s, "type") => s.type = <<"null">>
    /\ Has(s, "const") => s.const = "null"
    /\ Has(s, "enum") => s.enum = <<"null">>

\* n without its branches under k: the rest stands there, or in allOf.
BranchesLeft(n, k, rest) ==
    CASE rest = <<>> -> OrOnlyNull(n)
      [] Len(rest) = 1 /\ ~ Has(n, "allOf") -> With(n, "allOf", rest)
      [] OTHER -> With(n, k, rest)

\* Mutation: the one branch left becomes the allOf, whatever was there.
BranchesOver(n, k, rest) ==
    CASE rest = <<>> -> OrOnlyNull(n)
      [] Len(rest) = 1 -> With(n, "allOf", rest)
      [] OTHER -> With(n, k, rest)

NullBranchesOver(s, k) ==
    IF \A i \in DOMAIN At(s, k, <<>>) : ~ OnlyNull(s[k][i]) THEN s
    ELSE BranchesOver(With(Without(s, {k}), "nullable", TRUE), k, SelectSeq(s[k], LAMBDA b : ~ OnlyNull(b)))

\* nullBranches, for one of oneOf and anyOf.
NullBranches(s, k) ==
    IF \A i \in DOMAIN At(s, k, <<>>) : ~ OnlyNull(s[k][i]) THEN s
    ELSE BranchesLeft(With(Without(s, {k}), "nullable", TRUE), k, SelectSeq(s[k], LAMBDA b : ~ OnlyNull(b)))

ConstToEnum(s) ==
    IF ~ Has(s, "const") \/ Has(s, "enum") THEN s
    ELSE NullableIf(With(Without(s, {"const"}), "enum", <<s.const>>), s.const = "null")

\* exclusive30, for the lower bound: the stricter bound is the one written.
Exclusive30(s) ==
    IF ~ Has(s, "exMin") \/ ~ Has(s.exMin, "num") THEN s
    ELSE IF Has(s, "min") /\ s.min.num > s.exMin.num THEN Keep(s, "exMin")
    ELSE With(With(s, "min", s.exMin), "exMin", [flag |-> TRUE])

ContentFormat(s) ==
    CASE ~ Has(s, "format") /\ At(s, "encoding", "") = "base64" -> With(s, "format", "byte")
      [] ~ Has(s, "format") /\ ~ Has(s, "encoding") /\ At(s, "mediaType", "") = "binary" ->
            With(s, "format", "binary")
      [] OTHER -> s

\* With prefixItems, items means the items after them: both move out.
PrefixItems(s) ==
    IF Has(s, "prefixItems") THEN With(Keep(s, "items"), "items", <<>>) ELSE s

ArrayItems(s) ==
    IF At(s, "type", <<>>) = <<"array">> /\ ~ Has(s, "items") THEN With(s, "items", <<>>) ELSE s

OwnKeywords30(s) ==
    ArrayItems(Filter30(PrefixItems(ContentFormat(Exclusive30(ConstToEnum(
        NullBranches(NullBranches(TypeList(RefSiblings(s)), "oneOf"), "anyOf")))))))

--------------------------------------------------------------------------
(* A schema and its sub-schemas.  "st" holds the component names in use,   *)
(* where each $defs entry went and the entries still to be added.          *)

\* The component name of definition k of the schema at ptr.
DefName(names, ptr, k) ==
    LET parent   == IF Len(ptr) = 2 /\ ptr[1] = "schemas" THEN ptr[2] ELSE <<"Def">>
        named(i) == parent \o <<"_">> \o k \o (IF i = 1 THEN <<>> ELSE <<ToString(i)>>)
    IN  IF k \notin names THEN k
        ELSE named(CHOOSE i \in 1..(Cardinality(names) + 1) :
                      /\ named(i) \notin names
                      /\ \A j \in 1..(i - 1) : named(j) \in names)

Hoisted(st, name, key, schema) ==
    [names   |-> st.names \cup {name},
     defs    |-> With(st.defs, key, <<"schemas", name>>),
     pending |-> Append(st.pending, <<name, schema>>)]

RECURSIVE HoistDefs(_, _, _)
HoistDefs(st, defs, ptr) ==
    IF defs = <<>> THEN st
    ELSE HoistDefs(Hoisted(st, DefName(st.names, ptr, defs[1][1]), ptr \o <<"$defs", defs[1][1]>>, defs[1][2]),
                   Tail(defs), ptr)

\* The schemas under a keyword, and the schema with others in their places.
SubSchemas(s, k) ==
    CASE k \in {"allOf", "oneOf", "anyOf"} -> s[k]
      [] k = "props" -> [i \in DOMAIN s[k] |-> s[k][i][2]]
      [] OTHER -> <<s[k]>>
WithSubSchemas(s, k, list) ==
    CASE k \in {"allOf", "oneOf", "anyOf"} -> With(s, k, list)
      [] k = "props" -> With(s, k, [i \in DOMAIN list |-> <<s[k][i][1], list[i]>>])
      [] OTHER -> With(s, k, list[1])

Listed30(r, d) == [st |-> d.st, list |-> Append(r.list, d.s)]
PutBack(r, k, d) == [st |-> d.st, s |-> WithSubSchemas(r.s, k, d.list)]

RECURSIVE Down(_, _, _), DownList(_, _, _), DownKeys(_, _, _)
DownList(r, list, ptr) ==
    IF list = <<>> THEN r
    ELSE DownList(Listed30(r, Down(r.st, list[1], ptr)), Tail(list), ptr)

\* The sub-schemas under the keywords of "keys", in the order of the code.  Boolean
\* additionalProperties are in 3.0 already.
Converted(s, k) == Has(s, k) /\ (k = "addl" => ~ Has(s.addl, "bool"))
DownKeys(r, keys, ptr) ==
    CASE keys = <<>> -> r
      [] keys # <<>> /\ ~ Converted(r.s, keys[1]) -> DownKeys(r, Tail(keys), ptr)
      [] OTHER -> DownKeys(PutBack(r, keys[1], DownList([st |-> r.st, list |-> <<>>], SubSchemas(r.s, keys[1]),
                                                        ptr \o <<keys[1]>>)), Tail(keys), ptr)

\* Definitions are hoisted first; a bare $ref is left alone.
Down(st, s, ptr) ==
    CASE Has(s, "bool") -> [st |-> st, s |-> IF s.bool THEN <<>> ELSE [not |-> <<>>]]
      [] ~ Has(s, "bool") /\ Has(RefSiblings(Without(s, {"defs"})), "ref") ->
            [st |-> HoistDefs(st, At(s, "defs", <<>>), ptr), s |-> Without(s, {"defs"})]
      [] OTHER -> DownKeys([st |-> HoistDefs(st, At(s, "defs", <<>>), ptr), s |-> OwnKeywords30(Without(s, {"defs"}))],
                           <<"allOf", "oneOf", "anyOf", "not", "items", "props", "addl">>, ptr)

--------------------------------------------------------------------------
(* References into moved definitions                                       *)

\* newRef: follow the longest moved prefix until none is left.
RECURSIVE NewRef(_, _)
NewRef(defs, ref) ==
    LET moved == {p \in DOMAIN defs : IsPrefix(p, ref)}
        best  == CHOOSE p \in moved : \A q \in moved : Len(q) <= Len(p)
    IN  IF moved = {} THEN ref
        ELSE NewRef(defs, defs[best] \o SubSeq(ref, Len(best) + 1, Len(ref)))

\* Apply Op to every schema directly below s, the extension's included.
Below(s, Op(_)) ==
    [k \in DOMAIN s |->
        CASE k \in {"allOf", "oneOf", "anyOf", "prefixItems"} -> [i \in DOMAIN s[k] |-> Op(s[k][i])]
          [] k = "props" -> [i \in DOMAIN s[k] |-> <<s[k][i][1], Op(s[k][i][2])>>]
          [] k \in {"items", "not", "addl", "oas31", "contentSchema"} -> Op(s[k])
          [] OTHER -> s[k]]

Redirected(defs, s) == IF Has(s, "ref") THEN With(s, "ref", NewRef(defs, s.ref)) ELSE s

RECURSIVE RewriteRefs(_, _)
RewriteRefs(defs, s) == Redirected(defs, Below(s, LAMBDA t : RewriteRefs(defs, t)))

--------------------------------------------------------------------------
(* The document down                                                       *)

\* security: requirements that need mutual TLS go; an operation left with none
\* says so, the document drops the keyword.  The list itself is kept.
SecurityDown(list, mtls, isOp) ==
    LET rest == SelectSeq(list[1], LAMBDA r : r \cap mtls = {})
    IN  CASE list = <<>> \/ mtls = {} -> [security |-> list, kept |-> <<>>]
          [] list # <<>> /\ mtls # {} /\ Len(rest) = Len(list[1]) -> [security |-> list, kept |-> <<>>]
          [] OTHER -> [security |-> IF rest = <<>> /\ ~ isOp THEN <<>> ELSE <<rest>>, kept |-> list]

\* The schemas of an operation in document order, and the operation with
\* others in their places.
ParamSchemas(op) == [i \in DOMAIN op.params |-> op.params[i].schema]
BodySchemas(op)  == IF op.body = <<>> THEN <<>> ELSE op.body[1].json \o op.body[1].form
OpSchemas(op)    == ParamSchemas(op) \o BodySchemas(op) \o JSONResponses(op)

WithSchemas(op, list) ==
    LET np    == Len(op.params)
        nj    == IF op.body = <<>> THEN 0 ELSE Len(op.body[1].json)
        nb    == Len(BodySchemas(op))
        before(c) == {d \in DOMAIN op.responses : d # c /\ op.responses[d].json # <<>>
                                                 /\ \E i, j \in DOMAIN Codes : i < j /\ Codes[i] = d /\ Codes[j] = c}
    IN  [op EXCEPT
            !.params = [i \in DOMAIN @ |-> [@[i] EXCEPT !.schema = list[i]]],
            !.body = [i \in DOMAIN @ |-> [@[i] EXCEPT !.json = SubSeq(list, np + 1, np + nj),
                                                     !.form = SubSeq(list, np + nj + 1, np + nb)]],
            !.responses = [c \in DOMAIN @ |->
                [@[c] EXCEPT !.json = IF @ = <<>> THEN @
                                      ELSE <<list[np + nb + 1 + Cardinality(before(c))]>>]]]

\* "r" gathers the operations and components of the 3.0 document.
WithOp30(r, op, d) == [st |-> d.st, ops |-> Append(r.ops, WithSchemas(op, d.list)), schemas |-> r.schemas]
WithSchema30(r, name, d) == [st |-> d.st, ops |-> r.ops, schemas |-> Append(r.schemas, <<name, d.s>>)]

RECURSIVE DownOps(_, _), DownSchemas(_, _), DownPending(_)
DownOps(r, ops) ==
    IF ops = <<>> THEN r
    ELSE DownOps(WithOp30(r, ops[1], DownList([st |-> r.st, list |-> <<>>], OpSchemas(ops[1]), <<"op">>)), Tail(ops))

DownSchemas(r, schemas) ==
    IF schemas = <<>> THEN r
    ELSE DownSchemas(WithSchema30(r, schemas[1][1], Down(r.st, schemas[1][2], <<"schemas", schemas[1][1]>>)),
                     Tail(schemas))

\* Definitions found on the way become components; they may hold more.
DownPending(r) ==
    IF r.st.pending = <<>> THEN r
    ELSE DownPending(WithSchema30(r, r.st.pending[1][1],
             Down([r.st EXCEPT !.pending = Tail(@)], r.st.pending[1][2], <<"schemas", r.st.pending[1][1]>>)))

\* A 3.2 QUERY or custom operation and an itemSchema move to their extensions.
Without32(op) ==
    [op EXCEPT !.ext = @ \/ op.method \notin FixedMethods,
               !.responses = [c \in DOMAIN @ |->
                   IF @[c].item = <<>> THEN @[c]
                   ELSE [op.responses[c] EXCEPT !.item = <<>>, !.xitem = op.responses[c].item]]]

\* Apply Op to every schema of a document.
MapSchemas(doc, Op(_)) ==
    [doc EXCEPT
        !.ops = [i \in DOMAIN @ |->
                    WithSchemas(@[i], LET list == OpSchemas(@[i]) IN [j \in DOMAIN list |-> Op(list[j])])],
        !.schemas = [i \in DOMAIN @ |-> <<@[i][1], Op(@[i][2])>>]]

Secured30(x, r) == [x EXCEPT !.security = r.security, !.kept = r.kept]
Document30(doc, r) ==
    MapSchemas(Secured30([doc EXCEPT !.version = "3.0", !.schemas = r.schemas,
                              !.ops = [i \in DOMAIN r.ops |->
                                  Secured30(r.ops[i], SecurityDown(r.ops[i].security, doc.mtls, TRUE))]],
                         SecurityDown(doc.security, doc.mtls, FALSE)),
               LAMBDA s : RewriteRefs(r.st.defs, s))

\* downcastOpenAPI with target 3.0: the operations' schemas, then the components'.
To30(doc) ==
    IF doc.version = "3.0" THEN doc
    ELSE Document30(doc, DownPending(DownSchemas(DownOps(
             [st |-> [names |-> {doc.schemas[i][1] : i \in DOMAIN doc.schemas}, defs |-> <<>>, pending |-> <<>>],
              ops |-> <<>>, schemas |-> <<>>],
             IF doc.version = "3.2" THEN [i \in DOMAIN doc.ops |-> Without32(doc.ops[i])] ELSE doc.ops), doc.schemas)))

--------------------------------------------------------------------------
(* The document up                                                         *)

\* restoreOAS31: a kept keyword replaces the 3.0 one that stood in for it;
\* schemas merge.
RECURSIVE Restore(_)
Restore(s) ==
    LET bag  == At(s, "oas31", <<>>)
        back == [k \in DOMAIN bag |->
                    IF k = "items" /\ Has(s, "items") THEN bag.items @@ s.items ELSE bag[k]]
    IN  Below(back @@ Without(s, {"oas31"}), Restore)

NullSchema == [type |-> <<"null">>]

\* nullable, in the forms 3.1 has for it.
Nullable31(s) ==
    LET n == Without(s, {"nullable"})
    IN  CASE ~ At(s, "nullable", FALSE) -> n
          [] At(s, "nullable", FALSE) /\ Has(s, "type") ->
                LET t == IF TypeHasNull(n) THEN n ELSE With(n, "type", Append(n.type, "null"))
                IN  IF At(n, "enum", <<>>) # <<>> /\ "null" \notin ToSet(n.enum)
                    THEN With(t, "enum", Append(n.enum, "null")) ELSE t
          [] OTHER ->
             CASE At(s, "oneOf", <<>>) # <<>> -> With(n, "oneOf", Append(n.oneOf, NullSchema))
               [] At(s, "oneOf", <<>>) = <<>> /\ At(s, "anyOf", <<>>) # <<>> ->
                     With(n, "anyOf", Append(n.anyOf, NullSchema))
               [] At(s, "oneOf", <<>>) \o At(s, "anyOf", <<>>) = <<>> /\ Len(At(s, "allOf", <<>>)) = 1 ->
                     With(Without(n, {"allOf"}), "oneOf", <<n.allOf[1], NullSchema>>)
               [] At(s, "oneOf", <<>>) \o At(s, "anyOf", <<>>) = <<>> /\ Len(At(s, "allOf", <<>>)) > 1 ->
                     With(Without(n, {"allOf"}), "oneOf", <<[allOf |-> n.allOf], NullSchema>>)
               [] OTHER -> n

Exclusive31(s) ==
    CASE ~ Has(s, "exMin") -> s
      [] Has(s, "exMin") /\ ~ Has(s.exMin, "flag") -> s
      [] OTHER -> IF ~ s.exMin.flag \/ ~ Has(s, "min") THEN Without(s, {"exMin"})
                  ELSE With(Without(s, {"min"}), "exMin", s.min)

\* schemaTo31: a $ref is left alone.
RECURSIVE Up(_)
Up(s) == IF Has(s, "ref") \/ Has(s, "bool") THEN s
         ELSE Below(Exclusive31(Nullable31(s)), Up)

Secured31(op) == [op EXCEPT !.security = IF op.kept # <<>> THEN op.kept ELSE @, !.kept = <<>>]
Document31(back, up) ==
    [up EXCEPT !.version = "3.1",
               !.security = IF up.kept # <<>> THEN up.kept ELSE @, !.kept = <<>>,
               !.ops = [i \in DOMAIN @ |-> Secured31(IF back.ops[i].ext THEN back.ops[i] ELSE @[i])]]
Upgraded(back) == Document31(back, MapSchemas(back, Up))

\* toOpenAPI31.  Operations in the extension are no schemas to the walk.
To31(doc) ==
    Upgraded(MapSchemas(IF doc.version # "3.2" THEN doc
                        ELSE [doc EXCEPT !.ops = [i \in DOMAIN @ |-> Without32(@[i])]], Restore))

--------------------------------------------------------------------------
(* What a 3.1 schema accepts: the JSON Schema rules the conversions have   *)
(* to respect, as a reference.                                             *)

SchemaAt(schemas, ref) ==
    LET c == schemas[CHOOSE i \in DOMAIN schemas : schemas[i][1] = ref[2]][2]
        d == CHOOSE i \in DOMAIN c.defs : c.defs[i][1] = ref[4]
    IN  IF Len(ref) = 2 THEN c ELSE c.defs[d][2]

RECURSIVE Accepts(_, _, _)
Accepts(schemas, s, v) ==
    /\ Has(s, "bool") => s.bool
    /\ Has(s, "ref") => Accepts(schemas, SchemaAt(schemas, s.ref), v)
    /\ At(s, "type", <<>>) # <<>> => v.t \in ToSet(s.type)
    /\ Has(s, "enum") => v.t \in {"string", "null"} /\ v.v \in ToSet(s.enum)
    /\ Has(s, "const") => v.t \in {"string", "null"} /\ v.v = s.const
    /\ At(s, "oneOf", <<>>) # <<>> =>
            Cardinality({i \in DOMAIN s.oneOf : Accepts(schemas, s.oneOf[i], v)}) = 1
    /\ At(s, "anyOf", <<>>) # <<>> => \E i \in DOMAIN s.anyOf : Accepts(schemas, s.anyOf[i], v)
    /\ \A i \in DOMAIN At(s, "allOf", <<>>) : Accepts(schemas, s.allOf[i], v)
    /\ Has(s, "not") => ~ Accepts(schemas, s.not, v)
    /\ v.t = "integer" => /\ Has(s, "min") => v.v >= s.min.num
                          /\ Has(s, "exMin") => v.v > s.exMin.num
    /\ v.t = "array" => \A i \in DOMAIN v.v :
            LET pre == At(s, "prefixItems", <<>>)
            IN  IF i <= Len(pre) THEN Accepts(schemas, pre[i], v.v[i])
                ELSE Has(s, "items") => Accepts(schemas, s.items, v.v[i])
    /\ v.t = "object" =>
            LET props == At(s, "props", <<>>)
                listed == {props[i][1] : i \in DOMAIN props}
            IN  /\ At(s, "required", {}) \subseteq DOMAIN v.v
                /\ \A i \in DOMAIN props :
                       props[i][1] \in DOMAIN v.v => Accepts(schemas, props[i][2], v.v[props[i][1]])
                /\ \A n \in DOMAIN v.v \ listed :
                       Has(s, "addl") => Accepts(schemas, s.addl, v.v[n])
===========================================================================
