---------------------------- MODULE ProtoSchema ---------------------------
(***************************************************************************)
(* RenderProtoFiles and IngestProto (gw/ir): the file descriptor a service *)
(* of another format gets so that gRPC clients can call it, and the        *)
(* representation a proto service is read into.                            *)
(*                                                                         *)
(* A full name is <<"pkg", ".", "Outer", ".", "Inner">>.  A message has    *)
(* its fields, its nested messages, and says whether it is a map entry.    *)
(***************************************************************************)
EXTENDS SchemaIR

ProtoField(name, number, label, kind, type) ==
    [name |-> name, number |-> number, label |-> label, kind |-> kind, type |-> type,
     oneof |-> FALSE, upload |-> FALSE]
Message(name, fields, nested) ==
    [name |-> name, fields |-> fields, nested |-> nested, mapEntry |-> FALSE]

--------------------------------------------------------------------------
(* Names                                                                   *)

\* What follows the last dot.
LocalName(name) ==
    LET dots == {i \in DOMAIN name : name[i] = "."}
    IN  IF dots = {} THEN name ELSE SubSeq(name, Max(dots) + 1, Len(name))

NoLetter == {"-", ".", "/", "{", "}"}
ValidIdentifier(name) == name # <<>> /\ ToSet(name) \cap NoLetter = {}
Sanitize(name) == [i \in DOMAIN name |-> IF name[i] \in NoLetter THEN "_" ELSE name[i]]

\* UpperCamelCase of a field name: underscores go.
Camel(name) == SelectSeq(name, LAMBDA w : w # "_")

QualifyTop(name, pkg) ==
    IF IsPrefix(pkg \o <<".">>, name) THEN name ELSE pkg \o <<".">> \o name
QualifyLocal(name, parent) == IF parent = <<>> THEN name ELSE parent \o <<".">> \o name
QualifyNested(name, pkg, parent) == QualifyTop(QualifyLocal(name, parent), pkg)

\* uniqueSynthName: a wrapper's name keeps clear of the service's own types.
UniqueSynthName(types, base) ==
    LET wrap(i) == base \o <<"_", "Wrap">> \o (IF i = 0 THEN <<>> ELSE <<ToString(i)>>)
        free    == CHOOSE i \in 0..Cardinality(DOMAIN types) :
                      wrap(i) \notin DOMAIN types /\ \A j \in 0..(i - 1) : wrap(j) \in DOMAIN types
    IN  IF base \notin DOMAIN types THEN base ELSE wrap(free)

--------------------------------------------------------------------------
(* Fields                                                                  *)

ProtoScalar(scalar) ==
    CASE scalar \in {"string", "timestamp", "id", "upload"} -> "string"
      [] OTHER -> scalar

MapKeys == {"string", "int32", "int64", "uint32", "uint64", "bool"}

RECURSIVE RenderField(_, _, _, _)

BoxOf(name, r) == Message(name, <<r.field>>, r.nested)

\* The box for an inner list or map: a message with the one field "value".
Box(name, ref, repeated, pkg, parent) ==
    BoxOf(name, RenderField([Field(<<"value">>, ref, FALSE) EXCEPT !.repeated = repeated],
                            1, pkg, QualifyLocal(name, parent)))

MapKey(key) ==
    IF key.k = "builtin" /\ ProtoScalar(key.scalar) \in MapKeys THEN ProtoScalar(key.scalar) ELSE "string"

\* The entry message of map field f, and what is hosted beside it.
Entry(f, kind, type, hosted) ==
    << [Message(Camel(f.name) \o <<"Entry">>,
                <<ProtoField(<<"key">>, 1, "optional", MapKey(f.type.key), <<>>),
                  ProtoField(<<"value">>, 2, "optional", kind, type)>>, <<>>) EXCEPT !.mapEntry = TRUE] >>
        \o hosted
BoxedEntry(f, box, pkg, parent) == Entry(f, "message", QualifyNested(box.name, pkg, parent), <<box>>)

\* renderProtoMapEntry: a map or a list as the value of a map is boxed, and the
\* box is hosted beside the entry.
MapEntry(f, val, pkg, parent) ==
    CASE val.k = "map"  -> BoxedEntry(f, Box(Camel(f.name) \o <<"Value">>, val, FALSE, pkg, parent), pkg, parent)
      [] val.k = "list" -> BoxedEntry(f, Box(Camel(f.name) \o <<"Row">>, val.elem, TRUE, pkg, parent), pkg, parent)
      [] val.k = "named"   -> Entry(f, "message", QualifyTop(val.name, pkg), <<>>)
      [] val.k = "builtin" -> Entry(f, ProtoScalar(val.scalar), <<>>, <<>>)
      [] OTHER -> Entry(f, "string", <<>>, <<>>)

Rendered(f, default, label, kind, type, nested) ==
    [field |-> ProtoField(f.name, IF f.number # 0 THEN f.number ELSE default, label, kind, type),
     nested |-> nested]
Hosted(f, default, nested, pkg, parent) ==
    Rendered(f, default, "repeated", "message", QualifyNested(nested[1].name, pkg, parent), nested)
Label(f) == IF f.repeated THEN "repeated" ELSE "optional"

\* renderProtoField: the field and the messages its parent has to host.
RenderField(f, default, pkg, parent) ==
    CASE f.type.k = "builtin" -> Rendered(f, default, Label(f), ProtoScalar(f.type.scalar), <<>>, <<>>)
      [] f.type.k = "named"   -> Rendered(f, default, Label(f), "message", QualifyTop(f.type.name, pkg), <<>>)
      [] f.type.k = "list"    ->
            Hosted(f, default, <<Box(Camel(f.name) \o <<"Row">>, f.type.elem, TRUE, pkg, parent)>>, pkg, parent)
      [] f.type.k = "map"     -> Hosted(f, default, MapEntry(f, f.type.val, pkg, parent), pkg, parent)
      [] OTHER -> Rendered(f, default, Label(f), "string", <<>>, <<>>)

MessageOf(name, made) ==
    Message(name, [i \in DOMAIN made |-> made[i].field], FlattenSeq([i \in DOMAIN made |-> made[i].nested]))
RenderAll(name, slots, pkg) == [i \in DOMAIN slots |-> RenderField(slots[i], i, pkg, name)]

\* A message with a field per slot whose name proto can spell; the others are
\* dropped and take no number.
RenderSlots(name, slots, pkg) ==
    MessageOf(name, RenderAll(name, SelectSeq(slots, LAMBDA f : ValidIdentifier(f.name)), pkg))

--------------------------------------------------------------------------
(* Types and methods                                                       *)

RenderMessage(name, t, pkg) == RenderSlots(Sanitize(LocalName(name)), t.fields, pkg)

\* renderProtoUnion: one oneof member per object variant, named apart.
MemberName(objects, i) ==
    LET base(j) == Sanitize(LocalName(objects[j]))
        same    == Cardinality({j \in 1..(i - 1) : base(j) = base(i)})
    IN  IF same = 0 THEN base(i) ELSE base(i) \o <<"_", ToString(same + 1)>>
Members(objects, pkg) ==
    [i \in DOMAIN objects |-> [ProtoField(MemberName(objects, i), i, "optional", "message",
                                          QualifyTop(objects[i], pkg)) EXCEPT !.oneof = TRUE]]
RenderUnion(types, name, t, pkg) ==
    Message(Sanitize(LocalName(name)),
            Members(SelectSeq(t.variants, LAMBDA v : v \in DOMAIN types /\ types[v].kind \in {"object", "input"}),
                    pkg), <<>>)

\* An enum value carries its enum's name: proto scopes values to the package.
RenderEnum(name, t) ==
    [name |-> LocalName(name),
     values |-> [i \in DOMAIN t.enum |-> LocalName(name) \o <<"_", t.enum[i]>>]]

\* An argument or an output as a field: only its type and its list are rendered.
BareSlot(name, slot) == [Field(name, slot.type, FALSE) EXCEPT !.repeated = slot.repeated]

\* A single named message is returned as it is; anything else is wrapped.
ReturnsBare(types, op) ==
    /\ op.out # <<>> /\ ~ op.out[1].repeated /\ op.out[1].type.k = "named"
    /\ op.out[1].type.name \in DOMAIN types
    /\ types[op.out[1].type.name].kind \in {"object", "input", "union"}

MethodOf(op, bare, req, resp, pkg) ==
    [messages |-> FlattenSeq(<< <<RenderSlots(req, [i \in DOMAIN op.args |-> BareSlot(op.args[i].name, op.args[i])], pkg)>>,
                                IF bare THEN <<>>
                                ELSE <<RenderSlots(resp, [i \in DOMAIN op.out |-> BareSlot(<<"value">>, op.out[i])], pkg)>> >>),
     method |-> [name |-> op.name, in |-> pkg \o <<".">> \o req,
                 out |-> pkg \o <<".">> \o (IF bare THEN Sanitize(LocalName(op.out[1].type.name)) ELSE resp),
                 client |-> op.streamingClient, server |-> op.kind = "subscription"]]

\* The request and response messages of one operation and its method.
RenderMethod(types, op, pkg) ==
    MethodOf(op, ReturnsBare(types, op), UniqueSynthName(types, Sanitize(op.name) \o <<"Request">>),
             UniqueSynthName(types, Sanitize(op.name) \o <<"Response">>), pkg)

\* fixupEnumFields: a field first taken for a message may name an enum.
RECURSIVE FixEnums(_, _)
FixEnums(m, enums) ==
    [m EXCEPT !.fields = [i \in DOMAIN @ |->
                  IF @[i].kind = "message" /\ @[i].type \in enums THEN [@[i] EXCEPT !.kind = "enum"] ELSE @[i]],
              !.nested = [i \in DOMAIN @ |-> FixEnums(@[i], enums)]]

\* The names of the types of some kinds, in an order of their own.
NamesOf(types, kinds) ==
    FoldSet(LAMBDA n, s : Append(s, n), <<>>, {n \in DOMAIN types : types[n].kind \in kinds})

RenderTypes(types, names, pkg) ==
    [i \in DOMAIN names |-> IF types[names[i]].kind = "union"
                            THEN RenderUnion(types, names[i], types[names[i]], pkg)
                            ELSE RenderMessage(names[i], types[names[i]], pkg)]
RenderMethods(types, ops, pkg) == [i \in DOMAIN ops |-> RenderMethod(types, ops[i], pkg)]
RenderEnums(types, names) == [i \in DOMAIN names |-> RenderEnum(names[i], types[names[i]])]

FileOf(pkg, msgs, meths, enums) ==
    [pkg |-> pkg,
     messages |-> LET all == msgs \o FlattenSeq([i \in DOMAIN meths |-> meths[i].messages])
                  IN  [i \in DOMAIN all |->
                          FixEnums(all[i], {pkg \o <<".">> \o enums[j].name : j \in DOMAIN enums})],
     enums |-> enums, methods |-> [i \in DOMAIN meths |-> meths[i].method]]

\* renderProtoService, for a service of another format.
RenderProto(svc, pkg) ==
    FileOf(pkg, RenderTypes(svc.types, NamesOf(svc.types, {"object", "input"}) \o NamesOf(svc.types, {"union"}), pkg),
           RenderMethods(svc.types, FlatOperations(svc), pkg),
           RenderEnums(svc.types, NamesOf(svc.types, {"enum"})))

--------------------------------------------------------------------------
(* Reading a file descriptor                                               *)

\* Every message of a file under its full name, nested ones included.
RECURSIVE AllMessages(_, _)
AllMessages(msgs, scope) ==
    UNION {{<<scope \o <<".">> \o msgs[i].name, msgs[i]>>}
               \cup AllMessages(msgs[i].nested, scope \o <<".">> \o msgs[i].name) : i \in DOMAIN msgs}

\* "all" is AllMessages of the file.
MessageAt(all, full) == (CHOOSE p \in all : p[1] = full)[2]
IsMapField(all, f) ==
    /\ f.kind = "message" /\ f.label = "repeated"
    /\ \E p \in all : p[1] = f.type /\ p[2].mapEntry

FieldRef(f) ==
    CASE f.kind \in {"message", "enum"} -> NamedRef(f.type)
      [] f.kind = "bytes" /\ f.upload -> Builtin("upload")
      [] OTHER -> Builtin(f.kind)

\* ingestProtoField: a list element is never null; presence is not required.
MapSlot(f, entry) ==
    [Field(f.name, MapRef(FieldRef(entry[1]), FieldRef(entry[2])), FALSE) EXCEPT !.number = f.number]
IngestField(all, f) ==
    IF IsMapField(all, f) THEN MapSlot(f, MessageAt(all, f.type).fields)
    ELSE [Field(f.name, FieldRef(f), FALSE) EXCEPT
              !.number = f.number, !.repeated = f.label = "repeated", !.itemRequired = f.label = "repeated"]
IngestFields(all, m) == [i \in DOMAIN m.fields |-> IngestField(all, m.fields[i])]

\* An argument of a method is a field of its request, without the number.
Unnumbered(fields) == [i \in DOMAIN fields |-> [fields[i] EXCEPT !.number = 0]]
IngestMethod(all, m) ==
    [Operation(m.name, IF m.server THEN "subscription" ELSE "query",
               Unnumbered(IngestFields(all, MessageAt(all, m.in))),
               <<Field(<<>>, NamedRef(m.out), FALSE)>>) EXCEPT !.streamingClient = m.client]

IngestAll(file, all) ==
    Service([i \in DOMAIN file.methods |-> IngestMethod(all, file.methods[i])], <<>>,
            [n \in {p[1] : p \in all} |-> ObjectType(IngestFields(all, MessageAt(all, n)))]
                @@ [n \in {file.pkg \o <<".">> \o file.enums[i].name : i \in DOMAIN file.enums} |->
                       EnumType((CHOOSE e \in ToSet(file.enums) : file.pkg \o <<".">> \o e.name = n).values)],
            "proto")

IngestProto(file) == IngestAll(file, AllMessages(file.messages, file.pkg))
===========================================================================
