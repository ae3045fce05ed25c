--------------------------- MODULE ConnectCodec ---------------------------
(***************************************************************************)
(* The Connect/gRPC ingress of the embedded gateway (gw/gat/connect_*.go): *)
(* how the bytes of a request become the handler's input and the handler's *)
(* output becomes the bytes of the response. Each direction has a slow     *)
(* path and faster ones planned when an operation is mounted:              *)
(*                                                                         *)
(*   bytes -> input    decodePlan                        (connect_decode)  *)
(*   bytes -> message -> input       bindPlan            (connect_bind)    *)
(*   bytes -> message -> args -> input    bindInput      (dispatch_inproc) *)
(*   output -> bytes   appendMessage                     (connect_wire)    *)
(*   output -> message               encodePlan          (connect_encode)  *)
(*   output -> JSON -> message       jsonToDynamic       (grpc_ingress)    *)
(*                                                                         *)
(* A plan may only form where it does what the path below it does.         *)
(*                                                                         *)
(* A name is <<case, base>>: <<"U", "p">> is P, <<"l", "p">> is p. Integers*)
(* are scaled down: 2, 3 and 4 bits stand for 8, 32 and 64. The bytes of a *)
(* request are a sequence of records: a field number, a wire type and what *)
(* follows; "bad" is a record that cannot be parsed.                       *)
(***************************************************************************)
EXTENDS Integers, Sequences, FiniteSets, SequencesExt, FiniteSetsExt, TLC

CONSTANTS Messages,         \* the proto messages, by name
          Methods,          \* the operations mounted: their types and messages
          RecursionLimit,   \* how deep a request may nest messages
          MaxPlanDepth,     \* how deep a plan descends
          MaxFieldNumber,   \* the largest number the decoder's table holds
          MaxRecords,       \* bound: records in a request
          MaxAnswered       \* bound: records in a request that is answered

VARIABLES mounted, wire, callStage, got, reply, answered

codecVars == <<mounted, wire, callStage, got, reply, answered>>

-----------------------------------------------------------------------------
(* Go types and values. A pointer is a sequence of at most one value, a    *)
(* slice says whether it is nil, a struct is the sequence of its fields.   *)

Narrow == 2
Half == 3
Full == 4

\* The floats told apart, beside 0 and 1: minus zero, a double too large for
\* a float, and infinity.
NegZero == 100
Huge == 101
Inf == 102

Result(v) == [ok |-> TRUE, v |-> v]
Failed == [ok |-> FALSE, v |-> <<>>]
Same(a, b) == a.ok = b.ok /\ (a.ok => a.v = b.v)
Collect(results) ==
    IF \A i \in DOMAIN results : results[i].ok
    THEN Result([i \in DOMAIN results |-> results[i].v])
    ELSE Failed

Exported(f) == f.name[1] = "U"
Lower(name) == <<"l", name[2]>>
hasCustomUnmarshaler(t) == "custom" \in DOMAIN t
hasCustomMarshaler(t) == "custom" \in DOMAIN t
IsBytes(t) == t.k = "slice" /\ t.elem.k = "uint" /\ t.elem.bits = Narrow
Slice(items) == [nil |-> FALSE, v |-> items]

RECURSIVE derefType(_)
derefType(t) == IF t.k = "ptr" THEN derefType(t.elem) ELSE t

RECURSIVE GoZero(_)
GoZero(t) ==
    CASE t.k = "bool" -> FALSE
      [] t.k \in {"int", "uint", "float"} -> 0
      [] t.k \in {"string", "ptr"} -> <<>>
      [] t.k = "slice" -> [nil |-> TRUE, v |-> <<>>]
      [] OTHER -> [i \in DOMAIN t.fields |-> GoZero(t.fields[i].type)]

\* The leaf behind the pointers of v, allocating the nil ones.
RECURSIVE allocDeref(_, _)
allocDeref(t, v) ==
    IF t.k = "ptr" THEN allocDeref(t.elem, IF v = <<>> THEN GoZero(t.elem) ELSE v[1]) ELSE v

RECURSIVE Pointed(_, _)
Pointed(t, leaf) == IF t.k = "ptr" THEN <<Pointed(t.elem, leaf)>> ELSE leaf

fieldTypeAt(t, path) ==
    FoldLeft(LAMBDA cur, i : derefType(cur).fields[i].type, t, path)

RECURSIVE fieldByPath(_, _, _)
fieldByPath(t, v, path) ==
    IF path = <<>> THEN v
    ELSE fieldByPath(derefType(t).fields[Head(path)].type, allocDeref(t, v)[Head(path)], Tail(path))

RECURSIVE SetByPath(_, _, _, _)
SetByPath(t, v, path, leaf) ==
    IF path = <<>> THEN leaf
    ELSE LET i == Head(path)
             s == allocDeref(t, v)
         IN Pointed(t, [s EXCEPT ![i] = SetByPath(derefType(t).fields[i].type, s[i], Tail(path), leaf)])

Signed(n, bits) == LET m == n % 2^bits IN IF m >= 2^(bits - 1) THEN m - 2^bits ELSE m

Overflows(t, x) ==
    CASE t.k = "int"   -> x \notin -(2^(t.bits - 1)) .. 2^(t.bits - 1) - 1
      [] t.k = "uint"  -> x \notin 0 .. 2^t.bits - 1
      [] t.k = "float" -> t.bits = Half /\ x = Huge
      [] OTHER -> FALSE

-----------------------------------------------------------------------------
(* Proto fields and, from how the code uses the protobuf library, what     *)
(* proto.Unmarshal makes of the bytes. A message is a function on the      *)
(* numbers of the fields that were set.                                    *)

Num(go, bits, wt) == [go |-> go, bits |-> bits, wt |-> wt]
Scalars ==
    [bool |-> Num("bool", Full, "varint"), enum |-> Num("none", Half, "varint"),
     int32 |-> Num("int", Half, "varint"), int64 |-> Num("int", Full, "varint"),
     sint32 |-> Num("int", Half, "varint"), sint64 |-> Num("int", Full, "varint"),
     uint32 |-> Num("uint", Half, "varint"), uint64 |-> Num("uint", Full, "varint"),
     sfixed32 |-> Num("int", Half, "f32"), fixed64 |-> Num("uint", Full, "f64"),
     float |-> Num("float", Half, "f32"), double |-> Num("float", Full, "f64"),
     string |-> Num("string", Full, "len"), bytes |-> Num("bytes", Full, "len")]

IsMessage(fd) == fd.kind = "message"
IsList(fd) == fd.label = "rep"
IsMap(fd) == fd.label = "map"
HasPresence(fd) == fd.label = "opt" \/ IsMessage(fd)
Fields(name) == Messages[name].fields
FieldsNumbered(name, num) == SelectSeq(Fields(name), LAMBDA fd : fd.num = num)

scalarWireType(fd) == IF IsMessage(fd) THEN "len" ELSE Scalars[fd.kind].wt
packable(fd) == IsList(fd) /\ scalarWireType(fd) # "len"

\* Malformed runs and invalid UTF-8 in what a record holds.
Torn(run) == \E i \in DOMAIN run : run[i] < 0
InvalidUTF8(chars) == \E i \in DOMAIN chars : chars[i] = "bad"

ZigZag(n) == IF n >= 0 THEN 2 * n ELSE -2 * n - 1
UnZigZag(raw) == IF raw % 2 = 0 THEN raw \div 2 ELSE -((raw + 1) \div 2)

\* What a number on the wire means for a field of the kind.
ProtoValue(kind, raw) ==
    LET s == Scalars[kind] IN
    CASE kind = "bool"   -> raw # 0
      [] kind \in {"sint32", "sint64"} -> UnZigZag(raw % 2^s.bits)
      [] s.go = "uint"   -> raw % 2^s.bits
      [] s.go = "float"  -> raw
      [] OTHER -> Signed(raw, s.bits)

ProtoZero(kind) ==
    CASE kind = "bool" -> FALSE
      [] kind \in {"string", "bytes"} -> <<>>
      [] OTHER -> 0

Has(m, fd) ==
    /\ fd.num \in DOMAIN m
    /\ CASE IsList(fd) \/ IsMap(fd) -> m[fd.num] # <<>>
         [] HasPresence(fd) -> TRUE
         [] OTHER -> m[fd.num] # ProtoZero(fd.kind)

Get(m, fd, otherwise) == IF fd.num \in DOMAIN m THEN m[fd.num] ELSE otherwise
\* Setting a member of a oneof clears the others.
WithField(name, m, fd, x) ==
    LET gone == IF fd.num \in Messages[name].oneof THEN Messages[name].oneof \ {fd.num} ELSE {}
    IN fd.num :> x @@ [n \in DOMAIN m \ gone |-> m[n]]

RECURSIVE UnmarshalInto(_, _, _, _)
UnmarshalInto(name, m0, bytes, depth) ==
    LET Field(m, fd, r) ==
            LET ownType == r.wt = scalarWireType(fd) IN
            CASE ~ownType /\ ~(packable(fd) /\ r.wt = "len") -> Result(m)
              [] IsMessage(fd) ->
                    LET into == IF IsList(fd) \/ IsMap(fd) THEN <<>> ELSE Get(m, fd, <<>>)
                        sub == UnmarshalInto(fd.msg, into, r.raw, depth - 1)
                    IN IF ~sub.ok THEN Failed
                       ELSE Result(WithField(name, m, fd,
                                IF IsList(fd) \/ IsMap(fd) THEN Append(Get(m, fd, <<>>), sub.v) ELSE sub.v))
              [] fd.kind \in {"string", "bytes"} ->
                    IF fd.kind = "string" /\ InvalidUTF8(r.raw) THEN Failed
                    ELSE Result(WithField(name, m, fd, IF IsList(fd) THEN Append(Get(m, fd, <<>>), r.raw) ELSE r.raw))
              [] ~ownType ->
                    IF Torn(r.raw) THEN Failed
                    ELSE Result(WithField(name, m, fd,
                             Get(m, fd, <<>>) \o [i \in DOMAIN r.raw |-> ProtoValue(fd.kind, r.raw[i])]))
              [] OTHER ->
                    LET x == ProtoValue(fd.kind, r.raw)
                    IN Result(WithField(name, m, fd, IF IsList(fd) THEN Append(Get(m, fd, <<>>), x) ELSE x))
        Step(acc, r) ==
            IF ~acc.ok THEN acc
            ELSE IF r.wt = "bad" THEN Failed
            ELSE FoldLeft(LAMBDA a, fd : Field(a.v, fd, r), acc, FieldsNumbered(name, r.num))
    IN IF depth <= 0 THEN Failed ELSE FoldLeft(Step, Result(m0), bytes)

Unmarshal(name, bytes) == UnmarshalInto(name, <<>>, bytes, RecursionLimit)

\* Two messages that no reader tells apart: the same fields are present.
RECURSIVE Present(_, _)
Present(name, m) ==
    LET there == {i \in DOMAIN Fields(name) : Has(m, Fields(name)[i])}
        Sub(fd, x) == IF ~IsMessage(fd) THEN x
                      ELSE IF IsList(fd) THEN [j \in DOMAIN x |-> Present(fd.msg, x[j])]
                      ELSE Present(fd.msg, x)
    IN [n \in {Fields(name)[i].num : i \in there} |->
            LET fd == FieldsNumbered(name, n)[1] IN Sub(fd, m[n])]

-----------------------------------------------------------------------------
(* The map path: message -> args -> input (connect_args, dispatch_inproc). *)

\* The exported fields in the order collect visits them, with their paths.
RECURSIVE Visited(_, _)
Visited(t, prefix) ==
    FlattenSeq([i \in DOMAIN t.fields |->
        LET f == t.fields[i]
            path == Append(prefix, i)
            within == IF f.embedded /\ derefType(f.type).k = "struct"
                      THEN Visited(derefType(f.type), path) ELSE <<>>
        IN IF Exported(f) THEN <<[f |-> f, path |-> path]>> \o within ELSE <<>>])

FirstPath(visited) == IF visited = <<>> THEN <<>> ELSE visited[1].path

\* collect: the field of an argument, by its tag, then by the field's name; and
\* the field called Body. <<>> when there is none.
collect(t, arg) ==
    LET all == Visited(t, <<>>)
        tagged == SelectSeq(all, LAMBDA e : e.f.loc = arg.loc /\ e.f.tag = arg.name)
        named == SelectSeq(all, LAMBDA e : Lower(e.f.name) = Lower(arg.name))
    IN IF tagged # <<>> THEN FirstPath(tagged) ELSE FirstPath(named)
bodyIdx(t) == FirstPath(SelectSeq(Visited(t, <<>>), LAMBDA e : e.f.name = <<"U", "body">>))

bodyArgOf(m) ==
    LET bodies == SelectSeq(m.args, LAMBDA a : a.loc = "body")
    IN IF bodies = <<>> THEN <<>> ELSE bodies[1].name

Arg(t, v) == [t |-> t, v |-> v]

\* A value as protojson would write it and encoding/json read it back: an int64
\* as its digits, bytes as base64, an enum as the name of its value.
RECURSIVE valueToAny(_, _), fieldToAny(_, _), rangeToMap(_, _)
valueToAny(fd, x) ==
    CASE fd.kind = "bool" -> Arg("bool", x)
      [] fd.kind = "string" -> Arg("str", x)
      [] fd.kind = "bytes" -> Arg("str", <<"base64">> \o x)
      [] fd.kind = "enum" -> Arg("str", <<"name", ToString(x)>>)
      [] fd.kind \in {"int64", "sint64", "uint64", "fixed64"} -> Arg("str", <<ToString(x)>>)
      [] IsMessage(fd) ->
            IF Messages[fd.msg].box # ""
            THEN IF Has(x, Fields(fd.msg)[1]) THEN fieldToAny(Fields(fd.msg)[1], x[Fields(fd.msg)[1].num])
                 ELSE Arg(IF Messages[fd.msg].box = "row" THEN "list" ELSE "map", <<>>)
            ELSE Arg("map", rangeToMap(fd.msg, x))
      [] OTHER -> Arg("num", x)
fieldToAny(fd, x) ==
    CASE IsMap(fd) ->
            LET key == Fields(fd.msg)[1]
                val == Fields(fd.msg)[2]
            IN Arg("map", FoldLeft(LAMBDA out, e :
                   Get(e, key, ProtoZero(key.kind)) :>
                       valueToAny(val, Get(e, val, IF IsMessage(val) THEN <<>> ELSE ProtoZero(val.kind))) @@ out, <<>>, x))
      [] IsList(fd) -> Arg("list", [i \in DOMAIN x |-> valueToAny(fd, x[i])])
      [] OTHER -> valueToAny(fd, x)
rangeToMap(name, m) ==
    LET there == {i \in DOMAIN Fields(name) : Has(m, Fields(name)[i])}
    IN [n \in {Fields(name)[i].name : i \in there} |->
            LET fd == SelectSeq(Fields(name), LAMBDA f : f.name = n)[1] IN fieldToAny(fd, m[fd.num])]

isNumericKind(t) == t.k \in {"int", "uint", "float"}

\* reflect's Convert of a float64: it truncates silently.
Converted(t, x) ==
    CASE t.k = "int" -> Signed(x, t.bits)
      [] t.k = "uint" -> x % 2^t.bits
      [] OTHER -> IF Overflows(t, x) THEN Inf ELSE x

assignNumericFromString(t, s) ==
    LET parsed == {n \in -(2^(Full - 1)) .. 2^Full - 1 : <<ToString(n)>> = s}
    IN IF parsed = {} \/ \E n \in parsed : Overflows(t, n) THEN Failed
       ELSE Result(CHOOSE n \in parsed : TRUE)

\* The field a key of a JSON object names: by its tag, by its name, or by its
\* name in lower case, and a later field before an earlier one.
KeyField(t, key) ==
    LET those == {i \in DOMAIN t.fields : Exported(t.fields[i])}
        tagged == {i \in those : t.fields[i].json = key}
        named == {i \in those : t.fields[i].name = key}
        folded == {i \in those : Lower(t.fields[i].name) = Lower(key)}
    IN IF tagged # {} THEN {Max(tagged)} ELSE IF named # {} THEN {Max(named)}
       ELSE IF folded # {} THEN {Max(folded)} ELSE {}

\* The JSON round trip that is left for anything else fails on the values that
\* stand here for a mismatch.
RECURSIVE assignValue(_, _, _), assignMapToStruct(_, _, _)
assignValue(t, cur, a) ==
    CASE a.t = "bool" /\ t.k = "bool" -> Result(a.v)
      [] a.t = "str" /\ t.k = "string" -> Result(a.v)
      [] a.t = "num" /\ isNumericKind(t) -> Result(Converted(t, a.v))
      [] a.t = "str" /\ IsBytes(t) -> Result(Slice(a.v))
      [] t.k = "ptr" ->
            LET r == assignValue(t.elem, IF cur = <<>> THEN GoZero(t.elem) ELSE cur[1], a)
            IN IF r.ok THEN Result(<<r.v>>) ELSE Failed
      [] a.t = "str" /\ isNumericKind(t) -> assignNumericFromString(t, a.v)
      [] a.t = "map" /\ t.k = "struct" -> assignMapToStruct(t, cur, a.v)
      [] a.t = "list" /\ t.k = "slice" ->
            LET items == Collect([i \in DOMAIN a.v |-> assignValue(t.elem, GoZero(t.elem), a.v[i])])
            IN IF items.ok THEN Result(Slice(items.v)) ELSE Failed
      [] OTHER -> Failed
assignMapToStruct(t, cur, m) ==
    LET Key(acc, key) ==
            IF ~acc.ok \/ KeyField(t, key) = {} THEN acc
            ELSE LET i == CHOOSE j \in KeyField(t, key) : TRUE
                     r == assignValue(t.fields[i].type, acc.v[i], m[key])
                 IN IF r.ok THEN Result([acc.v EXCEPT ![i] = r.v]) ELSE Failed
    IN FoldLeft(Key, Result(cur), SetToSeq(DOMAIN m))

bindInput(mth, args) ==
    LET t == mth.input
        Assign(acc, a, path) ==
            LET r == assignValue(fieldTypeAt(t, path), fieldByPath(t, acc.v, path), args[a.name])
            IN IF r.ok THEN Result(SetByPath(t, acc.v, path, r.v)) ELSE Failed
        Step(acc, a) ==
            LET path == IF a.name = bodyArgOf(mth) THEN bodyIdx(t) ELSE collect(t, a)
            IN IF ~acc.ok \/ a.name \notin DOMAIN args \/ path = <<>> THEN acc ELSE Assign(acc, a, path)
    IN FoldLeft(Step, Result(GoZero(t)), mth.args)

-----------------------------------------------------------------------------
(* The bind plan: message -> input (connect_bind). A plan is a sequence of *)
(* fields, each with the path it is bound to and, for a message, the plan  *)
(* of its struct; the empty sequence is no plan.                           *)

isBoxField(fd) ==
    IF ~IsMessage(fd) THEN FALSE
    ELSE IF IsMap(fd) THEN LET val == Fields(fd.msg)[2] IN IsMessage(val) /\ Messages[val.msg].box # ""
    ELSE Messages[fd.msg].box # ""

bindableScalar(fd, t) ==
    ~IsMessage(fd) /\ CASE Scalars[fd.kind].go = "bytes" -> IsBytes(t)
                        [] OTHER -> t.k = Scalars[fd.kind].go
bindableInto(fd, type) ==
    LET t == derefType(type) IN
    /\ ~hasCustomUnmarshaler(t) /\ ~IsMap(fd)
    /\ IF IsList(fd) THEN t.k = "slice" /\ bindableScalar(fd, derefType(t.elem)) ELSE bindableScalar(fd, t)

\* JSON name -> path, the first in the order of the walk.
RECURSIVE JSONFields(_, _)
JSONFields(type, prefix) ==
    LET t == derefType(type)
        Of(i) == LET f == t.fields[i]
                     path == Append(prefix, i)
                 IN CASE ~Exported(f) \/ f.json = <<"-">> -> <<>>
                      [] f.embedded /\ f.json = <<>> -> JSONFields(f.type, path)
                      [] OTHER -> <<[name |-> IF f.json = <<>> THEN f.name ELSE f.json, path |-> path]>>
    IN IF t.k # "struct" THEN <<>> ELSE FlattenSeq([i \in DOMAIN t.fields |-> Of(i)])
collectJSONFields(t, name) == FirstPath(SelectSeq(JSONFields(t, <<>>), LAMBDA e : e.name = name))

RECURSIVE buildStructBind(_, _, _)
buildStructBind(type, name, depth) ==
    LET t == derefType(type)
        Field(fd) ==
            LET idx == collectJSONFields(t, fd.name)
                ft == derefType(fieldTypeAt(t, idx))
                elem == IF IsList(fd) THEN derefType(ft.elem) ELSE ft
            IN [fd |-> fd, idx |-> idx,
                sub |-> IF ~IsMessage(fd) \/ IsMap(fd) \/ (IsList(fd) /\ ft.k # "slice") THEN <<>>
                        ELSE buildStructBind(elem, fd.msg, depth + 1)]
        mapped == SelectSeq(Fields(name), LAMBDA fd : collectJSONFields(t, fd.name) # <<>>)
        plan == [i \in DOMAIN mapped |-> Field(mapped[i])]
        Fits(f) == LET ft == derefType(fieldTypeAt(t, f.idx)) IN
                   /\ ~hasCustomUnmarshaler(ft)
                   /\ IF IsMessage(f.fd) THEN f.sub # <<>> ELSE bindableInto(f.fd, ft)
    IN IF \/ depth > MaxPlanDepth \/ t.k # "struct" \/ hasCustomUnmarshaler(t)
          \/ \E i \in DOMAIN Fields(name) : isBoxField(Fields(name)[i])
          \/ \E i \in DOMAIN plan : ~Fits(plan[i])
       THEN <<>> ELSE plan

buildBindPlan(mth) ==
    LET t == mth.input
        bodyArg == bodyArgOf(mth)
        IsBody(fd) == bodyArg # <<>> /\ fd.name = bodyArg
        ArgOf(fd) == SelectSeq(mth.args, LAMBDA a : a.name = fd.name)
        Path(fd) == IF IsBody(fd) THEN bodyIdx(t)
                    ELSE IF ArgOf(fd) = <<>> THEN <<>> ELSE collect(t, Last(ArgOf(fd)))
        Body(fd) == IF IsMessage(fd) /\ fd.label = "one"
                    THEN buildStructBind(fieldTypeAt(t, Path(fd)), fd.msg, 0) ELSE <<>>
        bound == SelectSeq(Fields(mth.md), LAMBDA fd : Path(fd) # <<>>)
        Refused(fd) ==
            \/ isBoxField(fd)
            \/ IsBody(fd) /\ (Path(fd) = <<>> \/ Body(fd) = <<>>)
            \/ ~IsBody(fd) /\ Path(fd) # <<>> /\ ~bindableInto(fd, fieldTypeAt(t, Path(fd)))
    IN IF hasCustomUnmarshaler(t) \/ \E i \in DOMAIN Fields(mth.md) : Refused(Fields(mth.md)[i]) THEN <<>>
       ELSE [i \in DOMAIN bound |->
                [fd |-> bound[i], idx |-> Path(bound[i]), sub |-> IF IsBody(bound[i]) THEN Body(bound[i]) ELSE <<>>]]

setScalar(type, x) ==
    LET t == derefType(type)
    IN IF Overflows(t, x) THEN Failed ELSE Result(Pointed(type, IF IsBytes(t) THEN Slice(x) ELSE x))
setFromProto(type, fd, x) ==
    IF ~IsList(fd) THEN setScalar(type, x)
    ELSE LET items == Collect([i \in DOMAIN x |-> setScalar(derefType(type).elem, x[i])])
         IN IF items.ok THEN Result(Pointed(type, Slice(items.v))) ELSE Failed

RECURSIVE apply(_, _, _, _)
apply(plan, t, v, m) ==
    LET Sub(f, ft, cur) ==
            IF ~IsList(f.fd) THEN apply(f.sub, ft, cur, m[f.fd.num])
            ELSE LET elem == derefType(ft).elem
                     items == Collect([i \in DOMAIN m[f.fd.num] |-> apply(f.sub, elem, GoZero(elem), m[f.fd.num][i])])
                 IN IF items.ok THEN Result(Pointed(ft, Slice(items.v))) ELSE Failed
        Step(acc, f) ==
            IF ~acc.ok \/ ~Has(m, f.fd) THEN acc
            ELSE LET ft == fieldTypeAt(t, f.idx)
                     r == IF f.sub = <<>> THEN setFromProto(ft, f.fd, m[f.fd.num])
                          ELSE Sub(f, ft, fieldByPath(t, acc.v, f.idx))
                 IN IF r.ok THEN Result(SetByPath(t, acc.v, f.idx, r.v)) ELSE Failed
    IN FoldLeft(Step, Result(Pointed(t, allocDeref(t, v))), plan)
bind(plan, t, m) == apply(plan, t, GoZero(t), m)

-----------------------------------------------------------------------------
(* The decode plan: bytes -> input (connect_decode). It is read off the    *)
(* bind plan, so the one carries the other: a field of the message that    *)
(* the plan does not bind is parsed for its errors only.                   *)

decodableMessage(name) ==
    /\ ~Messages[name].extensible
    /\ \A i \in DOMAIN Fields(name) :
           Fields(name)[i].num <= MaxFieldNumber /\ ~isBoxField(Fields(name)[i])

\* The messages a validate-only plan reaches; a message may contain itself.
RECURSIVE ReachedFrom(_)
ReachedFrom(names) ==
    LET next == names \cup {fd.msg : fd \in {f \in UNION {Range(Fields(n)) : n \in names} : IsMessage(f)}}
    IN IF next = names THEN names ELSE ReachedFrom(next)
validatePlan(name) == \A n \in ReachedFrom({name}) : decodableMessage(n)

\* Every path is made of plain fields, and none runs through another's.
plainPaths(t, plan) ==
    \A i \in DOMAIN plan :
        /\ \A n \in 1 .. Len(plan[i].idx) - 1 : fieldTypeAt(t, SubSeq(plan[i].idx, 1, n)).k # "ptr"
        /\ \A j \in DOMAIN plan \ {i} : ~IsPrefix(plan[i].idx, plan[j].idx)

lossless(fd, t) == bindableScalar(fd, t) /\ (t.k \in {"int", "uint", "float"} => t.bits >= Scalars[fd.kind].bits)

BoundIn(plan, fd) == SelectSeq(plan, LAMBDA f : f.fd.num = fd.num)

RECURSIVE buildDecodePlan(_, _, _)
buildDecodePlan(t, plan, name) ==
    LET Elem(f) == LET ft == derefType(fieldTypeAt(t, f.idx))
                   IN IF IsList(f.fd) THEN derefType(ft.elem) ELSE ft
        Decodes(fd) ==
            IF BoundIn(plan, fd) = <<>> THEN IsMessage(fd) => validatePlan(fd.msg)
            ELSE LET f == BoundIn(plan, fd)[1]
                 IN IF f.sub = <<>> THEN lossless(fd, Elem(f))
                    ELSE Elem(f).k = "struct" /\ buildDecodePlan(Elem(f), f.sub, fd.msg)
    IN /\ plan # <<>> /\ plainPaths(t, plan)
       /\ decodableMessage(name) /\ Messages[name].oneof = {}
       /\ \A i \in DOMAIN Fields(name) : Decodes(Fields(name)[i])

\* Mutation: zero before the value is cut to the width of the field.
ZeroUncut(fd, raw) == raw = 0

rawIsZero(fd, raw) ==
    IF Scalars[fd.kind].bits = Half /\ Scalars[fd.kind].go # "float" THEN raw % 2^Half = 0 ELSE raw = 0

setRaw(fd, raw) ==
    CASE fd.kind = "bool" -> raw # 0
      [] fd.kind \in {"int32", "sfixed32"} -> Signed(raw % 2^Half, Half)
      [] fd.kind = "sint32" -> Signed(UnZigZag(raw % 2^Half), Half)
      [] fd.kind = "int64" -> Signed(raw, Full)
      [] fd.kind = "sint64" -> UnZigZag(raw)
      [] fd.kind = "uint32" -> raw % 2^Half
      [] OTHER -> raw

\* A string or bytes: the bytes are copied out of connect's buffer.
setLen(fd, t, chars) == Pointed(t, IF fd.kind = "string" THEN chars ELSE Slice(chars))

\* One occurrence of a field, into the struct v of type t.
RECURSIVE decode(_, _, _, _, _, _)
decodeField(plan, t, v, fd, r, depth) ==
    LET bound == BoundIn(plan, fd)
        f == bound[1]
        ft == fieldTypeAt(t, f.idx)
        target == fieldByPath(t, v, f.idx)
        items == allocDeref(ft, target).v
        elem == derefType(ft).elem
        Set(x) == Result(SetByPath(t, v, f.idx, x))
        Extend(xs) == Set(Pointed(ft, Slice(items \o xs)))
        want == scalarWireType(fd)
    IN CASE IsMessage(fd) ->
              IF r.wt # "len" THEN Result(v)
              ELSE IF bound = <<>> THEN
                  LET sub == decode(<<>>, <<>>, <<>>, fd.msg, r.raw, depth) IN IF sub.ok THEN Result(v) ELSE Failed
              ELSE LET into == IF IsList(fd) THEN elem ELSE ft
                       sub == decode(f.sub, derefType(into), allocDeref(into, IF IsList(fd) THEN GoZero(elem) ELSE target),
                                     fd.msg, r.raw, depth)
                   IN IF ~sub.ok THEN Failed
                      ELSE IF IsList(fd) THEN Extend(<<Pointed(elem, sub.v)>>)
                      ELSE Set(Pointed(ft, sub.v))
         [] fd.kind \in {"string", "bytes"} ->
              IF r.wt # "len" THEN Result(v)
              ELSE IF fd.kind = "string" /\ InvalidUTF8(r.raw) THEN Failed
              ELSE IF bound = <<>> THEN Result(v)
              ELSE IF IsList(fd) THEN Extend(<<setLen(fd, elem, r.raw)>>)
              ELSE IF r.raw = <<>> /\ ~HasPresence(fd) THEN Set(GoZero(ft))
              ELSE Set(setLen(fd, ft, r.raw))
         [] packable(fd) /\ r.wt = "len" ->
              IF Torn(r.raw) THEN Failed
              ELSE IF bound = <<>> \/ r.raw = <<>> THEN Result(v)
              ELSE Extend([i \in DOMAIN r.raw |-> Pointed(elem, setRaw(fd, r.raw[i]))])
         [] r.wt # want -> Result(v)
         [] OTHER ->
              IF bound = <<>> THEN Result(v)
              ELSE IF IsList(fd) THEN Extend(<<Pointed(elem, setRaw(fd, r.raw))>>)
              ELSE IF ~HasPresence(fd) /\ rawIsZero(fd, r.raw) THEN Set(GoZero(ft))
              ELSE Set(Pointed(ft, setRaw(fd, r.raw)))
decode(plan, t, v, name, bytes, depth) ==
    LET Step(acc, r) ==
            IF ~acc.ok THEN acc
            ELSE IF r.wt = "bad" THEN Failed
            ELSE FoldLeft(LAMBDA a, fd : decodeField(plan, t, a.v, fd, r, depth - 1), acc, FieldsNumbered(name, r.num))
    IN IF depth - 1 < 0 THEN Failed ELSE FoldLeft(Step, Result(v), bytes)

-----------------------------------------------------------------------------
(* The response: the encode plan, the message it fills and the bytes it    *)
(* writes (connect_encode, connect_wire), and the JSON detour.             *)

scalarAssignable(fd, t) ==
    IF Scalars[fd.kind].go = "bytes" THEN t.k = "slice" ELSE t.k = Scalars[fd.kind].go

RECURSIVE planStruct(_, _, _)
planStruct(type, name, depth) ==
    LET t == derefType(type)
        mapped == SelectSeq(Fields(name), LAMBDA fd : collectJSONFields(t, fd.name) # <<>>)
        Type(fd) == derefType(fieldTypeAt(t, collectJSONFields(t, fd.name)))
        Elem(fd) == IF IsList(fd) THEN derefType(Type(fd).elem) ELSE Type(fd)
        Plan(fd) == [fd |-> fd, idx |-> collectJSONFields(t, fd.name),
                     sub |-> IF IsMessage(fd) THEN planStruct(Elem(fd), fd.msg, depth + 1) ELSE <<>>]
        Refused(fd) ==
            \/ hasCustomMarshaler(Type(fd)) \/ IsMap(fd)
            \/ IF IsList(fd) THEN Type(fd).k # "slice" ELSE Type(fd).k = "slice" /\ fd.kind # "bytes"
            \/ hasCustomMarshaler(Elem(fd))
            \/ IF IsMessage(fd) THEN planStruct(Elem(fd), fd.msg, depth + 1) = <<>> ELSE ~scalarAssignable(fd, Elem(fd))
    IN IF \/ depth > MaxPlanDepth \/ t.k # "struct" \/ hasCustomMarshaler(t)
          \/ \E i \in DOMAIN Fields(name) : isBoxField(Fields(name)[i])
          \/ \E i \in DOMAIN mapped : Refused(mapped[i])
       THEN <<>> ELSE [i \in DOMAIN mapped |-> Plan(mapped[i])]

sortFields(plan) == SortSeq(plan, LAMBDA f, g : f.fd.num < g.fd.num)

\* The value behind the pointers, as a sequence that is empty when one is nil.
RECURSIVE derefValue(_, _)
derefValue(t, v) == IF t.k # "ptr" THEN <<v>> ELSE IF v = <<>> THEN <<>> ELSE derefValue(t.elem, v[1])
RECURSIVE fieldValueAt(_, _, _)
fieldValueAt(t, v, path) ==
    LET s == derefValue(t, v) IN
    IF path = <<>> \/ s = <<>> THEN s
    ELSE fieldValueAt(derefType(t).fields[Head(path)].type, s[1][Head(path)], Tail(path))

GoScalar(t, x) == IF t.k = "slice" THEN x.v ELSE x
\* reflect's IsZero: minus zero counts, a slice is zero when it is nil.
IsZero(t, x) ==
    CASE t.k = "slice" -> x.nil
      [] t.k = "float" -> x \in {0, NegZero}
      [] OTHER -> x = GoZero(t)
goToProtoScalar(fd, t, x) ==
    CASE Scalars[fd.kind].go = "int" -> Signed(x, Scalars[fd.kind].bits)
      [] Scalars[fd.kind].go = "uint" -> x % 2^Scalars[fd.kind].bits
      [] fd.kind = "float" /\ x = Huge -> Inf
      [] OTHER -> GoScalar(t, x)

RECURSIVE encode(_, _, _)
encode(plan, t, v) ==
    LET Sub(f, et, item) == IF item = <<>> THEN <<>> ELSE encode(f.sub, et, item[1])
        Value(f, ft, src) ==
            IF IsList(f.fd)
            THEN LET et == derefType(ft.elem) IN
                 [i \in DOMAIN src.v |->
                    LET item == derefValue(ft.elem, src.v[i])
                    IN IF f.sub # <<>> THEN Sub(f, et, item) ELSE goToProtoScalar(f.fd, et, item[1])]
            ELSE IF f.sub # <<>> THEN encode(f.sub, ft, src)
            ELSE goToProtoScalar(f.fd, ft, src)
        Step(m, f) ==
            LET src == fieldValueAt(t, v, f.idx)
                ft == derefType(fieldTypeAt(t, f.idx))
            IN IF src = <<>> THEN m
               ELSE IF IsList(f.fd) /\ src[1].nil THEN m
               ELSE IF ~IsList(f.fd) /\ f.sub = <<>> /\ IsZero(ft, src[1]) THEN m
               ELSE f.fd.num :> Value(f, ft, src[1]) @@ m
    IN FoldLeft(Step, <<>>, plan)

Record(num, wt, raw) == [num |-> num, wt |-> wt, raw |-> raw]
appendScalarValue(fd, t, x) ==
    CASE fd.kind = "bool" -> IF x THEN 1 ELSE 0
      [] fd.kind \in {"sint32", "sint64"} -> ZigZag(x)
      [] Scalars[fd.kind].go = "int" -> x % 2^(IF Scalars[fd.kind].wt = "f32" THEN Half ELSE Full)
      [] fd.kind = "float" /\ x = Huge -> Inf
      [] OTHER -> GoScalar(t, x)

RECURSIVE appendMessage(_, _, _)
appendMessage(plan, t, v) ==
    LET Sub(f, et, item) == Record(f.fd.num, "len", IF item = <<>> THEN <<>> ELSE appendMessage(f.sub, et, item[1]))
        Tagged(f, et, x) == Record(f.fd.num, scalarWireType(f.fd), appendScalarValue(f.fd, et, x))
        List(f, ft, items) ==
            LET et == derefType(ft.elem)
                Item(i) == derefValue(ft.elem, items[i])
            IN IF items = <<>> THEN <<>>
               ELSE IF f.sub # <<>> THEN [i \in DOMAIN items |-> Sub(f, et, Item(i))]
               ELSE IF packable(f.fd)
               THEN <<Record(f.fd.num, "len", [i \in DOMAIN items |-> appendScalarValue(f.fd, et, Item(i)[1])])>>
               ELSE [i \in DOMAIN items |-> Tagged(f, et, Item(i)[1])]
        appendField(f) ==
            LET src == fieldValueAt(t, v, f.idx)
                ft == derefType(fieldTypeAt(t, f.idx))
            IN IF src = <<>> THEN <<>>
               ELSE IF IsList(f.fd) THEN List(f, ft, src[1].v)
               ELSE IF f.sub # <<>> THEN <<Sub(f, ft, src)>>
               ELSE IF IsZero(ft, src[1]) THEN <<>>
               ELSE <<Tagged(f, ft, src[1])>>
    IN FlattenSeq([i \in DOMAIN plan |-> appendField(plan[i])])

\* encoding/json, as the detour uses it: of the fields of one name the least
\* nested is written.
JSONPath(t, name) ==
    LET those == SelectSeq(JSONFields(t, <<>>), LAMBDA e : e.name = name)
    IN FirstPath(SelectSeq(those, LAMBDA e : \A i \in DOMAIN those : Len(e.path) <= Len(those[i].path)))
Replaced(chars) == [i \in DOMAIN chars |-> IF chars[i] = "bad" THEN "replaced" ELSE chars[i]]

\* json.Marshal, then protojson.Unmarshal: null leaves a field unset and fails
\* in a list, and a number must fit.
RECURSIVE jsonToDynamic(_, _, _), JSONValue(_, _, _)
JSONValue(fd, type, v) ==
    LET t == derefType(type)
        x == derefValue(type, v)
    IN CASE x = <<>> -> Failed
         [] IsMessage(fd) -> jsonToDynamic(t, x[1], fd.msg)
         [] fd.kind = "string" -> Result(Replaced(x[1]))
         [] Overflows([k |-> Scalars[fd.kind].go, bits |-> Scalars[fd.kind].bits], x[1]) -> Failed
         [] OTHER -> Result(GoScalar(t, x[1]))
jsonToDynamic(type, v, name) ==
    LET t == derefType(type)
        Step(acc, fd) ==
            LET path == JSONPath(t, fd.name)
                src == fieldValueAt(t, v, path)
                ft == derefType(fieldTypeAt(t, path))
                r == IF IsList(fd) THEN Collect([i \in DOMAIN src[1].v |-> JSONValue(fd, ft.elem, src[1].v[i])])
                     ELSE JSONValue(fd, ft, src[1])
            IN IF ~acc.ok \/ path = <<>> THEN acc
               ELSE IF src = <<>> THEN acc
               ELSE IF ft.k = "slice" /\ src[1].nil THEN acc
               ELSE IF r.ok THEN Result(fd.num :> r.v @@ acc.v) ELSE Failed
    IN FoldLeft(Step, Result(<<>>), Fields(name))

-----------------------------------------------------------------------------
(* A call.                                                                 *)

\* The type and the value of the response's body: the field Body, if any.
BodyPath(t) ==
    LET bodies == SelectSeq(Visited(t, <<>>), LAMBDA e : e.f.name = <<"U", "body">>)
    IN FirstPath(SelectSeq(bodies, LAMBDA e : \A i \in DOMAIN bodies : Len(e.path) <= Len(bodies[i].path)))
BodyType(mth) == derefType(fieldTypeAt(mth.output, BodyPath(mth.output)))
extractBody(mth, v) == fieldByPath(mth.output, v, BodyPath(mth.output))

\* A list or a scalar goes under "value".
wrapResponseValue(mth, body) ==
    IF BodyType(mth).k = "struct" THEN [t |-> BodyType(mth), v |-> body]
    ELSE [t |-> [k |-> "struct", fields |-> <<[name |-> <<"U", "value">>, json |-> <<"l", "value">>, embedded |-> FALSE,
                                               loc |-> "", tag |-> <<>>, type |-> BodyType(mth)]>>],
          v |-> <<body>>]

planResponse(mth) == IF BodyType(mth).k = "struct" THEN sortFields(planStruct(BodyType(mth), mth.out, 0)) ELSE <<>>

\* An operation with its plans, made once. Checked input is read as arguments,
\* which needs the message, so there the decoder is left out.
Mounted(mth) ==
    LET plan == buildBindPlan(mth)
    IN [mth |-> mth, plan |-> plan, outPlan |-> planResponse(mth),
        decodes |-> ~mth.checked /\ buildDecodePlan(mth.input, plan, mth.md)]

\* The input of a request read as a message: through the plan or the map.
newConnectBinder(on, m) ==
    IF ~m.ok THEN Failed
    ELSE IF on.plan # <<>> THEN bind(on.plan, on.mth.input, m.v)
    ELSE bindInput(on.mth, rangeToMap(on.mth.md, m.v))

\* What the binary codec makes of a request, and what the handler is given.
bindRequest(on, bytes) ==
    IF on.decodes
    THEN decode(on.plan, on.mth.input, GoZero(on.mth.input), on.mth.md, bytes, RecursionLimit)
    ELSE newConnectBinder(on, Unmarshal(on.mth.md, bytes))

\* What the client reads of a response: of the bytes the plan wrote, or of the
\* message the JSON detour filled.
Encoded(on, body) ==
    IF on.outPlan # <<>> THEN Unmarshal(on.mth.out, appendMessage(on.outPlan, body.t, body.v))
    ELSE jsonToDynamic(body.t, body.v, on.mth.out)

CodecInit ==
    /\ mounted \in {Mounted(m) : m \in Methods}
    /\ wire = <<>> /\ callStage = "reading" /\ got = <<>> /\ reply = <<>> /\ answered = <<>>

RECURSIVE Size(_, _)
Size(name, bytes) ==
    FoldLeft(LAMBDA n, r :
        LET fds == FieldsNumbered(name, r.num)
        IN n + 1 + (IF fds = <<>> THEN 0 ELSE IF IsMessage(fds[1]) /\ r.wt = "len" THEN Size(fds[1].msg, r.raw) ELSE 0),
        0, bytes)

\* What a client may send for a field: its own wire type and another one, packed
\* or not, zero, too large for the field, empty or malformed.
Occurrences(fd) ==
    LET own == scalarWireType(fd)
        raws == CASE Scalars[fd.kind].go = "float" -> {0, 1, NegZero} \cup (IF fd.kind = "double" THEN {Huge} ELSE {})
                  [] own = "f32" -> {0, 1, 5}
                  [] OTHER -> {0, 1, 5, 8, 15}
    IN CASE IsMessage(fd) -> {Record(fd.num, "len", <<>>), Record(fd.num, "varint", 1)}
         [] own = "len" -> {Record(fd.num, "len", c) : c \in {<<>>, <<"a">>, <<"bad">>}} \cup {Record(fd.num, "varint", 1)}
         [] OTHER -> {Record(fd.num, own, x) : x \in raws}
                     \cup (IF packable(fd) THEN {Record(fd.num, "len", run) : run \in {<<>>, <<0>>, <<1, 5>>, <<1, -1>>}}
                           ELSE {Record(fd.num, IF own = "f64" THEN "f32" ELSE "f64", 1)})

\* One more record, at the end or inside the last message.
RECURSIVE Grown(_, _)
Grown(name, bytes) ==
    LET known == UNION {Occurrences(Fields(name)[i]) : i \in DOMAIN Fields(name)}
        lastFd == FieldsNumbered(name, Last(bytes).num)
    IN {Append(bytes, r) : r \in known \cup {Record(MaxFieldNumber, "varint", 1), Record(1, "bad", 0)}}
       \cup (IF bytes = <<>> THEN {}
             ELSE IF Last(bytes).wt # "len" \/ lastFd = <<>> THEN {}
             ELSE IF ~IsMessage(lastFd[1]) THEN {}
             ELSE {Append(Front(bytes), Record(lastFd[1].num, "len", w)) : w \in Grown(lastFd[1].msg, Last(bytes).raw)})

Receive ==
    /\ callStage = "reading" /\ Size(mounted.mth.md, wire) < MaxRecords
    /\ wire' \in Grown(mounted.mth.md, wire)
    /\ UNCHANGED <<mounted, callStage, got, reply, answered>>

connectUnary ==
    /\ callStage = "reading"
    /\ got' = bindRequest(mounted, wire)
    /\ callStage' = IF got'.ok THEN "called" ELSE "refused"
    /\ UNCHANGED <<mounted, wire, reply, answered>>

Answer ==
    /\ callStage = "called" /\ Size(mounted.mth.md, wire) <= MaxAnswered
    /\ \E v \in mounted.mth.replies :
           /\ reply' = wrapResponseValue(mounted.mth, extractBody(mounted.mth, v))
           /\ answered' = Encoded(mounted, reply')
    /\ callStage' = "answered"
    /\ UNCHANGED <<mounted, wire, got>>

CodecNext == Receive \/ connectUnary \/ Answer

CodecSpec == CodecInit /\ [][CodecNext]_codecVars

-----------------------------------------------------------------------------
\* Where the bind plan is known to differ from the map path: bytes (their
\* base64 text is bound undecoded), a Go field narrower than its proto field
\* (truncated rather than refused), and a field promoted from an embedded
\* struct of the body (dropped).
RECURSIVE Reshaped(_, _, _)
Reshaped(plan, t, nested) ==
    \E i \in DOMAIN plan :
        LET f == plan[i]
            ft == derefType(fieldTypeAt(t, f.idx))
            elem == IF IsList(f.fd) THEN derefType(ft.elem) ELSE ft
        IN \/ nested /\ Len(f.idx) > 1
           \/ IF f.sub # <<>> THEN Reshaped(f.sub, elem, TRUE) ELSE f.fd.kind = "bytes" \/ ~lossless(f.fd, elem)

\* The handler gets the input the slower paths would have given it, or a refusal
\* where they refuse, however the request was split, repeated, packed or torn
\* (connect_decode.go decode, connect_bind.go bind, dispatch_inproc.go bindInput).
InputsAgree ==
    callStage \in {"called", "refused"} =>
        LET m == Unmarshal(mounted.mth.md, wire)
            slow == newConnectBinder(mounted, m)
        IN /\ Same(got, slow)
           /\ m.ok /\ ~Reshaped(mounted.plan, mounted.mth.input, FALSE)
                => Same(slow, newConnectBinder([mounted EXCEPT !.plan = <<>>], m))

\* Replies json.Marshal and the plan are known to write differently: minus zero,
\* invalid UTF-8, a nil element of a list, and names an embedded struct shadows.
RECURSIVE Odd(_, _)
Odd(t, v) ==
    CASE t.k = "float" -> v = NegZero
      [] t.k = "string" -> InvalidUTF8(v)
      [] t.k = "ptr" -> v # <<>> /\ Odd(t.elem, v[1])
      [] t.k = "slice" -> \E i \in DOMAIN v.v : IF t.elem.k = "ptr" THEN v.v[i] = <<>> \/ Odd(t.elem, v.v[i])
                                                 ELSE ~IsBytes(t) /\ Odd(t.elem, v.v[i])
      [] t.k = "struct" -> \/ \E i \in DOMAIN t.fields : Odd(t.fields[i].type, v[i])
                           \/ \E e \in Range(JSONFields(t, <<>>)) : collectJSONFields(t, e.name) # JSONPath(t, e.name)
      [] OTHER -> FALSE

\* The client reads the same response whether the plan wrote its bytes, filled a
\* message for another codec, or the JSON detour did (connect_wire.go appendMessage,
\* connect_encode.go encode, grpc_ingress.go jsonToDynamic).
RepliesAgree ==
    callStage = "answered" =>
        LET Read(m) == IF m.ok THEN Result(Present(mounted.mth.out, m.v)) ELSE Failed
        IN /\ mounted.outPlan # <<>> /\ answered.ok
                => Read(answered) = Read(Result(encode(mounted.outPlan, reply.t, reply.v)))
           /\ ~Odd(reply.t, reply.v)
                => Same(Read(answered), Read(Encoded([mounted EXCEPT !.outPlan = <<>>], reply)))
===========================================================================
