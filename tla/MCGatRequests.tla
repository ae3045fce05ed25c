---------------------------- MODULE MCGatRequests -------------------------
(***************************************************************************)
(* Documents for TLC: two operations of a namespace, one after the other   *)
(* through an export, side by side, or in a fragment; and a second schema  *)
(* without the others.                                                     *)
(***************************************************************************)
EXTENDS GatDocuments, ConnectCodec

Field(key, name, reads, exports, sub) ==
    [k |-> "field", key |-> key, name |-> name, reads |-> reads, exports |-> exports, sub |-> sub]
Inline(sub) == [k |-> "inline", reads |-> {}, sub |-> sub]
Spread(name) == [k |-> "spread", name |-> name, reads |-> {}]
Doc(kind, sel, frags, required) == [kind |-> kind, sel |-> sel, frags |-> frags, required |-> required]

Id(exports) == Field("id", "id", {}, exports, <<>>)
Shop(sub) == Field("Shop", "Shop", {}, <<>>, sub)
Orders(exports) == Field("orders", "listOrders", {}, <<>>, <<Id(exports)>>)
Me(reads, exports) == Field("me", "whoAmI", reads, <<>>, <<Id(exports)>>)
Set(key) == Field(key, "setName", {}, <<>>, <<Id(<<>>)>>)
Names(key, reads) == Field(key, "getNames", reads, <<>>, <<Field("name", "name", {}, <<>>, <<>>)>>)

\* "staged" has a reader that stands before its exporter, in another selection of
\* the same namespace, reached through a fragment.
MCDocuments ==
    "staged" :> Doc("query", <<Shop(<<Names("names", {"ids"})>>), Spread("rest")>>,
                    "rest" :> <<Shop(<<Orders(<<"ids">>)>>)>>, {})
    @@ "needs" :> Doc("query", <<Shop(<<Orders(<<"ids">>), Names("names", {"ids"})>>)>>, <<>>, {"ids"})
    @@ "lacks" :> Doc("query", <<Shop(<<Field("orders", "listOrders", {"x"}, <<>>, <<Id(<<"ids">>)>>), Names("names", {"ids"})>>)>>,
                      <<>>, {"x"})
    @@ "fused" :> Doc("query", <<Shop(<<Orders(<<>>), Names("a", {}), Me({}, <<>>)>>)>>, <<>>, {})
    @@ "exporting" :> Doc("query", <<Shop(<<Orders(<<"ids">>), Me({}, <<"me">>)>>)>>, <<>>, {})
    @@ "reading" :> Doc("query", <<Shop(<<Names("a", {"ids", "me"})>>)>>, <<>>, {})
    @@ "cyclic" :> Doc("query", <<Shop(<<Field("orders", "listOrders", {"x"}, <<>>, <<Id(<<"y">>)>>), Me({"y"}, <<"x">>)>>)>>,
                       <<>>, {})
    @@ "change" :> Doc("mutation", <<Shop(<<Set("one"), Set("two")>>)>>, <<>>, {})
    @@ "many" :> Doc("query", <<Shop(<<Names("a", {}), Inline(<<Names("b", {}), Names("c", {}), Names("d", {})>>)>>)>>, <<>>, {})

MCSchemas ==
    <<[id |-> 1, containers |-> {"Shop"}, ops |-> {"listOrders", "getNames", "whoAmI", "setName"}],
      [id |-> 2, containers |-> {"Shop"}, ops |-> {"listOrders", "getNames"}]>>

Atom(a) == Value("str", a)
Rows(rows) == Value("rows", rows)
Headers(cc, etag, lastMod, vary) == [cc |-> cc, etag |-> etag, lastMod |-> lastMod, vary |-> vary]
Bare == Headers(None, None, 0, {})
Op(result, may, session, cookies, headers) ==
    [result |-> result, may |-> may, session |-> session, cookies |-> cookies, headers |-> headers]
MCOperations ==
    "listOrders" :> Op(Rows(<<"id" :> Atom("1"), "id" :> Atom("2"), "id" :> Atom("1")>>), {"ok", "error"}, FALSE, <<"s">>,
                       Headers(<<Directives({"private"}, {}, "max-age" :> 9 @@ "stale-if-error" :> 5)>>, <<"o">>, 1, {"A"}))
    @@ "getNames" :> Op(Rows(<<"name" :> Atom("n")>>), {"ok"}, TRUE, <<>>,
                        Headers(<<Directives({}, {"public"}, "max-age" :> 5 @@ "s-maxage" :> 9)>>, <<"n">>, 2, {}))
    @@ "whoAmI" :> Op(Value("row", "id" :> Atom("me")), {"ok", "panic", "unbound"}, TRUE, <<"t">>, Bare)
    @@ "setName" :> Op(Value("row", "id" :> Atom("3")), {"ok", "error"}, FALSE, <<"u">>, Bare)


Post == [method |-> "POST", hook |-> "ok", body |-> "ok", batch |-> FALSE, items |-> <<>>]
Ask(doc, given) == [id |-> "", text |-> doc, vars |-> given]
AskBy(id) == [id |-> id, text |-> "", vars |-> <<>>]
Single(method, item) == [Post EXCEPT !.method = method, !.items = <<item>>]
Batch(items) == [Post EXCEPT !.batch = TRUE, !.items = items]
StagedGet == Single("GET", Ask("staged", <<>>))
FusedGet == Single("GET", Ask("fused", <<>>))
Overlapping == {<<Single("POST", AskBy("d")), Single("POST", AskBy("d"))>>,
                <<StagedGet, Batch(<<AskBy("d"), Ask("reading", <<>>)>>)>>, <<FusedGet, FusedGet>>}
MCScripts ==
    {<<q>> : q \in
        {Single("POST", Ask("needs", "ids" :> Atom("7"))), Single("POST", Ask("needs", <<>>)), Single("POST", Ask("lacks", <<>>)),
         Single("POST", Ask("change", <<>>)), Single("GET", Ask("change", <<>>)), Single("POST", Ask("cyclic", <<>>)),
         Single("POST", Ask("many", <<>>)), Single("GET", AskBy("e")),
         Batch(<<Ask("exporting", <<>>), Ask("reading", <<>>)>>), Batch(<<Ask("fused", <<>>), Ask("reading", <<>>)>>),
         Batch(<<AskBy("e"), AskBy("d")>>), Batch(<<>>), Batch(<<Ask("", <<>>)>>),
         [Post EXCEPT !.hook = "refuse"], [Post EXCEPT !.body = "large"], [Post EXCEPT !.body = "invalid"]}}
    \cup Overlapping
MCTrusted == "d" :> "staged"

-----------------------------------------------------------------------------
(* Calls over Connect and gRPC, checked side by side with the requests: the *)
(* two have no state in common, so a behaviour is one of the one or the     *)
(* other. The types are those the paths tell apart: fields that fit their   *)
(* proto field and narrower ones, pointers and lists at every level, a body,*)
(* promoted and hidden parameters, a oneof, boxes, and messages that nest   *)
(* themselves.                                                              *)
P == <<"l", "p">>
Q == <<"l", "q">>
N == <<"l", "n">>
S == <<"l", "s">>
BodyName == <<"l", "body">>
SInt(b) == [k |-> "int", bits |-> b]
UInt(b) == [k |-> "uint", bits |-> b]
Float(b) == [k |-> "float", bits |-> b]
Bool == [k |-> "bool"]
Text == [k |-> "string"]
Bytes == [k |-> "slice", elem |-> UInt(Narrow)]
Ptr(t) == [k |-> "ptr", elem |-> t]
SliceOf(t) == [k |-> "slice", elem |-> t]
Struct(fields) == [k |-> "struct", fields |-> fields]
Up(n) == <<"U", n[2]>>
Member(n, t) == [name |-> Up(n), json |-> n, embedded |-> FALSE, loc |-> "", tag |-> <<>>, type |-> t]
Embed(n, t) == [name |-> n, json |-> <<>>, embedded |-> TRUE, loc |-> "", tag |-> <<>>, type |-> t]
InQuery(n, t) == [Member(n, t) EXCEPT !.json = <<>>, !.loc = "query", !.tag = n]
InBody(t) == [Member(BodyName, t) EXCEPT !.json = <<>>]

Fd(num, name, kind, label) == [num |-> num, name |-> name, kind |-> kind, label |-> label, msg |-> ""]
Sub(num, name, msg, label) == [num |-> num, name |-> name, kind |-> "message", label |-> label, msg |-> msg]
Msg(fields) == [fields |-> fields, oneof |-> {}, extensible |-> FALSE, box |-> ""]

MCMessages ==
    [Params |-> Msg(<<Fd(1, P, "int32", "one"), Fd(2, Q, "string", "rep")>>),
     Wide   |-> Msg(<<Fd(1, P, "int64", "one"), Fd(2, Q, "bytes", "one"), Sub(3, N, "Tree", "one")>>),
     Lists  |-> Msg(<<Fd(1, P, "sint32", "rep"), Fd(2, Q, "double", "one"), Fd(3, S, "uint32", "opt")>>),
     Create |-> Msg(<<Fd(2, P, "bool", "one"), Sub(1, BodyName, "Item", "one")>>),
     Item   |-> Msg(<<Fd(1, S, "string", "one"), Sub(2, N, "Leaf", "rep"), Fd(3, Q, "uint64", "one"), Sub(4, P, "Leaf", "one")>>),
     Leaf   |-> Msg(<<Fd(2, P, "int32", "one"), Fd(1, Q, "int64", "rep")>>),
     Tree   |-> Msg(<<Sub(1, N, "Tree", "one"), Fd(2, S, "string", "one"), Sub(3, Q, "Entry", "map")>>),
     Entry  |-> Msg(<<Fd(1, P, "string", "one"), Fd(2, Q, "int32", "one")>>),
     Either |-> [Msg(<<Fd(1, P, "int32", "one"), Fd(2, Q, "bool", "one")>>) EXCEPT !.oneof = {1, 2}],
     Rows   |-> Msg(<<Sub(1, P, "Row", "rep")>>),
     Row    |-> [Msg(<<Fd(1, P, "int32", "rep")>>) EXCEPT !.box = "row"],
     Listed |-> Msg(<<Fd(1, <<"l", "value">>, "string", "rep")>>)]

LeafType == Struct(<<Member(P, SInt(Half)), Member(Q, SliceOf(SInt(Full)))>>)
ItemType(leaf, one) == Struct(<<Member(S, Text), Member(N, SliceOf(leaf)), Member(Q, Ptr(UInt(Full))), Member(P, one)>>)

Method(input, args, md, output, out, replies) ==
    [input |-> input, args |-> args, md |-> md, output |-> output, out |-> out, replies |-> replies, checked |-> FALSE]
QueryArg(n) == [name |-> n, loc |-> "query"]
BodyArg == [name |-> BodyName, loc |-> "body"]

RECURSIVE ValuesOf(_)
ValuesOf(t) ==
    CASE t.k = "bool" -> {TRUE, FALSE}
      [] t.k = "int" -> {0, 1, -2^(t.bits - 1)}
      [] t.k = "uint" -> {0, 2^t.bits - 1}
      [] t.k = "float" -> {0, 1, NegZero} \cup (IF t.bits = Full THEN {Huge} ELSE {})
      [] t.k = "string" -> {<<>>, <<"a">>, <<"bad">>}
      [] t.k = "ptr" -> {<<>>} \cup {<<x>> : x \in ValuesOf(t.elem)}
      [] IsBytes(t) -> {GoZero(t), Slice(<<>>), Slice(<<"a">>)}
      [] t.k = "slice" -> {GoZero(t), Slice(<<>>)} \cup {Slice(<<x>>) : x \in ValuesOf(t.elem)}
                          \cup {LET x == CHOOSE y \in ValuesOf(t.elem) : y # GoZero(t.elem) IN Slice(<<GoZero(t.elem), x>>)}
      [] OTHER -> {[GoZero(t) EXCEPT ![i] = x] : <<i, x>> \in
                       UNION {{i} \X ValuesOf(t.fields[i].type) : i \in DOMAIN t.fields}}
OnlyBody(body) == Struct(<<InBody(body)>>)
CallOf(input, args, md, body, out) == Method(input, args, md, OnlyBody(body), out, ValuesOf(OnlyBody(body)))

Args == <<QueryArg(P), QueryArg(Q)>>
Shadowing == Struct(<<Embed(<<"U", "base">>, Struct(<<Member(P, SInt(Half))>>)), Member(P, SInt(Half))>>)
MCMethods ==
    {CallOf(Struct(<<InQuery(P, SInt(Half)), InQuery(Q, SliceOf(Text))>>), Args, "Params", LeafType, "Leaf"),
     CallOf(Struct(<<InQuery(P, SInt(Narrow)), InQuery(Q, SliceOf(Ptr(Text)))>>), Args, "Params", SliceOf(Text), "Listed"),
     CallOf(Struct(<<Embed(<<"U", "base">>, Struct(<<InQuery(P, Ptr(SInt(Half)))>>)),
                    Embed(<<"l", "base">>, Struct(<<InQuery(Q, SliceOf(Text))>>))>>), Args, "Params", Shadowing, "Leaf"),
     CallOf(Struct(<<Embed(<<"U", "base">>, Ptr(Struct(<<InQuery(P, SInt(Full))>>))), Member(Q, SliceOf(Text))>>), Args, "Params",
           Struct(<<Embed(<<"U", "base">>, Ptr(LeafType))>>), "Leaf"),
     CallOf(Struct(<<InQuery(P, SInt(Full)), InQuery(Q, Bytes)>>), Args, "Wide",
           Struct(<<Member(P, SInt(Full)), Member(Q, Bytes)>>), "Wide"),
     CallOf(Struct(<<InQuery(P, SliceOf(SInt(Half))), InQuery(Q, Float(Full)), InQuery(S, UInt(Half))>>),
           <<QueryArg(P), QueryArg(Q), QueryArg(S)>>, "Lists",
           Struct(<<Member(P, SliceOf(SInt(Half))), Member(Q, Float(Full))>>), "Lists"),
     CallOf(Struct(<<InQuery(P, Ptr(SliceOf(SInt(Half)))), InQuery(Q, Float(Half)), InQuery(S, Ptr(UInt(Half)))>>),
           <<QueryArg(P), QueryArg(Q), QueryArg(S)>>, "Lists", Struct(<<Member(Q, Float(Half))>>), "Lists"),
     CallOf(Struct(<<InQuery(P, Bool), InBody(ItemType(LeafType, LeafType))>>), <<QueryArg(P), BodyArg>>, "Create",
           ItemType(Ptr(LeafType), LeafType), "Item"),
     CallOf(Struct(<<InQuery(P, Bool), InBody(Ptr(ItemType(Ptr(LeafType), Ptr(LeafType))))>>), <<BodyArg, QueryArg(P)>>, "Create",
           ItemType(LeafType, Ptr(LeafType)), "Item"),
     CallOf(Struct(<<InBody(Struct(<<Embed(<<"U", "base">>, Struct(<<Member(S, Text)>>)), Member(P, LeafType)>>))>>),
           <<BodyArg>>, "Create", Struct(<<Embed(<<"U", "base">>, Struct(<<Member(S, Text)>>)), Member(P, LeafType)>>), "Item"),
     CallOf(Struct(<<InQuery(P, SInt(Half)), InQuery(Q, Bool)>>), Args, "Either", Struct(<<Member(P, SInt(Half))>>), "Either"),
     CallOf(Struct(<<InQuery(P, SliceOf(SliceOf(SInt(Half))))>>), <<QueryArg(P)>>, "Rows", LeafType, "Leaf"),
     [CallOf(Struct(<<InQuery(P, SInt(Half)), InQuery(Q, SliceOf(Text))>>), Args, "Params", LeafType, "Leaf") EXCEPT !.checked = TRUE]}

VARIABLES part

Off == mounted = <<>> /\ wire = <<>> /\ callStage = "off" /\ got = <<>> /\ reply = <<>> /\ answered = <<>>
EitherInit == \/ part = "requests" /\ GatInit /\ Off
              \/ part = "calls" /\ CodecInit /\ GatInit /\ snap = 0 /\ script = CHOOSE s \in Scripts : TRUE
EitherNext == \/ part = "requests" /\ GatNext /\ UNCHANGED <<part, codecVars>>
              \/ part = "calls" /\ CodecNext /\ UNCHANGED <<part, gatVars>>
Either == EitherInit /\ [][EitherNext]_<<part, gatVars, codecVars>>

\* The fast paths of the Connect ingress hand over what the slow ones would, in
\* both directions (connect_decode.go, connect_bind.go, connect_encode.go, connect_wire.go).
PathsAgree == InputsAgree /\ RepliesAgree
===========================================================================
