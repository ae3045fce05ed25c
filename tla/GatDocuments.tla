--------------------------- MODULE GatDocuments ---------------------------
(***************************************************************************)
(* The algorithms behind the constants of GatRequests: what a schema makes *)
(* of a document, the data an execution returns, what is exported from it, *)
(* and how the data of several stages is made one.                         *)
(*                                                                         *)
(* A document is [kind, sel, frags, required]: its selections, its         *)
(* fragments and the variables it declares without a default.  A selection *)
(* is a field (response key, name, variables read, names exported,         *)
(* subselections), an inline fragment or a fragment spread.  A schema says *)
(* which fields are namespace containers and which are operations.         *)
(***************************************************************************)
EXTENDS GatRequests

--------------------------------------------------------------------------
(* Documents                                                               *)

Spreads(doc, s) == IF s.name \in DOMAIN doc.frags THEN doc.frags[s.name] ELSE <<>>

\* inlineFragments: a spread becomes an inline fragment; a cyclic one goes.
RECURSIVE Inlined(_, _, _)
Inlined(doc, set, inPath) ==
    FlattenSeq([i \in DOMAIN set |->
        LET s == set[i]
        IN  CASE s.k \in {"field", "inline"} -> <<[s EXCEPT !.sub = Inlined(doc, @, inPath)]>>
              [] s.k = "spread" /\ s.name \in inPath -> <<>>
              [] OTHER -> <<[k |-> "inline", reads |-> s.reads,
                             sub |-> Inlined(doc, Spreads(doc, s), inPath \cup {s.name})]>>])
Selections(doc) == Inlined(doc, doc.sel, {})

\* countOperations: fields that are no containers, aliases and spreads counted each.
RECURSIVE CountIn(_, _)
CountIn(schema, set) ==
    FoldLeft(LAMBDA n, s : n + (CASE s.k = "inline" \/ s.name \in schema.containers -> CountIn(schema, s.sub)
                                  [] s.k = "field" /\ s.name \in schema.ops -> 1
                                  [] OTHER -> 0), 0, set)
CountOperations(schema, doc) == CountIn(schema, Selections(doc))

RECURSIVE SelectionDepth(_)
SelectionDepth(set) ==
    Max({0} \cup {SelectionDepth(set[i].sub) + (IF set[i].k = "field" THEN 1 ELSE 0) : i \in DOMAIN set})

\* The rules of the specification that tell documents apart here: every field
\* above or at an operation exists.
RECURSIVE Known(_, _)
Known(schema, set) ==
    \A i \in DOMAIN set :
        CASE set[i].k = "inline" \/ set[i].name \in schema.containers -> Known(schema, set[i].sub)
          [] OTHER -> set[i].name \in schema.ops

\* PlanCache.Get with validationRules: whether the plan has errors.
Invalid(schema, doc) ==
    \/ ~ Known(schema, Selections(doc))
    \/ CountOperations(schema, doc) > MaxOps
    \/ SelectionDepth(Selections(doc)) > MaxDepth

--------------------------------------------------------------------------
(* Stages                                                                  *)

\* collectReads and collectSetReads.
RECURSIVE SetReads(_)
SetReads(set) == UNION {set[i].reads \cup SetReads(set[i].sub) : i \in DOMAIN set}

\* fieldExports: names with the keys that lead to the exporting field.
RECURSIVE ExportsIn(_, _)
ExportsIn(set, keys) ==
    FlattenSeq([i \in DOMAIN set |->
        IF set[i].k = "inline" THEN ExportsIn(set[i].sub, keys)
        ELSE LET path == Append(keys, set[i].key)
             IN  [j \in DOMAIN set[i].exports |-> [as |-> set[i].exports[j], keys |-> path]]
                     \o ExportsIn(set[i].sub, path)])

\* The operation fields, by the keys that lead to them.
RECURSIVE Units(_, _, _)
Units(schema, set, keys) ==
    FlattenSeq([i \in DOMAIN set |->
        LET s == set[i]
        IN  CASE s.k = "inline" -> Units(schema, s.sub, keys)
              [] s.k = "field" /\ s.name \in schema.containers -> Units(schema, s.sub, Append(keys, s.key))
              [] OTHER -> <<[path |-> Append(keys, s.key), op |-> s.name, sub |-> s.sub,
                             reads |-> s.reads \cup SetReads(s.sub), exports |-> ExportsIn(<<s>>, keys)]>>])

\* The rounds of planStages: one more than the latest exporter, none when a round
\* past the number of units still changes one.
StageRound(units, stage) ==
    [i \in DOMAIN units |->
        Max({stage[i]} \cup {stage[j] + 1 : j \in {k \in DOMAIN units : Feeds(units[k], units[i])}})]
RECURSIVE StageRounds(_, _, _)
StageRounds(units, stage, rounds) ==
    CASE Settled(units, stage) -> stage
      [] ~ Settled(units, stage) /\ rounds > Len(units) -> None
      [] OTHER -> StageRounds(units, StageRound(units, stage), rounds + 1)

\* pruneToStage: the units at the paths, and what is above them.
RECURSIVE Prune(_, _, _)
Prune(set, paths, keys) ==
    FlattenSeq([i \in DOMAIN set |->
        LET s    == set[i]
            path == IF s.k = "inline" THEN keys ELSE Append(keys, s.key)
        IN  IF s.k = "field" /\ path \in paths THEN <<s>>
            ELSE LET sub == Prune(s.sub, paths, path)
                 IN  IF sub = <<>> THEN <<>> ELSE <<[s EXCEPT !.sub = sub]>>])

\* keyOrder: the keys of a level in the order asked for, with the levels below.
RECURSIVE KeyOrder(_, _)
AddKey(order, key, sub) ==
    IF \A i \in DOMAIN order : order[i][1] # key THEN Append(order, <<key, KeyOrder(<<>>, sub)>>)
    ELSE [i \in DOMAIN order |->
             IF order[i][1] = key THEN <<key, KeyOrder(order[i][2], sub)>> ELSE order[i]]
KeyOrder(order, set) ==
    FoldLeft(LAMBDA o, s : IF s.k = "inline" THEN KeyOrder(o, s.sub) ELSE AddKey(o, s.key, s.sub), order, set)

Stage(sel, units) ==
    LET pruned == Prune(sel, {units[i].path : i \in DOMAIN units}, <<>>)
    IN  [sel |-> pruned, reads |-> SetReads(pruned), exports |-> FlattenSeq([i \in DOMAIN units |-> units[i].exports])]
StagesAt(sel, units, stage) ==
    [n \in 1 .. Max({1} \cup {stage[i] : i \in DOMAIN stage}) |->
        Stage(sel, FlattenSeq([i \in DOMAIN units |-> IF stage[i] = n THEN <<units[i]>> ELSE <<>>]))]

\* planStages: the document as it is when one stage is enough, none when the
\* dependencies cannot be staged.
StagesOf(units) == StageRounds(units, [i \in DOMAIN units |-> 1], 0)
PlanStages(sel, units) ==
    LET own == \E i \in DOMAIN units : Feeds(units[i], units[i])
    IN  IF own \/ (units # <<>> /\ StagesOf(units) = None) THEN None ELSE StagesAt(sel, units, StagesOf(units))

\* What a schema makes of a document.
Analysis(schema, doc) ==
    LET sel   == Selections(doc)
        units == Units(schema, sel, <<>>)
    IN  [sel |-> sel, order |-> KeyOrder(<<>>, sel), invalid |-> Invalid(schema, doc),
         count |-> CountOperations(schema, doc), units |-> units, exports |-> ExportsIn(sel, <<>>),
         stage |-> StagesOf(units),
         stages |-> IF Known(schema, sel) THEN PlanStages(sel, units) ELSE None]

--------------------------------------------------------------------------
(* Data                                                                    *)

\* Mutation: the later stage's containers take the place of the earlier ones'.
MergeOver(dst, src) ==
    SelectSeq(dst, LAMBDA d : \A i \in DOMAIN src : src[i][1] # d[1]) \o src

\* mergeData: objects under the same key are merged, anything else replaced.
RECURSIVE MergeData(_, _)
MergePair(dst, p) ==
    IF \A i \in DOMAIN dst : dst[i][1] # p[1] THEN Append(dst, p)
    ELSE [i \in DOMAIN dst |->
             CASE dst[i][1] # p[1] -> dst[i]
               [] dst[i][1] = p[1] /\ dst[i][2].t = "obj" /\ p[2].t = "obj" ->
                     <<p[1], Value("obj", MergeData(dst[i][2].v, p[2].v))>>
               [] OTHER -> p]
MergeData(dst, src) == FoldLeft(MergePair, dst, src)

\* appendOrdered; every key is one the document asked for.
RECURSIVE Ordered(_, _)
Ordered(v, order) ==
    CASE v.t = "list" -> Value("list", [i \in DOMAIN v.v |-> Ordered(v.v[i], order)])
      [] v.t = "obj"  ->
            Value("obj", FlattenSeq([i \in DOMAIN order |->
                LET at == {j \in DOMAIN v.v : v.v[j][1] = order[i][1]}
                IN  IF at = {} THEN <<>>
                    ELSE <<<<order[i][1], Ordered(v.v[CHOOSE j \in at : TRUE][2], order[i][2])>>>>]))
      [] OTHER -> v

\* The executor (external): a row, or a list of rows, as it was selected.
RECURSIVE RowOf(_, _)
RowOf(row, sub) ==
    Value("obj", FoldLeft(LAMBDA o, s : MergeData(o, IF s.k = "inline" THEN RowOf(row, s.sub).v
                                                     ELSE <<<<s.key, row[s.name]>>>>), <<>>, sub))
Selected(result, sub) ==
    CASE result.t = "rows" -> Value("list", [i \in DOMAIN result.v |-> RowOf(result.v[i], sub)])
      [] result.t = "row"  -> RowOf(result.v, sub)
      [] OTHER -> result

RECURSIVE Executed(_, _, _, _)
Executed(schema, set, keys, results) ==
    FoldLeft(LAMBDA o, s :
        MergeData(o, CASE s.k = "inline" -> Executed(schema, s.sub, keys, results)
                       [] s.k = "field" /\ s.name \in schema.containers ->
                             <<<<s.key, Value("obj", Executed(schema, s.sub, Append(keys, s.key), results))>>>>
                       [] OTHER -> <<<<s.key, Selected(results[Append(keys, s.key)], s.sub)>>>>), <<>>, set)

\* mergeStageResults.
MergeStageResults(payloads, order) ==
    LET whole  == SelectSeq(payloads, LAMBDA p : p.data # None)
        errors == UNION {payloads[i].errors : i \in DOMAIN payloads}
        data   == FoldLeft(LAMBDA d, p : MergeData(d, p.data[1].v), <<>>, whole)
    IN  Payload(IF whole = <<>> THEN None ELSE <<Ordered(Value("obj", data), order)>>, errors)

\* collectExports: what is found at the end of a path, in order, once each; it
\* is a list when the path passes one or the name is exported twice.
RECURSIVE Visit(_, _)
Visit(v, keys) ==
    CASE v.t = "list" -> FlattenSeq([i \in DOMAIN v.v |-> Visit(v.v[i], keys)])
      [] v.t = "null" -> <<>>
      [] v.t # "list" /\ v.t # "null" /\ keys = <<>> -> <<v>>
      [] v.t = "obj" /\ keys # <<>> ->
            FlattenSeq([i \in DOMAIN v.v |-> IF v.v[i][1] = keys[1] THEN Visit(v.v[i][2], Tail(keys)) ELSE <<>>])
      [] OTHER -> <<>>
RECURSIVE PassesList(_, _)
PassesList(v, keys) ==
    \/ v.t = "list"
    \/ v.t = "obj" /\ keys # <<>> /\ \E i \in DOMAIN v.v : v.v[i][1] = keys[1] /\ PassesList(v.v[i][2], Tail(keys))

Distinct(vs) == FoldLeft(LAMBDA d, v : IF v \in ToSet(d) THEN d ELSE Append(d, v), <<>>, vs)
CollectExports(paths, payload, exported) ==
    LET data    == IF payload.data = None THEN NullData ELSE payload.data[1]
        at(n)   == SelectSeq(paths, LAMBDA p : p.as = n)
        vals(n) == Distinct(FlattenSeq([i \in DOMAIN at(n) |-> Visit(data, at(n)[i].keys)]))
        list(n) == Len(at(n)) > 1 \/ PassesList(data, at(n)[1].keys)
        set     == {n \in {paths[i].as : i \in DOMAIN paths} : list(n) \/ Len(vals(n)) = 1}
    IN  [n \in set |-> IF list(n) THEN Value("list", vals(n)) ELSE vals(n)[1]] @@ exported
==========================================================================
