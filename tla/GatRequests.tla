---------------------------- MODULE GatRequests ---------------------------
(***************************************************************************)
(* GraphQL requests of the embedded gateway (gw/gat): planning against the *)
(* schema being served, the stages @export makes of a document, operations *)
(* that run at the same time and share the request's attributes, and the   *)
(* one response their results and headers are combined in, while the host  *)
(* replaces the schema.                                                    *)
(*                                                                         *)
(* Documents and schemas are referred to by their names and numbers.  What *)
(* a schema makes of a document, and the algorithms on data, are constants *)
(* here, so that the steps of a request can be proved about for any of     *)
(* them; GatDocuments defines them.                                        *)
(***************************************************************************)
EXTENDS Integers, Sequences, FiniteSets, SequencesExt, FiniteSetsExt, Bags

CONSTANTS
    Clients,      \* the requests that may be under way at a time
    Documents,    \* the documents, by name
    Scripts,      \* the requests that are sent, in order
    Schemas,      \* the schemas the host installs, in this order
    Operations,   \* what an operation returns and how it may fail
    Trusted,      \* the names of the trusted documents, by id
    Enforce,      \* whether only these are accepted
    Parallel,     \* operations of a request on goroutines of their own
    MaxOps,       \* operations of a request, MaxOperations
    MaxDepth,     \* levels of a document
    CacheEntries, \* documents the caches keep
    Analyse(_, _),         \* what a schema makes of a document: its validation, planStages
    Execution(_, _, _, _), \* data of a selection, from the results of its operations
    ExportsOf(_, _, _),    \* collectExports: the exported values, with those of a payload added
    Combined(_, _)         \* mergeStageResults: the payloads of the stages as one, in an order

VARIABLES
    snap,         \* the number of the schema being served, 0 before the first
    cache,        \* trusted plans, stages and operation counts by schema
    requests,     \* the request each client has under way
    script        \* the requests still to be sent

gatVars == <<snap, cache, requests, script>>

None == <<>>
NoText == ""
With(f, x, v) == [y \in DOMAIN f \cup {x} |-> IF y = x THEN v ELSE f[y]]
Without(f, x) == [y \in DOMAIN f \ {x} |-> f[y]]

--------------------------------------------------------------------------
(* Stages                                                                  *)

\* An operation field of a document is a unit: its path, the variables it reads
\* and the names it exports.
Exports(u) == {u.exports[i].as : i \in DOMAIN u.exports}
Feeds(e, u) == Exports(e) \cap u.reads # {}

\* Mutation: a reader runs beside its exporters.
SettledBeside(units, stage) ==
    \A i, j \in DOMAIN units : Feeds(units[j], units[i]) => stage[j] <= stage[i]

\* The stages are found once no exporter is at or behind one of its readers.
Settled(units, stage) ==
    \A i, j \in DOMAIN units : Feeds(units[j], units[i]) => stage[j] + 1 <= stage[i]

Analysed == [s \in DOMAIN Schemas |-> [d \in DOMAIN Documents |-> Analyse(Schemas[s], Documents[d])]]

\* A document that passed the validation: no more than MaxOps operations, each
\* under a response key of its own (fields under one key, which the executor
\* merges, are left out), and stages that the rounds of planStages ended with.
ASSUME AnalysisAssumption ==
    /\ Schemas \in Seq(ToSet(Schemas)) /\ Schemas # <<>>
    /\ \A s \in DOMAIN Schemas : \A d \in DOMAIN Documents :
          LET a == Analysed[s][d]
          IN  ~ a.invalid =>
                  /\ a.units \in Seq(ToSet(a.units))
                  /\ \A j, k \in DOMAIN a.units : a.units[j].path = a.units[k].path => j = k
                  /\ \A k \in DOMAIN a.units : a.units[k].op \in DOMAIN Operations
                  /\ a.count \in Nat /\ Len(a.units) <= a.count /\ a.count <= MaxOps
                  /\ a.stages # None => /\ a.stages \in Seq(ToSet(a.stages))
                                        /\ a.stage \in [DOMAIN a.units -> 1 .. Len(a.stages)]
                                        /\ Settled(a.units, a.stage)

\* A request that is not a batch has one item; a GET is never a batch.  An item
\* names a document by its text, or one by its id that is trusted.
Sent == UNION {ToSet(s) : s \in Scripts}
ASSUME SentAssumption ==
    /\ MaxOps \in Nat /\ Parallel \in Nat
    /\ Scripts \subseteq Seq(Sent)
    /\ \A q \in Sent :
          /\ q.items \in Seq(ToSet(q.items)) /\ q.batch \in BOOLEAN
          /\ q.hook # "refuse" /\ q.body = "ok" /\ ~ q.batch => Len(q.items) = 1
          /\ q.method = "GET" => ~ q.batch
          /\ \A i \in DOMAIN q.items : q.items[i].text # NoText => q.items[i].text \in DOMAIN Documents
    /\ \A id \in DOMAIN Trusted : Trusted[id] \in DOMAIN Documents
    /\ \A d \in DOMAIN Documents : Documents[d].kind \in {"query", "mutation"}

--------------------------------------------------------------------------
(* Data                                                                    *)

Value(t, v) == [t |-> t, v |-> v]
NullData == Value("null", "null")

\* A response: its data, none when the execution did not start, and the paths
\* of the operations that failed.
Payload(data, errors) == [data |-> data, errors |-> errors]
Refused(code) == Payload(None, {<<code>>})

--------------------------------------------------------------------------
(* Response headers                                                        *)

\* A Cache-Control header: what it forbids, what it grants, and its ages.
Directives(bans, grants, ages) == [bans |-> bans, grants |-> grants, ages |-> ages]
NoStore == Directives({"no-store"}, {}, <<>>)
Grace == {"stale-while-revalidate", "stale-if-error"}

\* Mutation: the longer of two ages.
LongerAge(a, b, n) == IF n \in DOMAIN a \cap DOMAIN b THEN Max({a[n], b[n]}) ELSE IF n \in DOMAIN a THEN a[n] ELSE b[n]

\* minAge and bothAge: the shorter age; a grace period only when both grant it.
ShorterAge(a, b, n) ==
    IF n \in DOMAIN a \cap DOMAIN b THEN Min({a[n], b[n]}) ELSE IF n \in DOMAIN a THEN a[n] ELSE b[n]
Restricted(d, o) ==
    LET names == (DOMAIN d.ages \cup DOMAIN o.ages) \ (Grace \ (DOMAIN d.ages \cap DOMAIN o.ages))
    IN  Directives(d.bans \cup o.bans, d.grants \cap o.grants, [n \in names |-> ShorterAge(d.ages, o.ages, n)])

\* ccDirectives.String: some directives leave others without a meaning.
Written(d) ==
    CASE "no-store" \in d.bans -> NoStore
      [] "no-store" \notin d.bans /\ "private" \in d.bans ->
            Directives(d.bans \ {"proxy-revalidate"}, d.grants \ {"public"},
                       [n \in DOMAIN d.ages \ {"s-maxage"} |-> d.ages[n]])
      [] OTHER -> d

\* cacheMerge; etags are summed, so that their order does not count.
Unmerged == [ops |-> 0, failed |-> FALSE, withCC |-> 0, first |-> NoStore, same |-> TRUE, cc |-> NoStore,
             withETag |-> 0, firstETag |-> None, etagSum |-> EmptyBag,
             withLM |-> 0, lastMod |-> 0, vary |-> {}]

ObserveCC(m, cc) ==
    CASE cc = None -> m
      [] cc # None /\ m.withCC = 0 -> [m EXCEPT !.withCC = 1, !.first = cc[1], !.cc = cc[1]]
      [] OTHER -> [m EXCEPT !.withCC = @ + 1, !.same = @ /\ cc[1] = m.first, !.cc = Restricted(@, cc[1])]
ObserveETag(m, etag) ==
    IF etag = None THEN m
    ELSE [m EXCEPT !.withETag = @ + 1, !.firstETag = IF m.withETag = 0 THEN etag ELSE @,
                   !.etagSum = @ (+) SetToBag({etag[1]})]
ObserveRest(m, h) ==
    [m EXCEPT !.withLM = IF h.lastMod = 0 THEN @ ELSE @ + 1, !.lastMod = Max({@, h.lastMod}), !.vary = @ \cup h.vary]

\* cacheMerge.observe.
Observe(m, failed, h) ==
    IF failed THEN [m EXCEPT !.ops = @ + 1, !.failed = TRUE]
    ELSE ObserveRest(ObserveETag(ObserveCC([m EXCEPT !.ops = @ + 1], h.cc), h.etag), h)

\* cacheMerge.apply.
Silent(m) == m.ops = 0 \/ (m.withCC = 0 /\ m.withETag = 0 /\ m.withLM = 0 /\ m.vary = {})
CacheControl(m) ==
    CASE Silent(m) -> None
      [] ~ Silent(m) /\ (m.failed \/ m.withCC \in 1 .. m.ops - 1) -> <<NoStore>>
      [] ~ Silent(m) /\ ~ m.failed /\ m.withCC = m.ops /\ m.same -> <<m.first>>
      [] ~ Silent(m) /\ ~ m.failed /\ m.withCC = m.ops /\ ~ m.same -> <<Written(m.cc)>>
      [] OTHER -> None
ETag(m, docs, variables) ==
    CASE Silent(m) \/ m.failed \/ m.withETag # m.ops -> None
      [] ~ Silent(m) /\ ~ m.failed /\ m.withETag = m.ops /\ m.ops = 1 -> m.firstETag
      [] OTHER -> <<"W", m.etagSum, docs, variables>>
LastModified(m) == IF Silent(m) \/ m.failed \/ m.withLM # m.ops THEN 0 ELSE m.lastMod

Response(status, outs, m, docs, variables, cookies) ==
    [status |-> status, outs |-> outs, cc |-> CacheControl(m), etag |-> ETag(m, docs, variables),
     lastMod |-> LastModified(m), vary |-> IF Silent(m) THEN {} ELSE m.vary, cookies |-> cookies]
Plain(status, code) == Response(status, <<Refused(code)>>, Unmerged, <<>>, <<>>, <<>>)

\* How an operation may end; Set-Cookie and Cache-Control as its handler sets them.
ASSUME OperationsAssumption ==
    \A o \in DOMAIN Operations :
        LET op == Operations[o]
        IN  /\ op.may \subseteq {"ok", "error", "panic", "unbound"}
            /\ op.cookies \in Seq(ToSet(op.cookies))
            /\ op.headers.cc # None =>
                   /\ op.headers.cc = <<op.headers.cc[1]>>
                   /\ \A n \in DOMAIN op.headers.cc[1].ages : op.headers.cc[1].ages[n] \in Nat

--------------------------------------------------------------------------
(* Requests                                                                *)

\* A request under way.
Fresh(req, held) ==
    [pc |-> "plan", req |-> req, held |-> held, schema |-> snap, plans |-> <<>>, total |-> 0, pend |-> <<>>,
     i |-> 1, by |-> 0, n |-> 1, todo |-> {}, running |-> <<>>, results |-> <<>>, errors |-> {},
     payloads |-> <<>>, exported |-> <<>>, fed |-> <<>>, outs |-> <<>>, ran |-> <<>>,
     attr |-> "absent", fills |-> 0, cookies |-> <<>>, merge |-> Unmerged, resp |-> None]
Answered(r, resp) == [pc |-> "done", req |-> r.req, held |-> r.held, resp |-> <<resp>>]
Idle == [pc |-> "done", resp |-> None]

GatInit == /\ snap \in {0, 1}
           /\ cache = [k \in {"trusted", "stages", "counts"} |-> [schema |-> 0, kept |-> <<>>]]
           /\ requests = [c \in Clients |-> Idle]
           /\ script \in Scripts

Becomes(c, r) == requests' = [requests EXCEPT ![c] = r]

\* SetSchema.
SetSchema == /\ snap < Len(Schemas) /\ snap' = snap + 1
             /\ UNCHANGED <<cache, requests, script>>

\* What a client may hold from an earlier response to the same request.
Held(req) ==
    {None} \cup {requests[d].resp : d \in {e \in Clients : /\ requests[e].resp # None /\ requests[e].req = req
                                                    /\ requests[e].resp[1].etag # None /\ requests[e].resp[1].status = 200}}

\* Handler and serveRequest up to the plans.
Handled(r) ==
    CASE snap = 0 -> Answered(r, Plain(503, "NOT_READY"))
      [] snap # 0 /\ r.req.hook = "refuse" -> Answered(r, Plain(403, "hook"))
      [] snap # 0 /\ r.req.hook # "refuse" /\ r.req.body # "ok" ->
            Answered(r, IF r.req.body = "large" THEN Plain(413, "BAD_REQUEST") ELSE Plain(400, "invalid"))
      [] snap # 0 /\ r.req.hook # "refuse" /\ r.req.body = "ok" /\ r.req.batch /\ Len(r.req.items) \notin 1 .. MaxOps ->
            Answered(r, Plain(400, "batch"))
      [] OTHER -> r
Arrive(c) ==
    /\ requests[c].pc = "done" /\ script # <<>> /\ script' = Tail(script)
    /\ \E held \in Held(script[1]) : Becomes(c, Handled(Fresh(script[1], held)))
    /\ UNCHANGED <<snap, cache>>

Schema(r) == Schemas[r.schema]
Item(r) == r.req.items[r.i]
NameOf(r) == r.plans[r.i].plan[1].doc
DocOf(r) == Documents[NameOf(r)]

\* The three caches: an entry of the same schema is a hit; what is computed
\* instead, from the request's schema, is kept later, by which time the cache
\* may be for another one.  An entry is the schema it was computed from.
Hit(k, r, key) == cache[k].schema = r.schema /\ key \in DOMAIN cache[k].kept
Lookup(k, r, key) == IF Hit(k, r, key) THEN cache[k].kept[key] ELSE r.schema
Pending(k, r, key) == IF Hit(k, r, key) THEN <<>> ELSE <<[in |-> k, key |-> key, value |-> r.schema]>>

Kept(k, e) ==
    LET same == IF k.schema = e.value THEN k.kept ELSE <<>>
    IN  [schema |-> e.value,
         kept |-> IF Cardinality(DOMAIN same) < CacheEntries THEN With(same, e.key, e.value) ELSE same]
Keep(c) ==
    /\ requests[c].pc # "done" /\ requests[c].pend # <<>>
    /\ cache' = [cache EXCEPT ![requests[c].pend[1].in] = Kept(@, requests[c].pend[1])]
    /\ Becomes(c, [requests[c] EXCEPT !.pend = Tail(@)])
    /\ UNCHANGED <<snap, script>>

--------------------------------------------------------------------------
(* planRequest                                                             *)

Planned(schema, doc) == [status |-> 0, code |-> NoText, plan |-> <<[schema |-> schema, doc |-> doc]>>]
NotPlanned(status, code) == [status |-> status, code |-> code, plan |-> None]
BadPlan(p) == Analysed[p.plan[1].schema][p.plan[1].doc].invalid

\* An unknown id counts for nothing beside a text, unless that is refused.
ById(r, item) ==
    CASE Trusted = <<>> -> NotPlanned(400, "PERSISTED_QUERY_NOT_SUPPORTED")
      [] Trusted # <<>> /\ item.id \in DOMAIN Trusted ->
            Planned(Lookup("trusted", r, item.id), Trusted[item.id])
      [] Trusted # <<>> /\ item.id \notin DOMAIN Trusted /\ item.text # NoText /\ ~ Enforce ->
            Planned(r.schema, item.text)
      [] OTHER -> NotPlanned(200, "PERSISTED_QUERY_NOT_FOUND")
PlanRequest(r, item) ==
    CASE item.id # NoText -> ById(r, item)
      [] item.id = NoText /\ item.text = NoText -> NotPlanned(400, "BAD_REQUEST")
      [] item.id = NoText /\ item.text # NoText /\ Trusted # <<>> /\ Enforce -> NotPlanned(400, "TRUSTED_DOCUMENT_REQUIRED")
      [] OTHER -> Planned(r.schema, item.text)
PlanPending(r, item) == IF item.id \in DOMAIN Trusted THEN Pending("trusted", r, item.id) ELSE <<>>

\* The operations of a batched document count together with the others'.
Counted(r, p) == r.req.batch /\ Len(r.req.items) > 1 /\ p.plan # None /\ ~ BadPlan(p)
Count(r, doc) == Analysed[Lookup("counts", r, doc)][doc].count
PlanItem(c) ==
    LET r == requests[c]
        p == PlanRequest(r, Item(r))
        d == p.plan[1].doc
    IN  /\ r.pc = "plan" /\ r.pend = <<>> /\ r.i <= Len(r.req.items)
        /\ Becomes(c, [r EXCEPT !.plans = Append(@, p), !.i = @ + 1,
               !.total = IF Counted(r, p) THEN @ + Count(r, d) ELSE @,
               !.pend = PlanPending(r, Item(r)) \o (IF Counted(r, p) THEN Pending("counts", r, d) ELSE <<>>)])
        /\ UNCHANGED <<snap, cache, script>>

\* What is refused once everything is planned.
MutationOverGet(r) ==
    /\ r.req.method = "GET" /\ ~ BadPlan(r.plans[1])
    /\ Documents[r.plans[1].plan[1].doc].kind = "mutation"
Admit(c) ==
    LET r == requests[c]
    IN  /\ r.pc = "plan" /\ r.pend = <<>> /\ r.i > Len(r.req.items)
        /\ Becomes(c,
               CASE ~ r.req.batch /\ r.plans[1].status # 0 -> Answered(r, Plain(r.plans[1].status, r.plans[1].code))
                 [] ~ r.req.batch /\ r.plans[1].status = 0 /\ MutationOverGet(r) -> Answered(r, Plain(405, "GET"))
                 [] r.req.batch /\ r.total > MaxOps -> Answered(r, Plain(400, "batch"))
                 [] OTHER -> [r EXCEPT !.pc = "item", !.i = 1])
        /\ UNCHANGED <<snap, cache, script>>

--------------------------------------------------------------------------
(* run                                                                     *)

\* An item is done with payload out; a batch's next items get its exports.
ItemDone(r, out, doc) ==
    [r EXCEPT !.pc = "item", !.i = @ + 1, !.outs = Append(@, out),
              !.fed = IF r.req.batch /\ doc # None
                      THEN ExportsOf(Analysed[r.schema][doc[1]].exports, out, @) ELSE @]
\* ... without having run anything.
Skipped(r, out, doc) == [ItemDone(r, out, doc) EXCEPT !.ran = Append(@, <<>>)]

\* The stages of the document at hand; only one with exports is looked up.
HasExports(r) == Analysed[r.schema][NameOf(r)].exports # <<>>
StagesBy(r) == IF HasExports(r) THEN Lookup("stages", r, NameOf(r)) ELSE r.schema
Staged(r) == Analysed[r.by][NameOf(r)]
Stages(r) == Staged(r).stages
StageUnits(r) == {k \in DOMAIN Staged(r).units : Staged(r).stage[k] = r.n}
Begun(r) ==
    IF Analysed[StagesBy(r)][NameOf(r)].stages = None THEN Skipped(r, Refused("EXPORT_DEPENDENCY"), <<NameOf(r)>>)
    ELSE [r EXCEPT !.pc = "stage", !.by = StagesBy(r), !.n = 1, !.payloads = <<>>, !.exported = <<>>,
                   !.ran = Append(@, <<>>)]
Begin(c) ==
    LET r == requests[c]
        p == r.plans[r.i]
    IN  /\ r.pc = "item" /\ r.pend = <<>> /\ r.i <= Len(r.req.items)
        /\ Becomes(c,
               CASE p.status # 0 -> Skipped(r, Refused(p.code), None)
                 [] p.status = 0 /\ BadPlan(p) -> Skipped(r, Refused("invalid"), <<NameOf(r)>>)
                 [] OTHER -> [Begun(r) EXCEPT !.pend = IF HasExports(r) THEN Pending("stages", r, NameOf(r)) ELSE <<>>])
        /\ UNCHANGED <<snap, cache, script>>

\* Exports fill the variables the client, or an earlier document, left unset.
Filled(given, exported) ==
    [v \in DOMAIN given \cup DOMAIN exported |-> IF v \in DOMAIN given THEN given[v] ELSE exported[v]]
Variables(r) == Filled(Filled(Item(r).vars, r.fed), r.exported)

StageDone(r, payload) ==
    LET all == Append(r.payloads, payload)
        out == IF Len(Stages(r)) = 1 THEN payload
               ELSE Combined(all, Staged(r).order)
    IN  IF r.n = Len(Stages(r)) THEN ItemDone(r, out, <<NameOf(r)>>)
        ELSE [r EXCEPT !.pc = "stage", !.n = @ + 1, !.payloads = all,
                       !.exported = ExportsOf(Stages(r)[r.n].exports, payload, @)]

\* Variables without a value keep a stage from running.
Coerced(r) == DocOf(r).required \cap Stages(r)[r.n].reads \subseteq DOMAIN Variables(r)
StartStage(c) ==
    LET r == requests[c]
    IN  /\ r.pc = "stage" /\ r.pend = <<>>
        /\ Becomes(c, IF Coerced(r) THEN [r EXCEPT !.pc = "call", !.todo = StageUnits(r),
                                                   !.results = <<>>, !.errors = {}]
                      ELSE StageDone(r, Refused("variables")))
        /\ UNCHANGED <<snap, cache, script>>

\* Mutation: mutations too.
GoesAny(r) == Cardinality({p \in DOMAIN r.running : r.running[p].go}) < Parallel

\* The resolvers are called in order.  limitDispatcher gives a query a goroutine
\* of its own while fewer than Parallel run; the others run in place.
InFlight(r) == {p \in DOMAIN r.running : r.running[p].go}
InPlace(r) == DOMAIN r.running \ InFlight(r)
Seen(r, u) == [v \in u.reads \cap DOMAIN Variables(r) |-> Variables(r)[v]]
Goes(r) == DocOf(r).kind = "query" /\ Cardinality(InFlight(r)) < Parallel
CallOperation(c) ==
    LET r == requests[c]
        k == Min(r.todo)
        u == Staged(r).units[k]
    IN  /\ r.pc = "call" /\ r.todo # {} /\ InPlace(r) = {}
        /\ Becomes(c, [r EXCEPT !.todo = @ \ {k},
               !.running = With(@, u.path, [op |-> u.op, go |-> Goes(r), at |-> "bind"]),
               !.ran[r.i] = With(@, u.path, [op |-> u.op, seen |-> Seen(r, u), schema |-> r.plans[r.i].plan[1].schema,
                                             result |-> NullData, outcome |-> "none"])])
        /\ UNCHANGED <<snap, cache, script>>

--------------------------------------------------------------------------
(* inprocDispatcher.Dispatch, parallelResult.run                           *)

At(r, p, at) == [r EXCEPT !.running[p].at = at]

\* The call is over.  A panic is an error that no header was taken from, and so
\* is input that could not be bound.
Returned(r, p, outcome) ==
    LET op == Operations[r.running[p].op]
        ok == outcome = "ok"
    IN  [r EXCEPT !.running = Without(@, p),
                  !.results = With(@, p, IF ok THEN op.result ELSE NullData),
                  !.errors = IF ok THEN @ ELSE @ \cup {p},
                  !.ran[r.i][p].result = IF ok THEN op.result ELSE NullData,
                  !.ran[r.i][p].outcome = outcome,
                  !.cookies = IF ok THEN @ \o op.cookies ELSE @,
                  !.merge = IF outcome \in {"ok", "error"} THEN Observe(@, ~ ok, op.headers) ELSE @]

\* LockIfAbsentAndFill: the first to come fills, the others wait or find it done.
Session(r, p) ==
    CASE r.attr = "absent"  -> [At(r, p, "fill") EXCEPT !.attr = "filling", !.fills = @ + 1]
      [] r.attr = "filling" -> At(r, p, "wait")
      [] r.attr = "ok"      -> At(r, p, "handle")
      [] OTHER -> Returned(r, p, "error")
Bind(c) ==
    /\ requests[c].pc = "call"
    /\ \E p \in DOMAIN requests[c].running :
           LET op == Operations[requests[c].running[p].op]
           IN  /\ requests[c].running[p].at = "bind"
               /\ \/ "unbound" \in op.may /\ Becomes(c, Returned(requests[c], p, "unbound"))
                  \/ Becomes(c, IF op.session THEN Session(requests[c], p) ELSE At(requests[c], p, "handle"))
    /\ UNCHANGED <<snap, cache, script>>

\* The fill ends, for whatever reason, and wakes those who wait.
FillEnds(r, p, how) ==
    IF how = "ok" THEN [At(r, p, "handle") EXCEPT !.attr = "ok"]
    ELSE [Returned(r, p, how) EXCEPT !.attr = "failed"]
Fill(c) ==
    /\ requests[c].pc = "call"
    /\ \E p \in DOMAIN requests[c].running : \E how \in {"ok", "error", "panic"} :
           /\ requests[c].running[p].at = "fill"
           /\ Becomes(c, FillEnds(requests[c], p, how))
    /\ UNCHANGED <<snap, cache, script>>

Wake(c) ==
    /\ requests[c].pc = "call"
    /\ \E p \in DOMAIN requests[c].running :
           /\ requests[c].running[p].at = "wait"
           /\ \/ requests[c].attr = "ok" /\ Becomes(c, At(requests[c], p, "handle"))
              \/ requests[c].attr = "failed" /\ Becomes(c, Returned(requests[c], p, "error"))
    /\ UNCHANGED <<snap, cache, script>>

\* The client goes away, and one who waits notices.
GiveUp(c) ==
    /\ requests[c].pc = "call"
    /\ \E p \in DOMAIN requests[c].running :
           requests[c].running[p].at = "wait" /\ Becomes(c, Returned(requests[c], p, "error"))
    /\ UNCHANGED <<snap, cache, script>>

\* The handler returns.
Return(c) ==
    /\ requests[c].pc = "call"
    /\ \E p \in DOMAIN requests[c].running : \E how \in Operations[requests[c].running[p].op].may \ {"unbound"} :
           /\ requests[c].running[p].at = "handle"
           /\ Becomes(c, Returned(requests[c], p, how))
    /\ UNCHANGED <<snap, cache, script>>

\* Every resolver was called and every thunk awaited.
EndStage(c) ==
    LET r    == requests[c]
        data == Execution(Schema(r), Stages(r)[r.n].sel, <<>>, r.results)
    IN  /\ r.pc = "call" /\ r.todo = {} /\ r.running = <<>>
        /\ Becomes(c, StageDone(r, Payload(<<Value("obj", data)>>, r.errors)))
        /\ UNCHANGED <<snap, cache, script>>

\* Cookies and headers go out before the body; a client that has it gets none.
Docs(r) == [i \in DOMAIN r.plans |-> IF r.plans[i].plan = None THEN None ELSE <<r.plans[i].plan[1].doc>>]
Reply(r) == Response(200, r.outs, r.merge, SelectSeq(Docs(r), LAMBDA d : d # None),
                     IF r.req.batch THEN <<>> ELSE r.req.items[1].vars, r.cookies)
NotModified(r) == r.req.method = "GET" /\ r.held # None /\ r.held[1].etag = Reply(r).etag
RunIsOver(r) == r.pc = "item" /\ r.pend = <<>> /\ r.i > Len(r.req.items)
Respond(c) ==
    LET r == requests[c]
    IN  /\ RunIsOver(r)
        /\ Becomes(c, Answered(r, [Reply(r) EXCEPT !.status = IF NotModified(r) THEN 304 ELSE 200]))
        /\ UNCHANGED <<snap, cache, script>>

GatNext == \/ SetSchema
           \/ \E c \in Clients : \/ Arrive(c) \/ GiveUp(c) \/ Keep(c) \/ PlanItem(c) \/ Admit(c) \/ Begin(c)
                              \/ StartStage(c) \/ CallOperation(c) \/ Bind(c) \/ Fill(c) \/ Wake(c) \/ Return(c)
                              \/ EndStage(c) \/ Respond(c)

GatSpec == GatInit /\ [][GatNext]_gatVars

--------------------------------------------------------------------------
(* Properties                                                              *)

Busy == {c \in Clients : requests[c].pc # "done"}

\* The operations that an item started, and those that were started in all.
DocAt(r, i) == Analysed[r.schema][r.plans[i].plan[1].doc]
PathsAt(r, i) == {DocAt(r, i).units[k].path : k \in DOMAIN DocAt(r, i).units}
Ran(r, i) == i \in DOMAIN r.ran /\ r.ran[i] # <<>>
Whole(r, i) == Ran(r, i) /\ DOMAIN r.ran[i] = PathsAt(r, i)
Started(r) == UNION {{i} \X (DOMAIN r.ran[i]) : i \in DOMAIN r.ran}

\* A request is served by the schema it met, whatever replaces it: plans, stages
\* and counts in the caches are used for their own schema only.
OneSchema ==
    \A c \in Busy : LET r == requests[c] IN
        /\ \A i \in DOMAIN r.ran : \A p \in DOMAIN r.ran[i] : r.ran[i][p].schema = r.schema
        /\ r.pc \in {"stage", "call"} => r.by = r.schema

\* The data of document i from the results of its operations, null for the others.
InOneGo(r, i) == Execution(Schema(r), DocAt(r, i).sel, <<>>,
                           [p \in PathsAt(r, i) |-> IF p \in DOMAIN r.ran[i] THEN r.ran[i][p].result ELSE NullData])

\* What the exporters of a name that are in one stage exported together; those of
\* one name that are in different stages are left out: the later one's values take
\* the place of the earlier one's.
ExportersOf(r, v) == {k \in DOMAIN Staged(r).units : v \in Exports(Staged(r).units[k])}
TogetherExported(r) == ExportsOf(DocAt(r, r.i).exports, Payload(<<Value("obj", InOneGo(r, r.i))>>, {}), <<>>)
SeesTogether(r, k) ==
    LET u    == Staged(r).units[k]
        call == r.ran[r.i][u.path]
    IN  \A v \in u.reads \ (DOMAIN Item(r).vars \cup DOMAIN r.fed) :
            Cardinality({Staged(r).stage[e] : e \in ExportersOf(r, v)}) = 1 =>
                /\ (v \in DOMAIN call.seen) = (v \in DOMAIN TogetherExported(r))
                /\ v \in DOMAIN call.seen => call.seen[v] = TogetherExported(r)[v]

\* Operations that were just called.
Bound(r) == {k \in DOMAIN Staged(r).units : LET p == Staged(r).units[k].path
                                            IN  p \in DOMAIN r.running /\ r.running[p].at = "bind"}

\* A document that was run in stages answers as if it had been run in one go: the
\* data of every operation under its key, in the order of the document, and the
\* failed ones null; on the way an operation sees what all the exporters of its
\* variables exported, each value once; and a response is called unmodified only
\* when it is what the client holds (staging.go pruneToStage, mergeStageResults,
\* appendOrdered, export.go collectExports, headers.go etagMatches).
StagedAsOne ==
    \A c \in Busy : LET r == requests[c] IN
        /\ RunIsOver(r) => \A i \in DOMAIN r.outs : Whole(r, i) =>
               r.outs[i] = Payload(<<Value("obj", InOneGo(r, i))>>,
                                   {p \in DOMAIN r.ran[i] : r.ran[i][p].outcome # "ok"})
        /\ r.pc = "call" => \A k \in Bound(r) : SeesTogether(r, k)
        /\ RunIsOver(r) /\ NotModified(r) => r.held[1].outs = r.outs

\* Operation e of the document at hand is over, or its stage was refused.
Over(r, e) ==
    LET path == Staged(r).units[e].path
        n    == Staged(r).stage[e]
    IN  /\ n < r.n
        /\ \/ path \in DOMAIN r.ran[r.i] /\ r.ran[r.i][path].outcome # "none"
           \/ r.payloads[n] = Refused("variables")

\* An operation is called once every exporter of a variable it reads is over, and
\* sees no export in place of a value that the client gave; and all of it by the
\* schema that the request met, whatever the caches hold (docs/gat.md "Dependent
\* operations"; staging.go planStages, gat.go run, gqlguard.go Plan, export.go
\* stagesFor, validation.go count).
ExportsSeen ==
  /\ OneSchema
  /\ \A c \in Busy : LET r == requests[c] IN r.pc = "call" =>
        \A k \in Bound(r) : \A v \in Staged(r).units[k].reads :
            /\ \A e \in ExportersOf(r, v) : Over(r, e)
            /\ v \in DOMAIN Item(r).vars => r.ran[r.i][Staged(r).units[k].path].seen[v] = Item(r).vars[v]

\* Nobody waits for an attribute that nobody fills any more, also when the filler
\* panics or its client goes away.
WaitsEnd ==
    \A c \in Busy : LET r == requests[c] IN r.pc = "call" =>
        \A p \in DOMAIN r.running : r.running[p].at = "wait" =>
            \/ r.attr \in {"ok", "failed"}
            \/ r.attr = "filling" /\ \E q \in DOMAIN r.running : r.running[q].at = "fill"

\* No request runs more than MaxOps operations, over all the documents of a
\* batch; a GET runs no mutation; operations on their own goroutines stay within
\* Parallel, with at most one more in place, and mutations run one at a time
\* (parallel.go, gqlguard.go countOperations, gat.go serveBatch).  And no operation
\* hangs in the wait for an attribute (attrs.go LockIfAbsentAndFill).
LimitsKept ==
  /\ WaitsEnd
  /\ \A c \in Busy : LET r == requests[c] IN
        /\ Cardinality(Started(r)) <= MaxOps
        /\ \A i \in DOMAIN r.ran : r.ran[i] # <<>> /\ r.req.method = "GET" => Documents[r.plans[i].plan[1].doc].kind = "query"
        /\ Cardinality(DOMAIN r.running) <= Parallel + 1
        /\ r.pc = "call" /\ DocOf(r).kind = "mutation" => Cardinality(DOMAIN r.running) <= 1
        /\ r.fills <= 1

\* The combined header promises no more than the header of each operation does.
CallsOf(r) == UNION {{r.ran[i][p] : p \in DOMAIN r.ran[i]} : i \in DOMAIN r.ran}
NoLooser(d, o) ==
    \/ "no-store" \in d.bans
    \/ /\ o.bans \subseteq d.bans \cup (IF "private" \in d.bans THEN {"proxy-revalidate"} ELSE {})
       /\ d.grants \subseteq o.grants
       /\ \A n \in DOMAIN o.ages \ Grace :
              (n \in DOMAIN d.ages /\ d.ages[n] <= o.ages[n]) \/ (n = "s-maxage" /\ "private" \in d.bans)
       /\ \A n \in DOMAIN d.ages \cap Grace : n \in DOMAIN o.ages /\ d.ages[n] <= o.ages[n]
CacheStrict(r) ==
    \A call \in CallsOf(r) :
        Reply(r).cc # None /\ call.outcome \in {"ok", "error"} =>
            \/ "no-store" \in Reply(r).cc[1].bans
            \/ /\ call.outcome = "ok" /\ Operations[call.op].headers.cc # None
               /\ NoLooser(Reply(r).cc[1], Operations[call.op].headers.cc[1])

\* The one response of several operations has the cookies of each that succeeded,
\* whatever order they finish in, and may not be cached longer or more widely than
\* any of them (cookies.go, headers.go).  An operation that panics or cannot be
\* bound does not take part in the headers.
HeadersCombined ==
    \A c \in Busy : RunIsOver(requests[c]) =>
        LET r == requests[c]
        IN  /\ ToSet(Reply(r).cookies)
                   = UNION {ToSet(Operations[call.op].cookies) : call \in {d \in CallsOf(r) : d.outcome = "ok"}}
            /\ CacheStrict(r)
===========================================================================
