---------------------------- MODULE AdminSurface ----------------------------
(***************************************************************************)
(* The administration of a gateway: the boot token it keeps in its data    *)
(* directory and the middleware that asks for it (gw/auth_admin.go,        *)
(* gw/auth_admin_delegate.go), and what stands behind it for agents: the   *)
(* MCP allowlist, edited on any gateway of a cluster through one key of a  *)
(* JetStream bucket (gw/mcp_config.go, gw/admin_huma.go), and the tools    *)
(* that show the schema through it (gw/mcp_tools.go, gw/mcp_server.go).    *)
(*                                                                         *)
(* Gateways crash and boot, also between creating the token's file and     *)
(* writing it; edits race on several gateways; a write may land although   *)
(* its answer is lost; watches break and start over; someone deletes or    *)
(* garbles the key with the tools of NATS.                                 *)
(***************************************************************************)
EXTENDS Naturals, Sequences, SequencesExt, FiniteSets

CONSTANTS
    Homes,         \* gateways
    Durable,       \* the gateways with a data directory
    SeedOf,        \* per gateway: the WithMCP* options, NoConfig without any
    NoConfig,      \* no allowlist; as a revision of the key, that it is deleted
    BadConfig,     \* a revision that is no MCPConfig
    Visits,        \* requests to the admin routes and the MCP mount
    Scenes,        \* the clusters, see Scene
    Services,      \* services of the schema, see Service
    CASAttempts,   \* attempts of clusterMutateMCPConfig
    MaxDrawn       \* bound: boot tokens generated

\* No gateway, no consent, no part of the allowlist.
Blank == ""

(***************************************************************************)
(* A request: a read that is public, one that is not (a POST, or a path    *)
(* WithDestructiveReads names), or an edit of the allowlist; what it asks  *)
(* to see (the path of an operation, <<t>> for a type), or the entry it    *)
(* adds or removes (none for auto_include).                                *)
(***************************************************************************)
Deed == [op: {"list", "search", "expand", "edit"}, public: BOOLEAN,
         part: {"include", "exclude", "auto", Blank}, on: BOOLEAN, entry: Seq(STRING)]

(***************************************************************************)
(* A service: its namespace, Internal, the paths of its operations (the    *)
(* namespace first) with the types each refers to, and the types each type *)
(* refers to.                                                              *)
(***************************************************************************)
IsService(s) ==
    /\ s.ns \in STRING /\ s.internal \in BOOLEAN
    /\ \A p \in DOMAIN s.refs : p \in Seq(STRING) /\ Len(p) >= 2 /\ Head(p) = s.ns /\ s.refs[p] \subseteq STRING
    /\ \A t \in DOMAIN s.uses : s.uses[t] \subseteq STRING

(***************************************************************************)
(* A cluster: whether the peer tracker runs, so that the allowlist is in   *)
(* the bucket; what each request may ask for, and of which gateway; what   *)
(* is put under the key from outside; and the bounds on crashes, on broken *)
(* watches and lost answers, and on revisions of the key.                  *)
(***************************************************************************)
Scene == [tracked: BOOLEAN, deeds: [Visits -> SUBSET Deed], sent: [Visits -> SUBSET Homes],
          strays: SUBSET {NoConfig, BadConfig}, crashes: Nat, breaks: Nat, revisions: Nat]

\* MCPConfig: its lists of globs.
Config == [auto: BOOLEAN, include: SUBSET Seq(STRING), exclude: SUBSET Seq(STRING)]

ASSUME AdminSurfaceAssumption ==
    /\ Durable \subseteq Homes /\ Scenes \subseteq Scene
    /\ \A g \in Homes : SeedOf[g] = NoConfig \/ SeedOf[g] \in Config
    /\ \A s \in Scenes : \A q \in Visits : \A d \in s.deeds[q] : d.op = "edit" => ~d.public /\ d.part # Blank
    /\ \A s \in Services : IsService(s)
    /\ {CASAttempts, MaxDrawn} \subseteq Nat

VARIABLES
    tokenFile,     \* per gateway: <data-dir>/admin-token: <<>>, <<0>> when empty, <<token>>
    booted,        \* per gateway: where New is
    adminToken,    \* per gateway: cfg.adminToken, 0 before
    drawn,         \* tokens generated so far
    learned,       \* history: per gateway, the token of its first finished boot
    scene,         \* the cluster
    allowLog,      \* the revisions of the bucket's key
    mcpConfig,     \* per gateway: its mirror of the allowlist
    mcpWatch,      \* per gateway: the next revision its watch delivers, 0 without one
    visit,         \* per request: see NoVisit
    crashed, broken   \* how often so far

bootVars == <<tokenFile, booted, adminToken, drawn, learned>>
mirrorVars == <<mcpConfig, mcpWatch>>
adminVars == <<bootVars, scene, allowLog, mirrorVars, visit, crashed, broken>>

EmptyConfig == [auto |-> FALSE, include |-> {}, exclude |-> {}]
NoVisit == [at |-> "idle", home |-> Blank, deed |-> {}, bearer |-> 0, via |-> Blank,
            seed |-> EmptyConfig, cur |-> EmptyConfig, rev |-> 0, nth |-> 0, sees |-> {}]

AdminInit ==
    /\ tokenFile = [g \in Homes |-> <<>>] /\ booted = [g \in Homes |-> "down"]
    /\ adminToken = [g \in Homes |-> 0] /\ drawn = 0 /\ learned = [g \in Homes |-> 0]
    /\ scene \in Scenes /\ allowLog = <<>>
    /\ mcpConfig = [g \in Homes |-> NoConfig] /\ mcpWatch = [g \in Homes |-> 0]
    /\ visit = [q \in Visits |-> NoVisit] /\ crashed = 0 /\ broken = 0

-----------------------------------------------------------------------------
(* Boot: loadOrGenerateAdminToken. *)

Boot(g, to) == booted' = [booted EXCEPT ![g] = to]

\* The gateway is up, with its seed for an allowlist; its operator reads the token.
Up(g, tok) ==
    /\ Boot(g, "up") /\ adminToken' = [adminToken EXCEPT ![g] = tok]
    /\ learned' = [learned EXCEPT ![g] = IF @ = 0 THEN tok ELSE @]
    /\ mcpConfig' = [mcpConfig EXCEPT ![g] = SeedOf[g]]

\* A token that was kept is loaded; an empty file is an error, New panics.
LoadToken(g) ==
    /\ booted[g] = "down" /\ g \in Durable /\ tokenFile[g] # <<>>
    /\ tokenFile[g][1] # 0
    /\ Up(g, tokenFile[g][1])
    /\ UNCHANGED <<scene, tokenFile, drawn, allowLog, mcpWatch, visit, crashed, broken>>

\* Without a data directory every boot has a token of its own.
GenerateToken(g) ==
    /\ booted[g] = "down" /\ drawn < MaxDrawn /\ drawn' = drawn + 1
    /\ \/ g \notin Durable /\ Up(g, drawn') /\ UNCHANGED tokenFile
       \/ /\ g \in Durable /\ tokenFile[g] = <<>>
          /\ Boot(g, "writing") /\ adminToken' = [adminToken EXCEPT ![g] = drawn']
          /\ tokenFile' = [tokenFile EXCEPT ![g] = <<0>>]
          /\ UNCHANGED <<learned, mcpConfig>>
    /\ UNCHANGED <<scene, allowLog, mcpWatch, visit, crashed, broken>>

WriteToken(g) ==
    /\ booted[g] = "writing"
    /\ tokenFile' = [tokenFile EXCEPT ![g] = <<adminToken[g]>>]
    /\ Up(g, adminToken[g])
    /\ UNCHANGED <<scene, drawn, allowLog, mcpWatch, visit, crashed, broken>>

Crash(g) ==
    /\ booted[g] # "down" /\ crashed < scene.crashes /\ crashed' = crashed + 1
    /\ Boot(g, "down") /\ adminToken' = [adminToken EXCEPT ![g] = 0]
    /\ mcpConfig' = [mcpConfig EXCEPT ![g] = NoConfig] /\ mcpWatch' = [mcpWatch EXCEPT ![g] = 0]
    /\ visit' = [q \in Visits |-> IF visit[q].home = g THEN NoVisit ELSE visit[q]]
    /\ UNCHANGED <<scene, tokenFile, drawn, learned, allowLog, broken>>

-----------------------------------------------------------------------------
(* AdminMiddleware. *)

Goes(q, v) == visit' = [visit EXCEPT ![q] = v]

checkBearerEqual(g, bearer) == bearer # 0 /\ bearer = adminToken[g]

\* OK accepts, DENIED refuses, anything else leaves it to the token.
consultAdminDelegate(g, bearer) ==
    {"delegate", "refused"} \cup {IF checkBearerEqual(g, bearer) THEN "bearer" ELSE "refused"}

\* A request comes with the token of some gateway, or none, and finds
\* _admin_auth/v1 registered with a live replica or not.  One that is refused
\* leaves nothing behind.
AdminMiddleware(q) ==
    /\ visit[q].at = "idle"
    /\ \E g \in scene.sent[q], d \in scene.deeds[q], bearer \in {0} \cup {learned[h] : h \in Homes}, delegate \in BOOLEAN :
        /\ booted[g] = "up"
        /\ \E via \in IF d.public THEN {"public"}
                      ELSE IF delegate THEN consultAdminDelegate(g, bearer)
                      ELSE {IF checkBearerEqual(g, bearer) THEN "bearer" ELSE "refused"} :
            /\ via # "refused"
            /\ Goes(q, [NoVisit EXCEPT !.at = "serving", !.home = g, !.deed = {d}, !.via = via,
                                       !.bearer = IF via = "bearer" THEN bearer ELSE 0])
    /\ UNCHANGED <<bootVars, scene, allowLog, mirrorVars, crashed, broken>>

-----------------------------------------------------------------------------
(* mutateMCPConfig. *)

ConfigOf(g) == IF mcpConfig[g] = NoConfig THEN EmptyConfig ELSE mcpConfig[g]

\* The edits of the admin routes; each is idempotent.
Edited(d, cfg) ==
    CASE d.part = "include" -> [cfg EXCEPT !.include = IF d.on THEN @ \cup {d.entry} ELSE @ \ {d.entry}]
      [] d.part = "exclude" -> [cfg EXCEPT !.exclude = IF d.on THEN @ \cup {d.entry} ELSE @ \ {d.entry}]
      [] d.part = "auto" -> [cfg EXCEPT !.auto = d.on]

Serving(q, op) == visit[q].at = "serving" /\ \E d \in visit[q].deed : d.op = op
DeedOf(q) == CHOOSE d \in visit[q].deed : TRUE

\* Standalone, under g.mu; in a cluster the local allowlist is kept as the seed
\* of the first write.
mutateMCPConfig(q) ==
    LET g == visit[q].home IN
        /\ Serving(q, "edit")
        /\ IF scene.tracked THEN /\ Goes(q, [visit[q] EXCEPT !.at = "get", !.via = Blank, !.bearer = 0, !.seed = ConfigOf(g), !.nth = 1])
                             /\ UNCHANGED mcpConfig
           ELSE mcpConfig' = [mcpConfig EXCEPT ![g] = Edited(DeedOf(q), ConfigOf(g))] /\ Goes(q, NoVisit)
        /\ UNCHANGED <<bootVars, scene, allowLog, mcpWatch, crashed, broken>>

Absent == allowLog # <<>> => Last(allowLog) = NoConfig

\* A revision as it is read: one that cannot be read starts over.
Decoded(rev) == IF rev = BadConfig THEN EmptyConfig ELSE rev

\* tryMutateMCPConfig: what the key holds, the seed without it.
Get(q) ==
    /\ visit[q].at = "get"
    /\ Goes(q, [visit[q] EXCEPT !.at = "write", !.rev = IF Absent THEN 0 ELSE Len(allowLog),
                    !.cur = Edited(DeedOf(q), IF Absent THEN visit[q].seed ELSE Decoded(Last(allowLog)))])
    /\ UNCHANGED <<bootVars, scene, allowLog, mirrorVars, crashed, broken>>

\* Another attempt, or an error when none is left.
Again_(v) == IF v.nth < CASAttempts THEN [v EXCEPT !.at = "get", !.nth = @ + 1] ELSE NoVisit

\* Create fails when there is a key, Update when it is at another revision; the
\* answer to one that landed may be lost.
Lands(v) == IF v.rev = 0 THEN Absent ELSE v.rev = Len(allowLog)
Write(q) ==
    /\ visit[q].at = "write"
    /\ Len(allowLog) < scene.revisions
    /\ \/ /\ Lands(visit[q]) /\ allowLog' = Append(allowLog, visit[q].cur)
          /\ Goes(q, NoVisit) /\ UNCHANGED broken
       \/ /\ Lands(visit[q]) /\ allowLog' = Append(allowLog, visit[q].cur)
          /\ broken < scene.breaks /\ broken' = broken + 1
          /\ Goes(q, Again_(visit[q]))
       \/ /\ ~Lands(visit[q])
          /\ Goes(q, Again_(visit[q])) /\ UNCHANGED <<allowLog, broken>>
    /\ UNCHANGED <<bootVars, scene, mirrorVars, crashed>>

\* Someone deletes the key, or puts under it what is no MCPConfig.
Stray ==
    /\ scene.tracked /\ Len(allowLog) < scene.revisions
    /\ \E rev \in scene.strays : allowLog' = Append(allowLog, rev)
    /\ UNCHANGED <<bootVars, scene, mirrorVars, visit, crashed, broken>>

-----------------------------------------------------------------------------
(* mcpConfigWatchLoop. *)

\* The bucket keeps one value per key: a watch starts with the last.
WatchOpens(g) ==
    /\ scene.tracked /\ booted[g] = "up" /\ mcpWatch[g] = 0
    /\ mcpWatch' = [mcpWatch EXCEPT ![g] = IF allowLog = <<>> THEN 1 ELSE Len(allowLog)]
    /\ UNCHANGED <<bootVars, scene, allowLog, mcpConfig, visit, crashed, broken>>

\* A deleted key leaves no allowlist; a value that cannot be read is passed over.
WatchDelivers(g) ==
    /\ mcpWatch[g] \in DOMAIN allowLog
    /\ mcpConfig' = [mcpConfig EXCEPT ![g] = IF allowLog[mcpWatch[g]] = BadConfig THEN @ ELSE allowLog[mcpWatch[g]]]
    /\ mcpWatch' = [mcpWatch EXCEPT ![g] = @ + 1]
    /\ UNCHANGED <<bootVars, scene, allowLog, visit, crashed, broken>>

WatchBreaks(g) ==
    /\ mcpWatch[g] # 0 /\ broken < scene.breaks /\ broken' = broken + 1
    /\ mcpWatch' = [mcpWatch EXCEPT ![g] = 0]
    /\ UNCHANGED <<bootVars, scene, allowLog, mcpConfig, visit, crashed>>

-----------------------------------------------------------------------------
(* The allowlist and the tools. *)

\* globMatchSegments: m[i] has the positions from which the rest of the path
\* matches the rest of the pattern; path.Match on one segment is "*" or a name.
globMatchSegments(pats, segs) ==
    LET m[i \in 1..(Len(pats) + 1)] ==
            IF i > Len(pats) THEN {Len(segs) + 1}
            ELSE IF pats[i] = "**" THEN {j \in 1..(Len(segs) + 1) : \E k \in m[i + 1] : j <= k}
            ELSE {j \in 1..Len(segs) : pats[i] \in {"*", segs[j]} /\ j + 1 \in m[i + 1]}
    IN  1 \in m[1]

Hidden == {s.ns : s \in {t \in Services : t.internal}}

mcpAllows(cfg, p) ==
    /\ p # <<>> /\ Head(p) \notin Hidden
    /\ IF cfg.auto THEN \A x \in cfg.exclude : ~globMatchSegments(x, p)
       ELSE \E x \in cfg.include : globMatchSegments(x, p)

\* walkServiceOps.
PathsOf(s) == IF s.internal THEN {} ELSE DOMAIN s.refs
AllPaths == UNION {PathsOf(s) : s \in Services}

\* walkTypeClosure: the types reached from some, that the service has.
TypesFrom(s, start) ==
    LET r[n \in 0..Cardinality(DOMAIN s.uses)] ==
            IF n = 0 THEN start \cap DOMAIN s.uses
            ELSE r[n - 1] \cup (UNION {s.uses[t] : t \in r[n - 1]} \cap DOMAIN s.uses)
    IN  r[Cardinality(DOMAIN s.uses)]

Answers(q, sees) ==
    /\ Goes(q, [NoVisit EXCEPT !.at = "done", !.deed = visit[q].deed, !.cur = ConfigOf(visit[q].home), !.sees = sees])
    /\ UNCHANGED <<bootVars, scene, allowLog, mirrorVars, crashed, broken>>

mcpSchemaList(q) ==
    /\ Serving(q, "list")
    /\ Answers(q, {p \in AllPaths : mcpAllows(ConfigOf(visit[q].home), p)})

\* Narrowed by a glob; a regular expression would narrow it further.
mcpSchemaSearch(q) ==
    /\ Serving(q, "search")
    /\ Answers(q, {p \in AllPaths : mcpAllows(ConfigOf(visit[q].home), p) /\ globMatchSegments(DeedOf(q).entry, p)})

\* A type of the service, by its name.
Named(s, entry) == {t \in DOMAIN s.uses : <<t>> = entry}

\* An operation, if the allowlist has it, with every type it leads to; else, in
\* the public services and past the allowlist, a type with those it leads to.
mcpSchemaExpand(q) ==
    LET p == DeedOf(q).entry
        found == {s \in Services : p \in PathsOf(s)}
        typed == {s \in Services : s.ns \notin Hidden /\ Named(s, p) # {}}
    IN  /\ Serving(q, "expand")
        /\ \/ /\ found # {} /\ mcpAllows(ConfigOf(visit[q].home), p)
              /\ \E s \in found : Answers(q, {p} \cup {<<t>> : t \in TypesFrom(s, s.refs[p])})
           \/ /\ found = {}
              /\ \E s \in typed : Answers(q, {<<t>> : t \in TypesFrom(s, Named(s, p))})
           \/ /\ IF found = {} THEN typed = {} ELSE ~mcpAllows(ConfigOf(visit[q].home), p)
              /\ Answers(q, {})

\* The client is done with the answer.
VisitEnds(q) ==
    /\ visit[q].at = "done"
    /\ Goes(q, NoVisit)
    /\ UNCHANGED <<bootVars, scene, allowLog, mirrorVars, crashed, broken>>

-----------------------------------------------------------------------------
BootStep(g) == LoadToken(g) \/ GenerateToken(g) \/ WriteToken(g)
WatchStep(g) == WatchOpens(g) \/ WatchDelivers(g)
VisitStep(q) ==
    \/ AdminMiddleware(q) \/ mutateMCPConfig(q) \/ Get(q) \/ Write(q)
    \/ mcpSchemaList(q) \/ mcpSchemaSearch(q) \/ mcpSchemaExpand(q) \/ VisitEnds(q)

AdminNext ==
    \/ \E g \in Homes : BootStep(g) \/ WatchStep(g) \/ WatchBreaks(g) \/ Crash(g)
    \/ \E q \in Visits : VisitStep(q)
    \/ Stray

\* The watch loop runs on; nobody has to call.
AdminFairness == \A g \in Homes : WF_adminVars(WatchStep(g))
AdminSpec == AdminInit /\ [][AdminNext]_adminVars /\ AdminFairness

-----------------------------------------------------------------------------
\* What a glob means: its segments cut the path up, "**" taking any number.
Denotes(pats, segs) ==
    \E end \in [0..Len(pats) -> 0..Len(segs)] :
        /\ end[0] = 0 /\ end[Len(pats)] = Len(segs)
        /\ \A i \in 1..Len(pats) :
            IF pats[i] = "**" THEN end[i] >= end[i - 1]
            ELSE end[i] = end[i - 1] + 1 /\ pats[i] \in {"*", segs[end[i]]}

(***************************************************************************)
(* The token operators hold stays good: a gateway with a data directory    *)
(* comes back with the token of its first boot or not at all, wherever it  *)
(* crashed (auth_admin.go loadOrGenerateAdminToken).                       *)
(***************************************************************************)
TokensKept == \A g \in Durable : booted[g] = "up" => adminToken[g] = learned[g]

(***************************************************************************)
(* Nothing that is not public is served without that token or the          *)
(* delegate's consent, least of all what the delegate denied               *)
(* (AdminMiddleware).                                                      *)
(***************************************************************************)
ServedWithConsent ==
    \A q \in Visits : LET v == visit[q] IN v.at = "serving" =>
        \/ v.via = "delegate"
        \/ v.via = "public" /\ \A d \in v.deed : d.public
        \/ v.bearer # 0 /\ (v.home \in Durable => v.bearer = learned[v.home])

\* What the allowlist says of an operation.
Permits(cfg, p) ==
    /\ Head(p) \notin Hidden
    /\ IF cfg.auto THEN \A x \in cfg.exclude : ~Denotes(x, p) ELSE \E x \in cfg.include : Denotes(x, p)

\* A type of a public service that comes with the operation asked for, or with
\* the type asked for.
RidesAlong(cfg, entry, p) ==
    \E s \in Services : s.ns \notin Hidden /\
        \/ entry \in PathsOf(s) /\ Permits(cfg, entry) /\ \E t \in TypesFrom(s, s.refs[entry]) : p = <<t>>
        \/ \E t \in TypesFrom(s, Named(s, entry)) : p = <<t>>

(***************************************************************************)
(* A tool shows no operation the allowlist keeps back, nothing of an       *)
(* internal namespace, and a type only with an operation that is allowed   *)
(* or, which the allowlist has no say in, with a type that was asked for   *)
(* by its name (mcp_tools.go mcpSchemaExpand).                             *)
(***************************************************************************)
ToolsAllowed ==
    \A q \in Visits : LET v == visit[q] IN v.at = "done" => \A p \in v.sees :
        \/ p \in AllPaths /\ Permits(v.cur, p)
        \/ \E d \in v.deed : RidesAlong(v.cur, d.entry, p)

(***************************************************************************)
(* The allowlist gates every result (mcp_tools.go:17): whatever type is    *)
(* shown, an operation that is allowed leads to it.  It does not: a type   *)
(* asked for by its name is shown whatever the allowlist says.             *)
(***************************************************************************)
EveryResultGated ==
    \A q \in Visits : LET v == visit[q] IN v.at = "done" => \A p \in v.sees \ AllPaths :
        \E s \in Services : \E e \in PathsOf(s) : Permits(v.cur, e) /\ \E t \in TypesFrom(s, s.refs[e]) : p = <<t>>

(***************************************************************************)
(* No edit of the allowlist is lost to another: every revision a gateway   *)
(* writes is the one before it with one edit applied, unless the key was   *)
(* deleted in between (mcp_config.go tryMutateMCPConfig).                  *)
(***************************************************************************)
EditsKept ==
    \A i \in 2..Len(allowLog) : allowLog[i] \notin {NoConfig, BadConfig} /\ allowLog[i - 1] # NoConfig =>
        \E d \in UNION {scene.deeds[q] : q \in Visits} : d.op = "edit" /\ allowLog[i] = Edited(d, Decoded(allowLog[i - 1]))

\* All four: what the admin routes and the MCP tools promise.
AdminGuarded == TokensKept /\ ServedWithConsent /\ ToolsAllowed /\ EditsKept

(***************************************************************************)
(* An edit reaches every gateway: once the bucket no longer changes, each  *)
(* gateway that is up shows what it holds, if that can be read.            *)
(***************************************************************************)
EditsSpread ==
    \A g \in Homes : <>[](booted[g] = "up" /\ allowLog # <<>> /\ Last(allowLog) # BadConfig => mcpConfig[g] = Last(allowLog))
=============================================================================
