---------------------------- MODULE MCAdmission -----------------------------
(***************************************************************************)
(* Instances of Admission, ChannelAuth and AdminSurface, checked side by   *)
(* side: they have no state in common, so a behaviour is one of one of     *)
(* them.                                                                   *)
(***************************************************************************)
EXTENDS Admission, ChannelAuth, AdminSurface, TLC

CONSTANTS r1, r2, r3, r4, t1, t2

VARIABLE part

\* Admission.
Mixed == r1 :> t1 @@ r2 :> t1 @@ r3 :> t2 @@ r4 :> Nobody

\* A fresh signature, an old one, and one of an unknown key.
Signatures == r1 :> [kid |-> "k1", ts |-> 1, good |-> TRUE]
           @@ r2 :> [kid |-> "k1", ts |-> 0, good |-> TRUE]
           @@ r3 :> [kid |-> "k2", ts |-> 0, good |-> TRUE]
           @@ r4 :> [kid |-> "k2", ts |-> 0, good |-> FALSE]

Setup(c, e, q, x, rs) ==
    [caller |-> c, enforce |-> e, quota |-> q, exchange |-> x, clients |-> rs]

\* One gate at a time, and the chain behind the extractor that keeps no state.
EachGate == {Setup("delegated", TRUE, FALSE, FALSE, {r1, r2}),
             Setup("none", FALSE, TRUE, FALSE, {r1, r2}),
             Setup("none", FALSE, FALSE, TRUE, {r1, r2, r3}),
             Setup("public", TRUE, FALSE, FALSE, Requests),
             Setup("hmac", TRUE, TRUE, TRUE, {r2, r3}),
             Setup("delegated", TRUE, FALSE, TRUE, {r3}),
             Setup("delegated", FALSE, FALSE, TRUE, {r4})}

\* ChannelAuth: rules that overlap, a default, no enforcement, no secret, a keyed one.
Rule(p, t) == [pattern |-> p, tier |-> t]
Base(rules) == [rules |-> rules, kids |-> {""}, insecure |-> FALSE, strict |-> FALSE, enforce |-> TRUE, signers |-> {"signer"}]
SomePostures ==
    {Base(<<Rule(<<"a", "*">>, Open), Rule(<<"a", ">">>, Delegate)>>),
     Base(<<Rule(<<"a", "b">>, Open), Rule(<<"c", ">">>, Delegate)>>),
     [Base(<<Rule(<<"a", "b">>, Delegate), Rule(<<">">>, Open)>>) EXCEPT !.strict = TRUE, !.enforce = FALSE],
     [Base(<<Rule(<<">">>, Delegate)>>) EXCEPT !.insecure = TRUE],
     [Base(<<Rule(<<"a", "b">>, HMAC), Rule(<<">">>, Open)>>) EXCEPT !.kids = {"k"}]}
SomeSubjects == {<<"a", "b">>, <<"a", "b", "c">>, <<"a", "*">>}
SomeAsked == {<<"a", "b">>, <<"a", "*">>, <<"a", ">">>, <<>>}
Binding(p, t) == [pattern |-> p, type |-> t]
SomeBindings == "ps" :> <<Binding(<<"a", "b">>, "T"), Binding(<<"a", ">">>, "X")>>
             @@ "s" :> <<Binding(<<"a", "*">>, "T")>> @@ "r" :> <<Binding(<<"a", "*">>, "U")>>
SomeDeclares == "ps" :> {} @@ "s" :> {"T"} @@ "r" :> {"U"}

\* AdminSurface: gateway "a" keeps its token and has a seed.  Edits that race,
\* with broken watches; a crash with an edit under way; a gateway on its own; a
\* key that is deleted or garbled.
Seeds == "a" :> [EmptyConfig EXCEPT !.include = {<<"pets", "**">>}] @@ "b" :> NoConfig
Edit(what, on, entry) == [op |-> "edit", public |-> FALSE, part |-> what, on |-> on, entry |-> entry]
Look(op, public, entry) == [op |-> op, public |-> public, part |-> "", on |-> FALSE, entry |-> entry]
Listing == Edit("include", TRUE, <<"**", "list">>)
NoGets == Edit("exclude", TRUE, <<"*", "get", "**">>)
Apart == "v1" :> {"a"} @@ "v2" :> {"b"}
Anywhere == "v1" :> Homes @@ "v2" :> Homes
Cluster(tracked, v1, v2, sent, crashes, breaks, revisions) ==
    [tracked |-> tracked, deeds |-> ("v1" :> v1 @@ "v2" :> v2), sent |-> sent, strays |-> {},
     crashes |-> crashes, breaks |-> breaks, revisions |-> revisions]
SomeScenes ==
    {Cluster(TRUE, {Listing}, {NoGets}, Apart, 0, 1, 2),
     Cluster(TRUE, {Listing}, {Look("list", TRUE, <<>>)}, Anywhere, 1, 0, 2),
     Cluster(FALSE, {NoGets, Edit("auto", TRUE, <<>>)}, {Look("search", FALSE, <<"pets", "*">>)}, Anywhere, 1, 0, 0),
     Cluster(FALSE, {Edit("include", FALSE, <<"pets", "**">>)}, {Look("expand", FALSE, e) : e \in {<<"pets", "get">>, <<"Pet">>, <<"None">>}}, Anywhere, 2, 0, 0),
     [Cluster(TRUE, {Listing}, {}, Apart, 0, 0, 3) EXCEPT !.strays = {NoConfig, BadConfig}]}
SomeServices ==
    {[ns |-> "pets", internal |-> FALSE, refs |-> (<<"pets", "list">> :> {"Page"} @@ <<"pets", "get">> :> {"Pet"}),
      uses |-> ("Page" :> {"Pet"} @@ "Pet" :> {"Page"})],
     [ns |-> "admin", internal |-> TRUE, refs |-> (<<"admin", "list">> :> {}), uses |-> ("None" :> {})]}

AllVars == <<part, vars, channelVars, adminVars>>
EitherInit == /\ part \in {"admission", "channels", "surface"} /\ Init /\ ChannelInit /\ AdminInit
              /\ part # "admission" => setup = CHOOSE s \in Setups : TRUE
              /\ part # "channels" => posture = (CHOOSE g \in Postures : TRUE) /\ delegate
              /\ part # "surface" => scene = CHOOSE s \in Scenes : TRUE
EitherNext == \/ part = "admission" /\ Next /\ UNCHANGED <<part, channelVars, adminVars>>
              \/ part = "channels" /\ ChannelNext /\ UNCHANGED <<part, vars, adminVars>>
              \/ part = "surface" /\ AdminNext /\ UNCHANGED <<part, vars, channelVars>>

\* Fairness and AdminFairness, each where its part is what runs.
FairParts == /\ WF_vars(part = "admission" /\ Gates) /\ WF_vars(part = "admission" /\ Identify)
             /\ WF_vars(part = "admission" /\ Debit) /\ WF_vars(part = "admission" /\ Exchange)
             /\ \A g \in Homes : WF_adminVars(part = "surface" /\ WatchStep(g))
Either == EitherInit /\ [][EitherNext]_AllVars /\ FairParts

\* Nobody gets past a check.  A subscriber sees, and a publisher writes, only what
\* the rule on that very channel asks for, also through a wildcard (auth_channel.go
\* checkChannelAuth); the admin token survives a restart and guards what is not
\* public, racing edits of the MCP allowlist are all kept, and agents see only the
\* operations it allows, and types with them or by name (auth_admin.go
\* AdminMiddleware, mcp_config.go mutateMCPConfig, mcp_tools.go mcpSchemaExpand);
\* and no exchanged token is kept past its end (token_exchange.go exchange).
AccessGuarded == ChannelsGuarded /\ AdminGuarded /\ CachedTokensGood

\* What is under way comes to an end: every request is let through or refused, no
\* waiter left behind in a singleflight (caller_id_delegated.go, quota.go,
\* token_exchange.go), and an edit of the MCP allowlist reaches every gateway that
\* is up (mcp_config.go mcpConfigWatchLoop).
Settles == (part = "admission" => Answered) /\ EditsSpread
=============================================================================
