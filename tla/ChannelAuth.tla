----------------------------- MODULE ChannelAuth ----------------------------
(***************************************************************************)
(* The pub/sub primitive ps.pub / ps.sub (gw/pubsub.go): the tier a        *)
(* channel or a wildcard asks for (gw/auth_channel.go), its HMAC token     *)
(* (gw/auth_subscribe.go, gw/auth_signer.go), the _pubsub_auth delegate    *)
(* (gw/auth_channel_delegate.go), and the payload type that the channel    *)
(* bindings of the registered slots stamp on an event                      *)
(* (gw/channel_bindings.go).                                               *)
(*                                                                         *)
(* A call may wait for the delegate while tokens age, slots come and go,   *)
(* and the delegate itself is registered or lost.  How the bus and the     *)
(* broker deliver is FailoverBus and SubBroker; here an event reaches all  *)
(* matching subscriptions at once.  An HMAC is the record of what it       *)
(* signs: nobody forges one.                                               *)
(***************************************************************************)
EXTENDS Naturals, Sequences, SequencesExt, FiniteSets

CONSTANTS
    Postures,      \* the gateways, see Posture
    Senders,       \* clients of ps.pub
    Watchers,      \* clients of ps.sub
    Subjects,      \* channels that are published to: sequences of segments
    Asked,         \* patterns and channels that are subscribed to
    Kids,          \* key ids of tokens, "" for none
    Callers_,      \* bearers presented to SignSubscriptionToken
    Owners,        \* slots that may declare channel bindings
    BindingsOf,    \* per slot: its bindings, [pattern, type] in order
    Declares,      \* per slot: the messages of its proto file
    Bodies,        \* payloads, each the set of types it parses as
    TokenSkew,     \* SkewWindow, in ticks
    MaxSigned,     \* bound: tokens handed out
    MaxTicks       \* bound: ticks

Open == 0
HMAC == 1
Delegate == 2

(***************************************************************************)
(* The options of a gateway: WithChannelAuth rules in order, the kids      *)
(* lookupSecret finds, Insecure, WithStrictPayloadTypes,                   *)
(* WithChannelBindingEnforce, and the bearers that may sign: the signer    *)
(* secret and the admin token.                                             *)
(***************************************************************************)
Posture == [rules: Seq([pattern: Seq(STRING), tier: {Open, HMAC, Delegate}]), kids: SUBSET Kids,
            insecure: BOOLEAN, strict: BOOLEAN, enforce: BOOLEAN, signers: SUBSET Callers_]

\* validChannelAuthPattern, which New panics on.
validChannelAuthPattern(p) == /\ \A i \in DOMAIN p : p[i] # "" /\ (p[i] = ">" => i = Len(p))
                              /\ p # <<>>

\* An event without a type; no message has that name.
Untyped == ""

ASSUME ChannelAuthAssumption ==
    /\ Postures \subseteq Posture
    /\ \A g \in Postures : \A i \in DOMAIN g.rules : validChannelAuthPattern(g.rules[i].pattern)
    /\ Subjects \cup Asked \subseteq Seq(STRING)
    /\ \A s \in Owners \cup {"ps"} : Untyped \notin Declares[s]
    /\ {TokenSkew, MaxSigned, MaxTicks} \subseteq Nat

VARIABLES
    posture,      \* the options
    ticks,        \* the clock
    signed,       \* tokens handed out: [kid, channel, ts]
    delegate,     \* _pubsub_auth/v1 is registered with a live replica
    slotted,      \* slots of g.slots that may declare bindings
    bindIndex,    \* channelBindingIndex: entries in order
    calling,      \* per party: its call, see Call
    watching,     \* per party: its open subscription, as the call that opened it
    latest        \* history: the event that the last step put on the bus, by which
                  \* call, and the subscriptions it reached
channelVars == <<posture, ticks, signed, delegate, slotted, bindIndex, calling, watching, latest>>

NoSignature == [kid |-> "", channel |-> <<>>, ts |-> 0]
\* A call: the request, where it is, and what was established on the way.
NoCall_ == [op |-> "none", channel |-> <<>>, body |-> {}, verified |-> FALSE, consulted |-> FALSE, at |-> "idle"]

\* rebuildChannelBindingIndexLocked ranges over a map: any order of the slots.
Entry(s, b) == [pattern |-> b.pattern, type |-> b.type, of |-> s]
EntriesOf(s) == [i \in DOMAIN BindingsOf[s] |-> Entry(s, BindingsOf[s][i])]
Rebuilt(S) == {FlattenSeq([i \in DOMAIN order |-> EntriesOf(order[i])]) : order \in SetToSeqs(S)}
Known(S, type) == \E s \in S : type \in Declares[s]

\* New: the ps slot is there, with the runtime bindings.
ChannelInit ==
    /\ posture \in Postures /\ ticks = 0 /\ signed = {} /\ delegate \in BOOLEAN
    /\ slotted = {"ps"} /\ bindIndex = EntriesOf("ps")
    /\ calling = [p \in Senders \cup Watchers |-> NoCall_] /\ watching = [p \in Watchers |-> NoCall_]
    /\ latest = {}

-----------------------------------------------------------------------------
(* Patterns.  Wild: strings.ContainsAny(channel, "*>"). *)

Wild(c) == \E i \in DOMAIN c : c[i] \in {"*", ">"}

subjectMatchesPattern(p, c) ==
    /\ \A i \in DOMAIN p : \/ p[i] = ">" /\ i = Len(p) /\ i <= Len(c)
                           \/ p[i] # ">" /\ i <= Len(c) /\ p[i] \in {"*", c[i]}
    /\ Last(p) # ">" => Len(c) = Len(p)

\* The positions both patterns have.
Shared(a, b) == DOMAIN a \cap DOMAIN b

\* Both loops walk the tokens from the left and stop at the first ">" .
patternsIntersect(a, b) ==
    LET agree(i) == "*" \in {a[i], b[i]} \/ a[i] = b[i]
    IN  \/ \E i \in Shared(a, b) : ">" \in {a[i], b[i]} /\ \A j \in 1..(i - 1) : agree(j)
        \/ Len(a) = Len(b) /\ \A i \in DOMAIN a : agree(i)

patternCovers(a, b) ==
    LET takes(i) == b[i] # ">" /\ (a[i] = "*" \/ (b[i] # "*" /\ a[i] = b[i]))
    IN  \/ \E i \in Shared(a, b) : a[i] = ">" /\ \A j \in 1..(i - 1) : takes(j)
        \/ Len(a) = Len(b) /\ \A i \in DOMAIN a : takes(i)

Strictest(S) == CHOOSE t \in S : \A u \in S : u <= t

\* The first rule that matches a channel, the default without one.
FirstHit(c) ==
    LET hits == {i \in DOMAIN posture.rules : subjectMatchesPattern(posture.rules[i].pattern, c)}
    IN  IF hits = {} THEN HMAC ELSE posture.rules[CHOOSE i \in hits : \A j \in hits : i <= j].tier

\* Mutation: any rule that meets the wildcard counts as covering it.
MeetingCovers(c, wildcard) ==
    LET rules == {posture.rules[i] : i \in DOMAIN posture.rules}
        reached == {r \in rules : patternsIntersect(r.pattern, c)}
    IN  IF ~wildcard THEN FirstHit(c) ELSE IF reached = {} THEN HMAC ELSE Strictest({r.tier : r \in reached})

\* A wildcard asks for the strictest rule it reaches, and for the default
\* unless one rule covers it.
resolveChannelTier(c, wildcard) ==
    LET rules == {posture.rules[i] : i \in DOMAIN posture.rules}
        reached == {r \in rules : patternsIntersect(r.pattern, c)}
        covered == \E r \in reached : patternCovers(r.pattern, c)
    IN  IF ~wildcard THEN FirstHit(c)
        ELSE Strictest({Open} \cup {r.tier : r \in reached} \cup (IF covered THEN {} ELSE {HMAC}))

-----------------------------------------------------------------------------
(* Tokens. *)

\* The bearer is the signer secret or the admin token, or the call is the embedder's own.
checkSignAuth(bearer) == bearer \in posture.signers
lookupSecret(kid) == kid \in posture.kids

\* The MAC is over the key id, the channel and the time, so a token is these.
SignSubscribeTokenWithKid(kid, c) == [kid |-> kid, channel |-> c, ts |-> ticks]

\* In insecure mode nothing is signed.
SignSubscriptionToken(bearer, kid, c) ==
    /\ checkSignAuth(bearer) /\ Cardinality(signed) < MaxSigned
    /\ c # <<>> /\ ~posture.insecure /\ lookupSecret(kid)
    /\ signed' = signed \cup {SignSubscribeTokenWithKid(kid, c)}
    /\ latest' = {} /\ UNCHANGED <<posture, ticks, delegate, slotted, bindIndex, calling, watching>>

\* The token is one this gateway's unkeyed secret signed for the string that was
\* asked for, and neither too old nor too new.
verifyChannelHMAC(c, t) ==
    /\ lookupSecret("")
    /\ t # NoSignature /\ t.kid = "" /\ t.channel = c
    /\ t.ts + TokenSkew >= ticks /\ t.ts <= ticks + TokenSkew

-----------------------------------------------------------------------------
(* ps.pub and ps.sub. *)

Calls(p, call) == calling' = [calling EXCEPT ![p] = call]

\* checkChannelAuth up to the delegate: the call is refused, goes on, or waits.
\* A delegate that is not registered leaves it to the token.
checkChannelAuth(p, op, c, body, t) ==
    LET tier == resolveChannelTier(c, op = "sub" /\ Wild(c))
        ok == verifyChannelHMAC(c, t)
        call(at) == [op |-> op, channel |-> c, body |-> body, verified |-> ok, consulted |-> tier = Delegate, at |-> at]
    IN  \/ tier = Open /\ Calls(p, call("passed"))
        \/ tier # Open /\ posture.insecure /\ Calls(p, call("passed"))
        \/ tier # Open /\ ~posture.insecure /\ ~ok /\ Calls(p, NoCall_)
        \/ /\ tier # Open /\ ~posture.insecure /\ ok
           /\ Calls(p, call(IF tier = Delegate /\ delegate THEN "delegate" ELSE "passed"))

\* An empty channel, and a wildcard on publish, are errors before any check.
psPubEnters(p) ==
    /\ calling[p].at = "idle"
    /\ \E c \in Subjects, body \in Bodies, t \in signed \cup {NoSignature} :
        /\ c # <<>> /\ ~Wild(c)
        /\ checkChannelAuth(p, "pub", c, body, t)
    /\ latest' = {} /\ UNCHANGED <<posture, ticks, signed, delegate, slotted, bindIndex, watching>>

psSubEnters(p) ==
    /\ calling[p].at = "idle" /\ watching[p] = NoCall_
    /\ \E c \in Asked, t \in signed \cup {NoSignature} :
        c # <<>> /\ checkChannelAuth(p, "sub", c, {}, t)
    /\ latest' = {} /\ UNCHANGED <<posture, ticks, signed, delegate, slotted, bindIndex, watching>>

\* consultPubSubDelegate: only DENIED refuses; OK, any other code, an error and
\* the three-second timeout let the verified token stand.
consultPubSubDelegate(p) ==
    /\ calling[p].at = "delegate"
    /\ \E denied \in BOOLEAN : Calls(p, IF denied THEN NoCall_ ELSE [calling[p] EXCEPT !.at = "passed"])
    /\ latest' = {} /\ UNCHANGED <<posture, ticks, signed, delegate, slotted, bindIndex, watching>>

\* lookupBinding: the first entry of the index that matches; NoEntry_ without one.
NoEntry_ == [pattern |-> <<>>, type |-> Untyped, of |-> ""]
lookupBinding(c) ==
    LET hits == {i \in DOMAIN bindIndex : subjectMatchesPattern(bindIndex[i].pattern, c)}
    IN  IF hits = {} THEN NoEntry_ ELSE bindIndex[CHOOSE i \in hits : \A j \in hits : i <= j]

\* A type no registered file declares is not checked.
validatePayload(e, body) == e = NoEntry_ \/ ~Known(slotted, e.type) \/ e.type \in body

\* psPub goes on: it is refused for its payload, or reaches every subscription.
psPub(p) ==
    LET call == calling[p]
        e == lookupBinding(call.channel)
        ev == [channel |-> call.channel, body |-> call.body, type |-> e.type,
               checked |-> posture.enforce /\ Known(slotted, e.type), by |-> call,
               reached |-> {watching[q] : q \in {r \in Watchers : watching[r] # NoCall_ /\
                                subjectMatchesPattern(watching[r].channel, call.channel)}}]
    IN  /\ call.at = "passed" /\ call.op = "pub"
        /\ Calls(p, NoCall_)
        /\ IF (e.type = Untyped /\ posture.strict) \/ (posture.enforce /\ ~validatePayload(e, call.body))
           THEN latest' = {} ELSE latest' = {ev}
        /\ UNCHANGED <<posture, ticks, signed, delegate, slotted, bindIndex, watching>>

psSub(p) ==
    /\ calling[p].at = "passed" /\ calling[p].op = "sub"
    /\ watching' = [watching EXCEPT ![p] = calling[p]] /\ Calls(p, NoCall_)
    /\ latest' = {} /\ UNCHANGED <<posture, ticks, signed, delegate, slotted, bindIndex>>

\* The context ends and the broker's subscription is released.
psSubEnds(p) ==
    /\ watching[p] # NoCall_ /\ watching' = [watching EXCEPT ![p] = NoCall_]
    /\ latest' = {} /\ UNCHANGED <<posture, ticks, signed, delegate, slotted, bindIndex, calling>>

-----------------------------------------------------------------------------
(* The registry underneath. *)

\* checkCrossSlotBindingsLocked: no pattern that another slot has.
Claims(s) == {BindingsOf[s][i].pattern : i \in DOMAIN BindingsOf[s]}
SlotJoins(s) ==
    /\ s \notin slotted
    /\ \A other \in slotted : Claims(other) \cap Claims(s) = {}
    /\ slotted' = slotted \cup {s} /\ bindIndex' \in Rebuilt(slotted')
    /\ latest' = {} /\ UNCHANGED <<posture, ticks, signed, delegate, calling, watching>>

SlotLeaves(s) ==
    /\ s \in slotted \ {"ps"}
    /\ slotted' = slotted \ {s} /\ bindIndex' \in Rebuilt(slotted')
    /\ latest' = {} /\ UNCHANGED <<posture, ticks, signed, delegate, calling, watching>>

\* The delegate's service registers, or its last replica goes.
DelegateChanges ==
    /\ delegate' = ~delegate
    /\ latest' = {} /\ UNCHANGED <<posture, ticks, signed, slotted, bindIndex, calling, watching>>

TokensAge ==
    /\ ticks < MaxTicks /\ ticks' = ticks + 1
    /\ latest' = {} /\ UNCHANGED <<posture, signed, delegate, slotted, bindIndex, calling, watching>>

ChannelNext ==
    \/ \E b \in Callers_, k \in Kids, c \in Asked \cup Subjects : SignSubscriptionToken(b, k, c)
    \/ \E p \in Senders : psPubEnters(p) \/ psPub(p)
    \/ \E p \in Watchers : psSubEnters(p) \/ psSub(p) \/ psSubEnds(p)
    \/ \E p \in Senders \cup Watchers : consultPubSubDelegate(p)
    \/ \E s \in Owners : SlotJoins(s) \/ SlotLeaves(s)
    \/ DelegateChanges \/ TokensAge

ChannelSpec == ChannelInit /\ [][ChannelNext]_channelVars

-----------------------------------------------------------------------------
\* What the tier of a channel asks of a call that reaches it.
Cleared(call, c) ==
    \/ posture.insecure \/ FirstHit(c) = Open
    \/ call.verified /\ (FirstHit(c) = Delegate => call.consulted)

(***************************************************************************)
(* "wildcard subs can't leak events from a stricter pattern through a      *)
(* permissive one" (WithChannelAuth): whoever publishes an event, and      *)
(* whoever receives one, literally or through a wildcard, passed what the  *)
(* first rule on that very channel asks for, the default where there is    *)
(* none; and the type an event carries is one its body was checked         *)
(* against, whatever slots came and went while it was under way.           *)
(***************************************************************************)
ChannelsGuarded ==
    \A ev \in latest : /\ \A call \in ev.reached \cup {ev.by} : Cleared(call, ev.channel)
                       /\ posture.strict => ev.type # Untyped
                       /\ ev.checked => ev.type \in ev.body
=============================================================================
