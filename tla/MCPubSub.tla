------------------------------ MODULE MCPubSub ------------------------------
(***************************************************************************)
(* Instances of FailoverBus and of GatPubSub, checked side by side: the    *)
(* two have no state in common, so a behaviour is one of the one or the    *)
(* other.                                                                  *)
(***************************************************************************)
EXTENDS FailoverBus, GatPubSub, TLC

CONSTANTS na, nb, ea, va, vb

VARIABLE part

\* Two gateways that point at each other; the second one wants tokens.
Mutual == na :> {nb} @@ nb :> {na}
OneKey == na :> "key" @@ nb :> "key"
OnFirst == ea :> na
OneEach == va :> na @@ vb :> nb
Patterns == va :> <<"orders", ">">> @@ vb :> <<"orders", "*">>
\* An ordinary event, and one that only the first pattern covers and no peer takes.
TwoNotices == {[channel |-> <<"orders", "new">>, big |-> FALSE],
               [channel |-> <<"orders", "new", "all">>, big |-> TRUE]}

AllVars == <<part, fvars, pubsubVars>>
EitherInit == part \in {"gw", "gat"} /\ FInit /\ PubSubInit /\ (part = "gat" => status = "connected")
EitherNext == \/ part = "gw" /\ FNext /\ UNCHANGED <<part, pubsubVars>>
              \/ part = "gat" /\ PubSubNext /\ UNCHANGED <<part, fvars>>
Either == EitherInit /\ [][EitherNext]_AllVars
=============================================================================
