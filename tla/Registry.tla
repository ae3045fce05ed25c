------------------------------ MODULE Registry ------------------------------
(***************************************************************************)
(* The slot index of a gwag gateway (gw/slot.go): one slot for every       *)
(* (namespace, version) a service registers under, and the policy that     *)
(* decides whether a registration joins a slot, swaps it or is refused.    *)
(*                                                                         *)
(* Only constants and operators.  The standalone control plane             *)
(* (ControlPlane) and the cluster reconciler (Reconciler) keep a slot      *)
(* index as state and change it with these operators.                      *)
(***************************************************************************)
EXTENDS Naturals, FiniteSets

CONSTANTS
    Namespaces,    \* service namespaces
    MaxVN,         \* bound: the highest vN that is registered
    Specs,         \* what a binding brings: [kind, hash, caps] records
    Patterns,      \* channel patterns a proto file can declare
    PatternsOf,    \* the patterns declared by the file with a given hash
    BadSpecs,      \* specs that parse, but fail validation once the slot is taken
    Unbuildable,   \* specs that no schema can be rendered with
    AllowedTiers,  \* the --allow-tier policy: subset of {"unstable", "vN", "stable"}
    Reasons,       \* reasons an operator deprecates a service for
    NoReason,      \* the empty reason: not deprecated
    NoSlot         \* an absent entry of the slot index

Kinds == {"proto", "openapi", "graphql"}

(***************************************************************************)
(* The hash stands for the whole schema source, so the channel bindings    *)
(* extracted from a proto file are a function of it.                       *)
(***************************************************************************)
ASSUME RegistryAssumption ==
    /\ MaxVN \in Nat \ {0}
    /\ \A s \in Specs : s.kind \in Kinds /\ PatternsOf[s.hash] \subseteq Patterns
    /\ BadSpecs \subseteq {s \in Specs : s.kind # "proto"}
    /\ Unbuildable \subseteq Specs
    /\ NoReason \notin Reasons

(***************************************************************************)
(* Versions are numbers: n >= 1 is "vn" and 0 is "unstable", the encoding  *)
(* parseVersion returns.  "stable" is an alias, never a key.               *)
(***************************************************************************)
Versions == 0..MaxVN
Keys == Namespaces \X Versions
IsUnstable(k) == k[2] = 0

(***************************************************************************)
(* A slot: its schema source, the manual deprecation stamped on it and its *)
(* replicas.                                                               *)
(***************************************************************************)
SlotOf(Replica) == [spec: Specs, depr: Reasons \cup {NoReason}, replicas: SUBSET Replica]

LiveKeys(slots) == {k \in Keys : slots[k] # NoSlot}

Channels(spec) == IF spec.kind = "proto" THEN PatternsOf[spec.hash] ELSE {}

TierAllowed(k) == (IF IsUnstable(k) THEN "unstable" ELSE "vN") \in AllowedTiers

\* Mutation: only slots of the same version are looked at.
PatternConflictSameVersion(slots, k, spec) ==
    \E o \in LiveKeys(slots) \ {k} :
        o[2] = k[2] /\ Channels(slots[o].spec) \cap Channels(spec) # {}

\* Another slot already claims a channel pattern this spec declares.
PatternConflict(slots, k, spec) ==
    \E o \in LiveKeys(slots) \ {k} : Channels(slots[o].spec) \cap Channels(spec) # {}

\* The slot is there with the same kind, hash and caps: only a replica joins.
Existed(slots, k, spec) == slots[k] # NoSlot /\ slots[k].spec = spec

\* Mutation: the lock forgets to compare kind and caps.
LockedByHashOnly(slots, k, spec) ==
    slots[k] # NoSlot /\ slots[k].spec.hash # spec.hash /\ ~IsUnstable(k)

\* A vN slot is locked to the first spec registered under it.
Locked(slots, k, spec) ==
    slots[k] # NoSlot /\ slots[k].spec # spec /\ ~IsUnstable(k)

\* registerSlotLocked returns an error and changes no slot.
Rejected(slots, k, spec) ==
    \/ ~TierAllowed(k)
    \/ /\ ~Existed(slots, k, spec)
       /\ Locked(slots, k, spec) \/ PatternConflict(slots, k, spec)

(***************************************************************************)
(* An accepted join of replica r.  An existing slot only gains r.  A fresh *)
(* slot is stamped with the recorded deprecation; the slot an unstable     *)
(* swap installs over an evicted one is not.                               *)
(***************************************************************************)
JoinedSlot(slot, reason, spec, r) ==
    IF slot # NoSlot /\ slot.spec = spec
    THEN [slot EXCEPT !.replicas = @ \cup {r}]
    ELSE [spec |-> spec,
          depr |-> IF slot = NoSlot THEN reason ELSE NoReason,
          replicas |-> {r}]

Join(slots, deprecation, k, spec, r) ==
    [slots EXCEPT ![k] = JoinedSlot(@, deprecation[k], spec, r)]

\* What is left of a slot without the replicas in R; the last one releases it.
WithoutReplicas(slot, R) ==
    IF slot = NoSlot \/ slot.replicas \cap R = {} THEN slot
    ELSE IF slot.replicas \subseteq R THEN NoSlot
    ELSE [slot EXCEPT !.replicas = @ \ R]

RemoveReplicas(slots, R) == [k \in Keys |-> WithoutReplicas(slots[k], R)]

\* Slots that the removal empties; releaseSlotLocked also clears their rejections.
Released(slots, R) == {k \in LiveKeys(slots) : WithoutReplicas(slots[k], R) = NoSlot}

\* The stable alias follows the highest vN a slot was ever created for.
AdvanceStable(stable, k) ==
    [stable EXCEPT ![k[1]] = IF k[2] > @ THEN k[2] ELSE @]

(***************************************************************************)
(* The schema the renderer produces from the slot index: the services with *)
(* their deprecation, and per namespace the version its `stable` field     *)
(* aliases (0 when that version is not in the build, or the stable tier is *)
(* not allowed).  Assembly fails while an unrenderable spec is live.       *)
(***************************************************************************)
Buildable(slots) == \A k \in LiveKeys(slots) : slots[k].spec \notin Unbuildable

Render(slots, stable) ==
    [services |-> [k \in Keys |-> IF slots[k] = NoSlot THEN NoSlot
                                  ELSE [spec |-> slots[k].spec, depr |-> slots[k].depr]],
     stable   |-> [ns \in Namespaces |->
                     IF "stable" \in AllowedTiers /\ <<ns, stable[ns]>> \in LiveKeys(slots)
                     THEN stable[ns] ELSE 0]]

EmptyIndex == [k \in Keys |-> NoSlot]
=============================================================================
