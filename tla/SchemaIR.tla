----------------------------- MODULE SchemaIR -----------------------------
(***************************************************************************)
(* The format-neutral schema representation of gw/ir: every ingester       *)
(* writes it and every renderer reads it.                                  *)
(*                                                                         *)
(* A name is a sequence of words: <<"Pet", "Owner">> is the identifier     *)
(* PetOwner and <<"greeter", "_", "hello">> is greeter_hello, so that      *)
(* names the code builds by concatenation can collide exactly as strings   *)
(* do.  The words ".", "-" and "_" stand for themselves; the letter case   *)
(* of a word is not modelled.  Descriptions, annotations and other text    *)
(* that only travels along are left out.                                   *)
(***************************************************************************)
EXTENDS Naturals, Sequences, FiniteSets, SequencesExt, FiniteSetsExt, TLC

--------------------------------------------------------------------------
(* Type references                                                         *)

\* A slot whose type no format-neutral shape describes (the zero TypeRef).
Unknown == [k |-> "unknown"]
Builtin(scalar) == [k |-> "builtin", scalar |-> scalar, as |-> ""]
NamedRef(name) == [k |-> "named", name |-> name]
MapRef(key, val) == [k |-> "map", key |-> key, val |-> val]
ListRef(elem, itemRequired) ==
    [k |-> "list", elem |-> elem, itemRequired |-> itemRequired]

\* The innermost non-list reference.
RECURSIVE Leaf(_)
Leaf(r) == IF r.k = "list" THEN Leaf(r.elem) ELSE r

\* Every type name a reference mentions.
RECURSIVE NamesIn(_)
NamesIn(r) ==
    CASE r.k = "named" -> {r.name}
      [] r.k = "map"   -> NamesIn(r.key) \cup NamesIn(r.val)
      [] r.k = "list"  -> NamesIn(r.elem)
      [] OTHER         -> {}

--------------------------------------------------------------------------
(* Fields, types, operations and services                                  *)

Field(name, type, required) ==
    [name |-> name, type |-> type, repeated |-> FALSE, required |-> required,
     itemRequired |-> FALSE, nullable |-> FALSE, number |-> 0, loc |-> ""]

Type(kind, fields, enum, variants) ==
    [kind |-> kind, fields |-> fields, enum |-> enum, variants |-> variants]
ObjectType(fields)  == Type("object", fields, <<>>, <<>>)
EnumType(values)    == Type("enum", <<>>, values, <<>>)
UnionType(variants) == Type("union", <<>>, <<>>, variants)

\* An operation; "out" is the sequence of its output slots, empty for void.
Operation(name, kind, args, out) ==
    [name |-> name, kind |-> kind, args |-> args, out |-> out,
     streamingClient |-> FALSE, method |-> "", path |-> <<>>, multipart |-> FALSE]

Service(ops, groups, types, origin) ==
    [ops |-> ops, groups |-> groups, types |-> types, origin |-> origin]

Group(name, kind, ops, groups) ==
    [name |-> name, kind |-> kind, ops |-> ops, groups |-> groups]

--------------------------------------------------------------------------
(* Nested namespaces, flattened for the formats that have none             *)

\* The operations below group g, each named by its path joined with "_".
RECURSIVE FlattenGroup(_, _)
FlattenGroup(g, prefix) ==
    LET pre == prefix \o g.name \o <<"_">>
    IN  [i \in DOMAIN g.ops |-> [g.ops[i] EXCEPT !.name = pre \o @]]
            \o FlattenSeq([i \in DOMAIN g.groups |-> FlattenGroup(g.groups[i], pre)])

FlatOperations(svc) ==
    svc.ops \o FlattenSeq([i \in DOMAIN svc.groups |-> FlattenGroup(svc.groups[i], <<>>)])

--------------------------------------------------------------------------
(* What a service mentions                                                 *)

SlotNames(slots) == UNION {NamesIn(slots[i].type) : i \in DOMAIN slots}

TypeNames(t) == SlotNames(t.fields) \cup ToSet(t.variants)

OpNames(op) == SlotNames(op.args) \cup SlotNames(op.out)

Mentioned(svc) ==
    LET flat == FlatOperations(svc)
    IN  UNION {OpNames(flat[i]) : i \in DOMAIN flat}
            \cup UNION {TypeNames(svc.types[n]) : n \in DOMAIN svc.types}
===========================================================================
