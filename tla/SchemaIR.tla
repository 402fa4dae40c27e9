------------------------------- MODULE SchemaIR -------------------------------
(***************************************************************************)
(* The lowered schema of the compiler (uju-protoc/src/ir.rs).              *)
(*                                                                         *)
(* A type is a tree: a function from the positions of its parts to nodes.  *)
(* A position is the way there: 1 leads to the item of an array, a vec or a *)
(* set and to the key of a map, 2 to the value of a map.  A node is a       *)
(* record: its kind k, what else the kind holds (len, id) and its           *)
(* constraints cons.  A declaration is a record with a tag, its namespace,  *)
(* its parent (0 for none), its name and what the tag holds.  An option is  *)
(* a sequence of at most one element.                                       *)
(*                                                                         *)
(* A byte has Bits bits, 8 in the code: every limit follows from it, so a  *)
(* small Bits brings all of them within reach.                             *)
(***************************************************************************)
EXTENDS Integers, Sequences, FiniteSets, SequencesExt

CONSTANTS Bits,      \* The bits of a byte.
          Alphabet   \* The names a schema may use, as a sequence, in text order.

ASSUME BitsAssumption == Bits \in Nat \ {0}
ASSUME AlphabetAssumption == Alphabet \in Seq(Range(Alphabet)) /\ IsInjective(Alphabet)

None == <<>>
Some(x) == <<x>>

(* f, and g where f has nothing. *)
OrElse(f, g) ==
  [x \in DOMAIN f \cup DOMAIN g |-> IF x \in DOMAIN f THEN f[x] ELSE g[x]]

(* Role, in canonical order. *)
Roles == <<"client", "entry", "edge", "sim", "hub">>

-----------------------------------------------------------------------------
(* The integer types: their bytes, and their range. *)
IntBytes ==
  [i8 |-> 1, i16 |-> 2, i32 |-> 4, i64 |-> 8,
   u8 |-> 1, u16 |-> 2, u32 |-> 4, u64 |-> 8]

IntKinds == DOMAIN IntBytes
Signed == {"i8", "i16", "i32", "i64"}
FloatKinds == {"f32", "f64"}

(* The bytes of the other scalars outside a bitmap. *)
ScalarBytes ==
  [bool |-> 1, f32 |-> 4, f64 |-> 8, timestamp |-> 8, duration |-> 8,
   entity |-> 8, uentity |-> 12, uuid |-> 16]

ScalarKinds == IntKinds \cup DOMAIN ScalarBytes
LengthKinds == {"string", "bytes", "vec", "set", "map"}

PowerOfTwo[n \in Nat] == IF n = 0 THEN 1 ELSE 2 * PowerOfTwo[n - 1]

(* The largest number of n bytes. *)
MaxOf(n) == PowerOfTwo[n * Bits] - 1

IntMin(k) == IF k \in Signed THEN -PowerOfTwo[IntBytes[k] * Bits - 1] ELSE 0
IntMax(k) == IF k \in Signed THEN PowerOfTwo[IntBytes[k] * Bits - 1] - 1
             ELSE MaxOf(IntBytes[k])

(* EnumRepr *)
EnumReprs == {"u8", "u16", "u32", "u64"}

(* DefKind, VariantData *)
DefTags == {"enum", "struct", "message", "union", "type", "hub"}
DataForms == {"unit", "type", "fields"}

-----------------------------------------------------------------------------
(* Constraints::default *)
NoCons ==
  [min |-> None, max |-> None, minLen |-> None, maxLen |-> None,
   infinite |-> FALSE, nan |-> FALSE]

(* Constraints::fixed_length *)
FixedLength(cons) ==
  IF cons.minLen # None /\ cons.minLen = cons.maxLen THEN cons.minLen ELSE None

-----------------------------------------------------------------------------
Root(ty) == ty[<<>>]

(* A type of one node. *)
Leaf(node) == [p \in {<<>>} |-> node]

(* Type::from *)
Plain(k) == Leaf([k |-> k, cons |-> NoCons])
Named(id) == Leaf([k |-> "named", id |-> id, cons |-> NoCons])

(* A type of a node and of what it is made of. *)
Made(node, parts) ==
  [p \in {<<>>} \cup UNION {{<<i>> \o q : q \in DOMAIN parts[i]} : i \in DOMAIN parts} |->
     IF p = <<>> THEN node ELSE parts[Head(p)][Tail(p)]]

(* The part of a type at a position, and all of its parts. *)
PartAt(ty, p) ==
  LET below == {q \in DOMAIN ty : IsPrefix(p, q)}
  IN [q \in {SubSeq(r, Len(p) + 1, Len(r)) : r \in below} |-> ty[p \o q]]

ItemOf(ty) == PartAt(ty, <<1>>)    \* Of a map, the key.
MapValueOf(ty) == PartAt(ty, <<2>>)

Parts(ty) == {PartAt(ty, p) : p \in DOMAIN ty}

Kinds == ScalarKinds \cup {"string", "bytes", "array", "vec", "set", "map", "named"}

(* How many types a type of a kind is made of. *)
Arity(k) ==
  CASE k \in {"array", "vec", "set"} -> 1
    [] k = "map" -> 2
    [] OTHER -> 0

(* The positions of a type are those its kinds call for. *)
IsTree(ty) ==
  /\ IsFiniteSet(DOMAIN ty) /\ DOMAIN ty \subseteq Seq({1, 2}) /\ <<>> \in DOMAIN ty
  /\ \A p \in DOMAIN ty :
       /\ ty[p].k \in Kinds
       /\ p # <<>> => SubSeq(p, 1, Len(p) - 1) \in DOMAIN ty
       /\ \A i \in {1, 2} : p \o <<i>> \in DOMAIN ty <=> i <= Arity(ty[p].k)

(* refs, named: the declarations a type names, also through collections. *)
Refs(ty) == {node.id : node \in {n \in Range(ty) : n.k = "named"}}

FieldTypes(fields) == {fields[k].ty : k \in DOMAIN fields}

(* The types a declaration's fields, variants or target have. *)
BodyTypes(def) ==
  CASE def.tag \in {"struct", "message", "hub"} -> FieldTypes(def.fields)
    [] def.tag = "union" ->
         UNION {LET data == def.variants[v].data IN
                CASE data.form = "type" -> {data.ty}
                  [] data.form = "fields" -> FieldTypes(data.fields)
                  [] OTHER -> {}
                : v \in DOMAIN def.variants}
    [] def.tag = "type" -> {def.target}
    [] OTHER -> {}

(* Those, and the key of a hub kind. *)
TypesOf(def) == BodyTypes(def) \cup (IF def.tag = "hub" THEN {def.key} ELSE {})

(* What visit goes into. *)
DirectRefs(def) == UNION {Refs(ty) : ty \in BodyTypes(def)}

(* What is reached from some declarations by following references, they     *)
(* included.                                                                *)
Closure(refs, ids) ==
  LET reached[S \in SUBSET DOMAIN refs] ==
        LET next == S \cup UNION {refs[id] : id \in S}
        IN IF next = S THEN S ELSE reached[next]
  IN reached[ids]

OfTag(defs, tag) == {id \in DOMAIN defs : defs[id].tag = tag}

-----------------------------------------------------------------------------
(* Schema::path, Schema::qualified: the segments of the namespace, of the   *)
(* enclosing declarations and the name.  In text they are joined with dots. *)
Qualified(nss, defs, id) ==
  LET path[i \in DOMAIN defs] ==
        (IF defs[i].parent = 0 THEN nss[defs[i].ns] ELSE path[defs[i].parent]) \o <<defs[i].name>>
  IN path[id]

(* The order of qualified names as text: that of their segments, since a dot *)
(* sorts before whatever a name is made of.                                 *)
NameRank(name) == CHOOSE k \in DOMAIN Alphabet : Alphabet[k] = name

TextBefore(p, q) ==
  \E k \in DOMAIN q :
    /\ \A j \in 1..(k - 1) : j \in DOMAIN p /\ p[j] = q[j]
    /\ k \in DOMAIN p => NameRank(p[k]) < NameRank(q[k])

(* What has names, as <<name, index>>, in the order of the names.  The sort  *)
(* is stable: what has one name stays in the order of the indices.           *)
Before(a, b) == TextBefore(a[1], b[1]) \/ (a[1] = b[1] /\ a[2] < b[2])

Sorted(named) ==
  LET place == {<<Cardinality({b \in named : Before(b, a)}) + 1, a[2]>> : a \in named}
  IN [k \in 1..Cardinality(named) |-> (CHOOSE placed \in place : placed[1] = k)[2]]

(* Declarations by qualified name. *)
ByName(nss, defs, ids) == Sorted({<<Qualified(nss, defs, id), id>> : id \in ids})

-----------------------------------------------------------------------------
(* Schema::resolved: through any number of `type`s to what they stand for;  *)
(* at most as many as there are declarations, so that a cycle ends too.     *)
NamesAType(defs, ty) == Root(ty).k = "named" /\ defs[Root(ty).id].tag = "type"

Resolved(defs, ty) ==
  LET behind[n \in 0..Len(defs)] ==
        [id \in DOMAIN defs |->
           LET target == defs[id].target
           IN IF n > 0 /\ NamesAType(defs, target) THEN behind[n - 1][Root(target).id] ELSE target]
  IN IF NamesAType(defs, ty) THEN behind[Len(defs)][Root(ty).id] ELSE ty

(* Schema::is_fixed; a declaration that is being visited counts as fixed. *)
FixedNode(node) ==
  /\ node.k \in {"string", "bytes"} => FixedLength(node.cons) # None
  /\ node.k \notin {"vec", "set", "map"}

FixedType(ty, named) ==
  /\ \A p \in DOMAIN ty : FixedNode(ty[p])
  /\ \A id \in Refs(ty) : named[id]

FixedField(defs, field, named) ==
  /\ field.optional => Root(Resolved(defs, field.ty)).k = "bool"
  /\ FixedType(field.ty, named)

(* is_fixed_in of a declaration, given it of those it names. *)
FixedDef(defs, def, visited, named) ==
  CASE def.tag = "enum" -> TRUE
    [] def.tag \in {"message", "union"} -> FALSE
    [] def.tag = "type" -> visited \/ FixedType(def.target, named)
    [] def.tag \in {"struct", "hub"} ->
         visited \/ \A k \in DOMAIN def.fields : FixedField(defs, def.fields[k], named)

IsFixed(defs, ty) ==
  LET fixed[id \in DOMAIN defs] ==
        [visiting \in SUBSET DOMAIN defs |->
           FixedDef(defs, defs[id], id \in visiting,
                    [other \in DirectRefs(defs[id]) |-> fixed[other][visiting \cup {id}]])]
  IN FixedType(ty, [id \in Refs(ty) |-> fixed[id][{}]])
=============================================================================
