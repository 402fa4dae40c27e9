--------------------------------- MODULE Layout ---------------------------------
(***************************************************************************)
(* The wire layout of a lowered schema (uju-protoc/src/ir/wire.rs): sizes,  *)
(* the slots of an object, the tag of a union, how a sequence lays out its  *)
(* items, ids, and what fingerprints cover.                                 *)
(*                                                                         *)
(* A size is Fixed(n) or Var(max), where max is None when only the size of  *)
(* a message bounds it.  A width is its number of bytes.                    *)
(***************************************************************************)
EXTENDS SchemaIR

MaxSize == MaxOf(2)       \* u16::MAX
U32Max == MaxOf(4)

Fixed(n) == [fixed |-> TRUE, max |-> Some(n)]
Var(max) == [fixed |-> FALSE, max |-> max]

Total(seq) == FoldLeft(LAMBDA a, b : a + b, 0, seq)
CeilDiv(a, b) == (a + b - 1) \div b
AtLeastZero(n) == IF n < 0 THEN 0 ELSE n        \* saturating_sub
UpToU32(n) == IF n > U32Max THEN U32Max ELSE n  \* saturating_mul, min(u32::MAX)

(* Width::of *)
WidthOf(max) ==
  CASE max <= MaxOf(1) -> 1
    [] MaxOf(1) < max /\ max <= MaxOf(2) -> 2
    [] MaxOf(2) < max /\ max <= MaxOf(4) -> 4
    [] OTHER -> 8

(* bound: a size beyond a message bounds nothing. *)
Bound(size) == IF size <= MaxSize THEN Some(size) ELSE None
BoundOf(max) == IF max = None THEN None ELSE Bound(max[1])

(* Width::length *)
WidthLength(max) == WidthOf(IF max = None THEN MaxSize ELSE max[1])

(* An Int::of that looks at the highest value alone. *)
IntOfHighest(node) ==
  LET least == IF node.cons.min = None THEN IntMin(node.k) ELSE node.cons.min[1]
      most == IF node.cons.max = None THEN IntMax(node.k) ELSE node.cons.max[1]
      width == WidthOf(most)
  IN IF width < IntBytes[node.k]
     THEN [biased |-> TRUE, min |-> least, width |-> width]
     ELSE [biased |-> FALSE, min |-> 0, width |-> IntBytes[node.k]]

(* Int::of: the lowest value, and the width; biased by the lowest value when *)
(* the bounds fit a narrower width than the declared one.                    *)
IntOf(node) ==
  LET least == IF node.cons.min = None THEN IntMin(node.k) ELSE node.cons.min[1]
      most == IF node.cons.max = None THEN IntMax(node.k) ELSE node.cons.max[1]
      width == WidthOf(most - least)
  IN IF width < IntBytes[node.k]
     THEN [biased |-> TRUE, min |-> least, width |-> width]
     ELSE [biased |-> FALSE, min |-> 0, width |-> IntBytes[node.k]]

-----------------------------------------------------------------------------
(* The sum of both maxima, when both are bounded. *)
SumMax(a, b) == IF None \in {a, b} THEN None ELSE Some(a[1] + b[1])

(* type_size, for what takes a number of bytes of its own. *)
ScalarSize(node) ==
  IF node.k \in IntKinds THEN Fixed(IntOf(node).width) ELSE Fixed(ScalarBytes[node.k])

BytesVary(node) == Var(BoundOf(node.cons.maxLen))   \* No fixed length.

BytesSize(node) ==
  IF FixedLength(node.cons) # None THEN Fixed(FixedLength(node.cons)[1])
  ELSE Var(BoundOf(node.cons.maxLen))

(* type_size of an array of len items of a size. *)
ArraySize(size, len) ==
  IF size.fixed THEN Fixed(UpToU32(size.max[1] * len))
  ELSE Var(IF size.max = None THEN None ELSE Bound(size.max[1] * len))

(* The size of a map's entry: the key, then the value. *)
EntrySize(key, value) ==
  LET sum == SumMax(key.max, value.max)
  IN IF key.fixed /\ value.fixed THEN Fixed(UpToU32(sum[1])) ELSE Var(BoundOf(sum))

(* sequence: how items of a size are laid out. *)
Sequence(node, size) ==
  LET count == WidthLength(BoundOf(node.cons.maxLen))
  IN CASE size.fixed /\ size.max[1] = 0 -> [form |-> "counted", count |-> count]
       [] size.fixed /\ size.max[1] # 0 -> [form |-> "packed", item |-> size.max[1]]
       [] OTHER -> [form |-> "prefixed", count |-> count, prefix |-> WidthLength(size.max)]

(* sequence_max *)
SequenceMax(node, size) ==
  LET seq == Sequence(node, size)
      count == node.cons.maxLen[1]
  IN CASE seq.form = "counted" -> Some(seq.count)
       [] seq.form # "counted" /\ node.cons.maxLen = None -> None
       [] seq.form = "packed" /\ node.cons.maxLen # None -> Bound(count * seq.item)
       [] OTHER ->
            IF size.max = None THEN None
            ELSE Bound(seq.count + count * size.max[1] + AtLeastZero(count - 1) * seq.prefix)

-----------------------------------------------------------------------------
(* The sum of the largest sizes of the fields in S; 0 for an unbounded one. *)
SumOfMax(S, sizes) ==
  FoldSet(LAMBDA k, sum : sum + (IF sizes[k].max = None THEN 0 ELSE sizes[k].max[1]), 0, S)

(* The bits a field takes in the bitmap. *)
FieldBits(defs, field) ==
  LET bool == Root(Resolved(defs, field.ty)).k = "bool"
  IN CASE bool /\ field.optional -> 2
       [] bool # field.optional -> 1
       [] OTHER -> 0

(* Builder::layout of fields with those sizes.  Optional fields of a fixed  *)
(* size follow the head, those of a varying size have a slot of the var     *)
(* section; all its boundaries but one are in the head.                     *)
ObjectLayout(defs, fields, sizes) ==
  LET dom == DOMAIN fields
      bool == {k \in dom : Root(Resolved(defs, fields[k].ty)).k = "bool"}
      var == {k \in dom \ bool : ~sizes[k].fixed}
      opt == {k \in dom \ (bool \cup var) : fields[k].optional}
      at == dom \ (bool \cup var \cup opt)
      Sum(S) == SumOfMax(S, sizes)
      bitBefore == [k \in dom |-> Total([j \in 1..(k - 1) |-> FieldBits(defs, fields[j])])]
      bitmap == CeilDiv(Total([k \in dom |-> FieldBits(defs, fields[k])]), Bits)
      boundaries == bitmap + Sum(at)
      count == AtLeastZero(Cardinality(var) - 1)
      bounded == \A k \in var : sizes[k].max # None
      narrow == IF bounded THEN Bound(boundaries + count + Sum(opt) + Sum(var)) ELSE None
      boundary == WidthLength(narrow)
      head == boundaries + count * boundary
      presence(k) == IF fields[k].optional THEN Some(bitBefore[k]) ELSE None
  IN [size |-> IF var \cup opt = {} THEN Fixed(UpToU32(head))
               ELSE Var(IF bounded THEN Bound(head + Sum(opt) + Sum(var)) ELSE None),
      bitmap |-> bitmap, boundaries |-> boundaries, boundary |-> boundary,
      head |-> head, vars |-> Cardinality(var),
      slots |->
        [k \in dom |->
           CASE k \in bool -> [slot |-> "bit", presence |-> presence(k),
                               at |-> bitBefore[k] + (IF fields[k].optional THEN 1 ELSE 0)]
             [] k \in at -> [slot |-> "at", presence |-> None,
                             at |-> bitmap + Sum({j \in at : j < k})]
             [] k \in opt -> [slot |-> "optional", presence |-> presence(k), at |-> 0]
             [] k \in var -> [slot |-> "var", presence |-> presence(k),
                              at |-> Cardinality({j \in var : j < k})]]]

(* Builder::union: behind the tag, the largest variant bounds it. *)
UnionTag(def) == WidthOf(Len(def.variants))

UnionSize(def, sizes) ==
  LET maxes == {sizes[v].max : v \in DOMAIN sizes}
  IN Var(IF None \in maxes THEN None
         ELSE Bound(UnionTag(def) + Max({0} \cup {m[1] : m \in maxes})))

(* type_size: the size of a part of a type, given the sizes of what it is   *)
(* made of and of the declarations.                                         *)
PartSize(sizes, ty, size, p) ==
  LET node == ty[p]
      first == size[p \o <<1>>]
  IN CASE node.k \in ScalarKinds -> ScalarSize(node)
       [] node.k \in {"string", "bytes"} -> BytesSize(node)
       [] node.k = "array" -> ArraySize(first, node.len)
       [] node.k \in {"vec", "set"} -> Var(SequenceMax(node, first))
       [] node.k = "map" -> Var(SequenceMax(node, EntrySize(first, size[p \o <<2>>])))
       [] node.k = "named" -> sizes[node.id]

PartSizes(sizes, ty) ==
  LET size[p \in DOMAIN ty] == PartSize(sizes, ty, size, p) IN size

TypeSize(sizes, ty) == PartSizes(sizes, ty)[<<>>]

FieldSizes(sizes, fields) == [k \in DOMAIN fields |-> TypeSize(sizes, fields[k].ty)]

LayoutOf(defs, sizes, fields) == ObjectLayout(defs, fields, FieldSizes(sizes, fields))

(* Builder::def: the size of a declaration, given those of what it names. *)
VariantSize(defs, sizes, data) ==
  CASE data.form = "unit" -> Fixed(0)
    [] data.form = "type" -> TypeSize(sizes, data.ty)
    [] data.form = "fields" -> LayoutOf(defs, sizes, data.fields).size

DefSize(defs, sizes, def) ==
  CASE def.tag = "enum" -> Fixed(IntBytes[def.repr])
    [] def.tag \in {"struct", "message", "hub"} -> LayoutOf(defs, sizes, def.fields).size
    [] def.tag = "union" ->
         UnionSize(def, [v \in DOMAIN def.variants |->
                           VariantSize(defs, sizes, def.variants[v].data)])
    [] def.tag = "type" -> TypeSize(sizes, def.target)

(* Builder::build: no declaration contains itself, so each size is found. *)
DefSizes(defs) ==
  LET sizes[id \in DOMAIN defs] == DefSize(defs, sizes, defs[id]) IN sizes

-----------------------------------------------------------------------------
(* oversized: a part of a type, of fixed size, that no message holds; an     *)
(* array is looked at as a whole.                                            *)
Oversized(sizes, ty) ==
  \E p \in DOMAIN ty :
    /\ ty[p].k \notin {"named", "vec", "set", "map"}
    /\ \A n \in 1..Len(p) : ty[SubSeq(p, 1, n - 1)].k # "array"
    /\ LET size == PartSizes(sizes, ty)[p] IN size.fixed /\ size.max[1] > MaxSize

(* The field lists a declaration lays out as objects. *)
Objects(def) ==
  CASE def.tag \in {"struct", "message", "hub"} -> {def.fields}
    [] def.tag = "union" ->
         {def.variants[v].data.fields :
            v \in {w \in DOMAIN def.variants : def.variants[w].data.form = "fields"}}
    [] OTHER -> {}

(* The errors of Builder::def: a field, a variant's data or a key that is   *)
(* too large, or a head whose fields are not.                               *)
TooLarge(defs, sizes, def) ==
  \/ /\ def.tag # "type"
     /\ \E ty \in BodyTypes(def) : Oversized(sizes, ty)
  \/ def.tag = "hub" /\ Oversized(sizes, def.key)
  \/ \E fields \in Objects(def) :
       /\ LayoutOf(defs, sizes, fields).head > MaxSize
       /\ \A k \in DOMAIN fields : ~Oversized(sizes, fields[k].ty)

(* The errors of Wire::new: an id, from 1, takes two bytes, of a message    *)
(* among those between two roles and of a hub kind among all.               *)
TooMany(defs) ==
  LET messages == OfTag(defs, "message")
  IN \/ \E pair \in UNION {DOMAIN defs[id].links : id \in messages} :
          Cardinality({id \in messages : pair \in DOMAIN defs[id].links}) > MaxOf(2)
     \/ Cardinality(OfTag(defs, "hub")) > MaxOf(2)

-----------------------------------------------------------------------------
(* Wire::space: the messages that link two roles, in id order from 1. *)
Space(nss, defs, from, to) ==
  ByName(nss, defs, {id \in OfTag(defs, "message") : <<from, to>> \in DOMAIN defs[id].links})

(* Wire::hubs: the hub kinds, in id order from 1. *)
Hubs(nss, defs) == ByName(nss, defs, OfTag(defs, "hub"))

(* client_listed: the messages with a client end, the hub kinds they name,  *)
(* and what those reach; of a hub kind, what its key reaches.               *)
ClientLinks(def) == {pair \in DOMAIN def.links : "client" \in {pair[1], pair[2]}}

ClientRoots(defs) ==
  LET messages == {id \in OfTag(defs, "message") : ClientLinks(defs[id]) # {}}
      linked(id) == UNION {LET link == defs[id].links[pair]
                           IN Range(link.fromKinds) \cup Range(link.toKind) : pair \in ClientLinks(defs[id])}
  IN messages \cup UNION {linked(id) : id \in messages}

ReachesBodies(defs, id) == UNION {Refs(ty) : ty \in BodyTypes(defs[id])}

Reaches(defs, id) ==
  UNION {Refs(ty) : ty \in IF defs[id].tag = "hub" THEN {defs[id].key} ELSE BodyTypes(defs[id])}

ClientListed(defs) == Closure([id \in DOMAIN defs |-> Reaches(defs, id)], ClientRoots(defs))

(* type_name: a type with qualified names for what it names. *)
Spelled(nss, defs, ty) ==
  [p \in DOMAIN ty |-> IF ty[p].k = "named"
                       THEN [ty[p] EXCEPT !.id = Qualified(nss, defs, @)] ELSE ty[p]]

SpelledFields(nss, defs, fields) ==
  [k \in DOMAIN fields |-> [fields[k] EXCEPT !.ty = Spelled(nss, defs, @)]]

SpelledKinds(nss, defs, kinds) == [k \in DOMAIN kinds |-> Qualified(nss, defs, kinds[k])]

(* What a line of canonical says of a declaration, its name aside. *)
Canonical(nss, defs, id, scope) ==
  LET def == defs[id]
      shown == IF scope = "client" THEN ClientLinks(def) ELSE DOMAIN def.links
  IN CASE def.tag = "enum" -> <<def.tag, def.repr, def.variants>>
       [] def.tag = "struct" -> <<def.tag, SpelledFields(nss, defs, def.fields)>>
       [] def.tag = "message" ->
            <<def.tag,
              [pair \in shown |->
                 [fromKinds |-> SpelledKinds(nss, defs, def.links[pair].fromKinds),
                  toKind |-> SpelledKinds(nss, defs, def.links[pair].toKind)]],
              SpelledFields(nss, defs, def.fields)>>
       [] def.tag = "hub" ->
            <<def.tag, Spelled(nss, defs, def.key),
              IF scope = "client" THEN <<>> ELSE SpelledFields(nss, defs, def.fields)>>
       [] def.tag = "union" ->
            <<def.tag,
              [v \in DOMAIN def.variants |->
                 LET data == def.variants[v].data
                 IN <<def.variants[v].name,
                      CASE data.form = "unit" -> <<>>
                        [] data.form = "type" -> <<Spelled(nss, defs, data.ty)>>
                        [] data.form = "fields" -> SpelledFields(nss, defs, data.fields)>>]>>
       [] def.tag = "type" -> <<def.tag, Spelled(nss, defs, def.target)>>

ConstQualified(nss, defs, item) ==
  (IF item.parent = 0 THEN nss[item.ns] ELSE Qualified(nss, defs, item.parent)) \o <<item.name>>

(* The text a fingerprint hashes; the hash tells any two apart. *)
Fingerprint(nss, defs, consts, scope) ==
  LET order == ByName(nss, defs, IF scope = "client" THEN ClientListed(defs) ELSE DOMAIN defs)
      name(k) == ConstQualified(nss, defs, consts[k])
      constOrder == Sorted({<<name(k), k>> : k \in DOMAIN consts})
  IN <<[k \in DOMAIN order |->
          <<Qualified(nss, defs, order[k]), Canonical(nss, defs, order[k], scope)>>],
       [k \in DOMAIN constOrder |->
          <<name(constOrder[k]), consts[constOrder[k]].ty, consts[constOrder[k]].value>>]>>
=============================================================================
