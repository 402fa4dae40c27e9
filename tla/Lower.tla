--------------------------------- MODULE Lower ---------------------------------
(***************************************************************************)
(* Lowering parsed sources into the schema the backends work from           *)
(* (uju-protoc/src/ir/lower.rs): every name is resolved and every           *)
(* declaration is validated.                                               *)
(*                                                                         *)
(* What is written is a type as in SchemaIR, but for its nodes: a "named"   *)
(* one has a path; cons is the sequence of written constraints [name,       *)
(* value]; and options are the options written around the part, outermost  *)
(* first, each as the sequence of its constraints.  A number is written as  *)
(* [lit, value] with lit "int" or "float".                                 *)
(*                                                                         *)
(* Each construct has an operator for what it is lowered to and one for the *)
(* errors it reports.  An error is its kind: where it is reported is left   *)
(* out, and so is its wording.                                             *)
(***************************************************************************)
EXTENDS Names, Layout, Cycles

CONSTANTS Schemas,       \* The sources that may be compiled: families of sequences of them.
          FloatLimit,    \* The largest finite magnitude of each kind of float.
          MaxDuration,   \* MAX_DURATION_MICROS
          MaxVariants    \* MAX_VARIANTS

ASSUME LowerAssumption ==
  /\ DOMAIN FloatLimit = FloatKinds
  /\ MaxDuration \in Nat
  /\ MaxVariants \in Nat \ {0}

(* What the parser makes sure of. *)
Parsed(text) ==
  /\ text \in Seq(Range(text))
  /\ \A source \in Range(text) :
       /\ source.ns \in Seq(Range(Alphabet))
       /\ source.uses \in Seq(Range(source.uses))
       /\ source.items \in Seq(Range(source.items))
       /\ \A j \in DOMAIN source.items :
            LET item == source.items[j] IN
            /\ item.name \in Range(Alphabet)
            /\ item.within \in 0..(j - 1)
            /\ item.tag \in DefTags \cup {"const"}
            /\ item.tag = "union" =>
                 \A v \in DOMAIN item.variants : item.variants[v].data.form \in DataForms
            /\ item.tag \in {"struct", "message", "hub"} => item.fields \in Seq(Range(item.fields))
            /\ item.tag = "enum" =>
                 /\ item.variants \in Seq(Range(item.variants))
                 /\ \A variant \in Range(item.variants) :
                      variant.value # None => variant.value[1] \in Int
            /\ \A ty \in TypesOf(item) :
                 /\ IsTree(ty)
                 /\ \A node \in Range(ty) : \A con \in Range(node.cons) :
                      con.value # None => con.value[1].value \in Int

ASSUME SchemasAssumption == \A family \in Schemas : \A text \in family : Parsed(text)

Error(condition, kind) == IF condition THEN {kind} ELSE {}

(* The elements that have an equal one before them. *)
Repeats(seq) == {k \in DOMAIN seq : \E j \in 1..(k - 1) : seq[j] = seq[k]}

NamesOf(items) == [k \in DOMAIN items |-> items[k].name]

-----------------------------------------------------------------------------
(* constraint_class *)
Class(k) ==
  CASE k \in IntKinds -> "int"
    [] k \in FloatKinds -> "float"
    [] k \in LengthKinds -> "length"
    [] OTHER -> "none"

Allowed ==
  [int |-> {"min", "max"}, float |-> {"min", "max", "infinite", "nan"},
   length |-> {"min_length", "max_length"}, none |-> {}]

InRange(k, value) ==
  IF k \in IntKinds THEN IntMin(k) <= value /\ value <= IntMax(k)
  ELSE -FloatLimit[k] <= value /\ value <= FloatLimit[k]

(* bound, and the lengths of lower_constraints. *)
ValueErrors(k, name, number) ==
  CASE name \in {"infinite", "nan"} -> {"takes no value"}
    [] name \in {"min", "max"} ->
         IF k \in IntKinds /\ number.lit = "float" THEN {"not an integer"}
         ELSE Error(~InRange(k, number.value), "bound out of range")
    [] name \in {"min_length", "max_length"} ->
         IF number.lit = "float" \/ number.value < 0 THEN {"negative length"}
         ELSE Error(number.value > MaxSize, "length beyond a message")

(* The constraint that counts for a name: the first one written. *)
Written(cons, name) == {j \in DOMAIN cons : cons[j].name = name /\ j \notin Repeats(NamesOf(cons))}

(* What lower_constraints sets for a name. *)
Value(k, cons, name) ==
  LET set == {j \in Written(cons, name) :
                /\ name \in Allowed[Class(k)]
                /\ cons[j].value # None
                /\ ValueErrors(k, name, cons[j].value[1]) = {}}
  IN IF set = {} THEN None ELSE Some(cons[CHOOSE j \in set : TRUE].value[1].value)

Flag(k, cons, name) ==
  name \in Allowed[Class(k)] /\ \E j \in Written(cons, name) : cons[j].value = None

LowerConstraints(k, cons) ==
  [min |-> Value(k, cons, "min"), max |-> Value(k, cons, "max"),
   minLen |-> Value(k, cons, "min_length"), maxLen |-> Value(k, cons, "max_length"),
   infinite |-> Flag(k, cons, "infinite"), nan |-> Flag(k, cons, "nan")]

Inverted(least, most) == least # None /\ most # None /\ least[1] > most[1]

(* What lower_constraints reports of one constraint. *)
ConstraintError(k, cons, j) ==
  LET name == cons[j].name
  IN CASE Class(k) = "none" -> {"takes no constraints"}
       [] Class(k) # "none" /\ name \notin Allowed[Class(k)] -> {"not a constraint of it"}
       [] name \in Allowed[Class(k)] /\ j \in Repeats(NamesOf(cons)) -> {"duplicate constraint"}
       [] OTHER ->
            IF cons[j].value = None
            THEN Error(name \notin {"infinite", "nan"}, "needs a value")
            ELSE ValueErrors(k, name, cons[j].value[1])

ConstraintErrors(k, cons) ==
  LET lowered == LowerConstraints(k, cons)
  IN (UNION {ConstraintError(k, cons, j) : j \in DOMAIN cons})
     \cup Error(Inverted(lowered.min, lowered.max), "max below min")
     \cup Error(Inverted(lowered.minLen, lowered.maxLen), "max_length below min_length")

-----------------------------------------------------------------------------
(* lower_type.  What is no type has been reported, and bool stands for it. *)
TagOf(table, id) == table.types[id].item.tag

NamedType(table, source, scope, path) ==
  {id \in Resolve(table, source, scope, path) : TagOf(table, id) \notin {"message", "hub"}}

LowerNode(table, source, scope, node) ==
  LET cons == LowerConstraints(node.k, node.cons)
  IN CASE node.k = "named" ->
            LET named == NamedType(table, source, scope, node.path)
            IN IF named = {} THEN [k |-> "bool", cons |-> NoCons]
               ELSE [k |-> "named", cons |-> NoCons, id |-> CHOOSE id \in named : TRUE]
       [] node.k = "array" -> [k |-> "array", len |-> node.len, cons |-> cons]
       [] OTHER -> [k |-> node.k, cons |-> cons]

LowerType(table, source, scope, ty) ==
  [p \in DOMAIN ty |-> LowerNode(table, source, scope, ty[p])]

(* holds_float: whether a value stores a float inline, in an array's items  *)
(* or in what it names.  The structs visited stay visited, the types do not.*)
InlineNode(ty) ==
  ty[CHOOSE p \in DOMAIN ty : /\ ty[p].k # "array"
                              /\ \A n \in 1..Len(p) : ty[SubSeq(p, 1, n - 1)].k = "array"]

InlineFloat(table, source, scope, ty, visited, holds) ==
  LET node == InlineNode(ty)
      named == IF node.k = "named" THEN Resolve(table, source, scope, node.path) \ visited ELSE {}
  IN IF named = {} THEN [float |-> node.k \in FloatKinds, visited |-> visited]
     ELSE holds[CHOOSE id \in named : TRUE][visited]

(* The fields of a struct, until one holds a float. *)
FieldsFloat(table, id, visited, holds) ==
  LET site == table.types[id]
      after[k \in 0..Len(site.item.fields)] ==
        IF k = 0 THEN [float |-> FALSE, visited |-> visited]
        ELSE IF after[k - 1].float THEN after[k - 1]
        ELSE InlineFloat(table, site.source, id, site.item.fields[k].ty, after[k - 1].visited, holds)
  IN after[Len(site.item.fields)]

(* Behind a type only types are visited, which are taken off again: one that *)
(* stands for a struct is an error of its own.                              *)
DefFloat(table, id, visited, holds) ==
  LET site == table.types[id]
      with == visited \cup {id}
  IN CASE site.item.tag = "struct" -> FieldsFloat(table, id, with, holds)
       [] site.item.tag = "type" ->
            [float |-> InlineFloat(table, site.source, id, site.item.target, with, holds).float,
             visited |-> visited]
       [] OTHER -> [float |-> FALSE, visited |-> visited]

HoldsFloat(table, source, scope, ty) ==
  LET holds[id \in DOMAIN table.types] ==
        [visited \in SUBSET DOMAIN table.types |-> DefFloat(table, id, visited, holds)]
  IN InlineFloat(table, source, scope, ty, {}, holds).float

(* A check_key that looks at the key alone. *)
KeyErrorsHere(table, source, scope, key) ==
  Error(Root(key).k \in FloatKinds, "key holds a float")

(* check_key: what it reports at once; that keys are fixed is checked last. *)
KeyErrors(table, source, scope, key) ==
  Error(HoldsFloat(table, source, scope, key), "key holds a float")

(* A part may be so many options: only a field's own type may be one. *)
NodeErrors(table, source, scope, node, options) ==
  Error(Len(node.options) > options, "nested option")
  \cup ConstraintErrors(node.k, node.cons)
  \cup Error(node.k = "named" /\ NamedType(table, source, scope, node.path) = {}, "not a type")

TypeErrors(table, source, scope, ty, options) ==
  (UNION {NodeErrors(table, source, scope, ty[p], IF p = <<>> THEN options ELSE 0) : p \in DOMAIN ty})
  \cup UNION {KeyErrors(table, source, scope, ItemOf(part)) :
                part \in {t \in Parts(ty) : Root(t).k \in {"set", "map"}}}

(* require_fixed: the parts of a lowered type that must be fixed-size. *)
MustBeFixed(ty) ==
  {ItemOf(part) : part \in {t \in Parts(ty) : Root(t).k \in {"array", "set", "map"}}}

-----------------------------------------------------------------------------
(* lower_fields: an option is taken off a field's own type. *)
IsOption(ty) == Root(ty).options # <<>>

LowerField(table, source, scope, field) ==
  [name |-> field.name, optional |-> IsOption(field.ty),
   ty |-> LowerType(table, source, scope, field.ty)]

LowerFields(table, source, scope, fields) ==
  [k \in DOMAIN fields |-> LowerField(table, source, scope, fields[k])]

FieldTypeErrors(table, source, scope, ty) ==
  TypeErrors(table, source, scope, ty, 1)
  \cup Error(Len(Root(ty).options) = 1 /\ Root(ty).k \in {"array", "vec", "set", "map"},
             "optional collection")
  \cup Error(IsOption(ty) /\ Root(ty).options[1] # <<>>, "constrained option")

FieldErrors(table, source, scope, fields) ==
  Error(Repeats(NamesOf(fields)) # {}, "duplicate field")
  \cup UNION {FieldTypeErrors(table, source, scope, ty) : ty \in FieldTypes(fields)}

(* lower_enum: the variants kept, the value the next one takes by default,  *)
(* and what is wrong.                                                       *)
LowerVariant(repr, acc, variant) ==
  LET written == variant.value # None
      value == IF written THEN variant.value ELSE acc.next
      fits == value # None /\ 0 <= value[1] /\ value[1] <= IntMax(repr)
      shared == \E k \in DOMAIN acc.variants : acc.variants[k].value = value[1]
  IN CASE variant.name \in Range(NamesOf(acc.variants)) ->
            [acc EXCEPT !.errors = @ \cup {"duplicate variant"}]
       [] variant.name \notin Range(NamesOf(acc.variants)) /\ ~fits ->
            [acc EXCEPT !.errors = @ \cup {"value out of range"}]
       [] OTHER ->
            [variants |-> Append(acc.variants, [name |-> variant.name, value |-> value[1]]),
             next |-> IF value[1] < IntMax(repr) THEN Some(value[1] + 1) ELSE None,
             errors |-> acc.errors \cup Error(shared, "shared value")]

EnumRepr(item) == IF item.repr \in EnumReprs THEN item.repr ELSE "u32"

LowerEnum(item) ==
  LET kept[n \in 0..Len(item.variants)] ==
        IF n = 0 THEN [variants |-> <<>>, next |-> Some(0), errors |-> {}]
        ELSE LowerVariant(EnumRepr(item), kept[n - 1], item.variants[n])
  IN [kept[Len(item.variants)] EXCEPT
        !.errors = @ \cup Error(item.repr \notin EnumReprs, "not an enum repr")
                     \cup Error(item.variants = <<>>, "no variant")]

(* lower_union *)
LowerData(table, source, id, data) ==
  CASE data.form = "type" -> [form |-> "type", ty |-> LowerType(table, source, id, data.ty)]
    [] data.form = "fields" ->
         [form |-> "fields", fields |-> LowerFields(table, source, id, data.fields)]
    [] OTHER -> data

DataErrors(table, source, id, data) ==
  CASE data.form = "unit" -> {}
    [] data.form = "type" -> TypeErrors(table, source, id, data.ty, 0)
    [] data.form = "fields" -> Error(data.fields = <<>>, "no fields")
                               \cup FieldErrors(table, source, id, data.fields)

UnionErrors(table, source, id, item) ==
  Error(item.variants = <<>>, "no variant")
  \cup Error(Len(item.variants) > MaxVariants, "too many variants")
  \cup Error(Repeats(NamesOf(item.variants)) # {}, "duplicate variant")
  \cup UNION {DataErrors(table, source, id, item.variants[v].data) : v \in DOMAIN item.variants}

(* lower_type_def: a type stands for a scalar. *)
IsScalar(table, target) ==
  IF Root(target).k = "named" THEN TagOf(table, Root(target).id) \in {"enum", "type"}
  ELSE Root(target).k \in ScalarKinds

TargetErrors(table, source, id, target) ==
  Error(IsOption(target), "optional type")
  \cup TypeErrors(table, source, id, target, 1)
  \cup Error(~IsScalar(table, LowerType(table, source, id, target)), "not a scalar")

-----------------------------------------------------------------------------
(* hub_kind: nothing for what is no hub kind. *)
HubKind(table, source, scope, path) ==
  {id \in Resolve(table, source, scope, path) : TagOf(table, id) = "hub"}

(* lower_side: an endpoint is [role, kind] with a path for its kind, or     *)
(* None; what a path leads to that is no hub kind is passed over.  What is   *)
(* listed are sets: kinds are sorted at the end.                             *)
LowerSide(table, source, scope, endpoints) ==
  LET kinds == [k \in DOMAIN endpoints |->
                  UNION {HubKind(table, source, scope, path) : path \in Range(endpoints[k].kind)}]
      listed == {k \in DOMAIN endpoints : endpoints[k].kind = None \/ kinds[k] # {}}
      named == UNION {kinds[k] : k \in listed}
      bare == \E k \in listed : endpoints[k].role = "hub" /\ kinds[k] = {}
      twice == \E j, k \in listed :
                 j # k /\ endpoints[j].role = endpoints[k].role /\ kinds[j] = kinds[k]
  IN [roles |-> {endpoints[k].role : k \in listed}, bare |-> bare, kinds |-> named,
      errors |-> Error(listed # DOMAIN endpoints, "not a hub kind")
                 \cup Error(twice, "endpoint listed twice")
                 \cup Error(bare /\ named # {}, "kind beside bare hub")]

(* The links one product of the sides makes; a receiver of several kinds is *)
(* an error.                                                                *)
LinksOf(senders, receivers) ==
  [pair \in senders.roles \X receivers.roles |->
     [fromKinds |-> IF pair[1] = "hub" THEN senders.kinds ELSE {},
      toKind |-> IF pair[2] = "hub" /\ receivers.kinds # {}
                 THEN Some(CHOOSE kind \in receivers.kinds : TRUE) ELSE None]]

(* A lower_links whose reverse product keeps the sides it was written with. *)
LinksUnswapped(from, to, both) ==
  LET product == LinksOf(from, to)
  IN IF both THEN OrElse(product, [pair \in to.roles \X from.roles |-> product[<<pair[2], pair[1]>>]])
     ELSE product

(* lower_links: with <-> the reverse product too, behind the product. *)
Links(from, to, both) ==
  IF both THEN OrElse(LinksOf(from, to), LinksOf(to, from)) ELSE LinksOf(from, to)

IsLink(a, b) ==
  /\ {a, b} # {"client"}
  /\ "edge" \in {a, b} => "client" \in {a, b}

LinkErrors(from, to, both) ==
  LET receivers == IF both THEN {to, from} ELSE {to}
      kinds == UNION {side.kinds : side \in receivers}
  IN from.errors \cup to.errors
     \cup Error(\E side \in receivers : side.bare, "message to any hub")
     \cup Error(\E a, b \in kinds : a # b, "message to two kinds")
     \cup Error(\E a \in from.roles, b \in to.roles : ~IsLink(a, b), "not a link")

-----------------------------------------------------------------------------
(* lower_def: the body of each declaration.  Endpoints and a hub's key are  *)
(* resolved in the scope that declares them.                                *)
Side(table, id, endpoints) ==
  LowerSide(table, table.types[id].source, table.types[id].parent, endpoints)

LowerBody(table, id, site, item) ==
  LET fields == LowerFields(table, site.source, id, item.fields)
  IN CASE item.tag = "enum" ->
            [repr |-> EnumRepr(item), variants |-> LowerEnum(item).variants]
       [] item.tag = "struct" -> [fields |-> fields]
       [] item.tag = "message" ->
            [links |-> Links(Side(table, id, item.from), Side(table, id, item.to), item.both),
             fields |-> fields]
       [] item.tag = "hub" ->
            [key |-> LowerType(table, site.source, site.parent, item.key), fields |-> fields]
       [] item.tag = "union" ->
            [variants |->
               [v \in DOMAIN item.variants |->
                  [name |-> item.variants[v].name,
                   data |-> LowerData(table, site.source, id, item.variants[v].data)]]]
       [] item.tag = "type" -> [target |-> LowerType(table, site.source, id, item.target)]

LowerDef(table, id, site, item) ==
  OrElse([tag |-> item.tag, ns |-> site.ns, parent |-> site.parent, name |-> item.name],
         LowerBody(table, id, site, item))

(* check_attrs: no attribute is known yet. *)
AttrErrors(attrs) ==
  Error(attrs # <<>>, "unknown attribute") \cup Error(Repeats(attrs) # {}, "duplicate attribute")

DefErrors(table, id, site, item) ==
  LET fields == FieldErrors(table, site.source, id, item.fields)
  IN AttrErrors(item.attrs) \cup
     CASE item.tag = "enum" -> LowerEnum(item).errors
       [] item.tag = "struct" -> fields
       [] item.tag = "message" ->
            fields \cup LinkErrors(Side(table, id, item.from), Side(table, id, item.to), item.both)
       [] item.tag = "hub" ->
            fields \cup Error(IsOption(item.key), "optional key")
                   \cup TypeErrors(table, site.source, site.parent, item.key, 1)
                   \cup KeyErrors(table, site.source, site.parent, item.key)
       [] item.tag = "union" -> UnionErrors(table, site.source, id, item)
       [] item.tag = "type" -> TargetErrors(table, site.source, id, item.target)

(* The fixed checks a declaration leaves behind. *)
DefChecks(def) ==
  (UNION {MustBeFixed(ty) : ty \in BodyTypes(def)})
  \cup IF def.tag = "hub" THEN {def.key} \cup MustBeFixed(def.key) ELSE {}

(* lower_const: a value that its type does not take is lowered to false. *)
ConstKinds == IntKinds \cup FloatKinds \cup {"bool", "string", "duration", "timestamp"}

IsConstType(ty) == Root(ty).k \in ConstKinds /\ ~IsOption(ty)

(* The constraints written on a type as a whole. *)
OuterCons(ty) == IF IsOption(ty) THEN Root(ty).options[1] ELSE Root(ty).cons

Takes(k, lit) ==
  CASE k \in IntKinds -> lit = "int"
    [] k \in FloatKinds -> lit \in {"int", "float"}
    [] OTHER -> lit = k

ConstErrors(item) ==
  LET k == Root(item.ty).k
      value == item.value.value
  IN AttrErrors(item.attrs)
     \cup Error(OuterCons(item.ty) # <<>>, "constrained const")
     \cup IF ~IsConstType(item.ty) THEN {"not a const's type"}
          ELSE IF ~Takes(k, item.value.lit) THEN {"not a value of the type"}
          ELSE CASE k \in IntKinds \cup FloatKinds -> Error(~InRange(k, value), "const out of range")
                 [] k = "duration" -> Error(value \notin 0..MaxDuration, "const out of range")
                 [] OTHER -> {}

LowerConst(site) ==
  LET item == site.item
      k == Root(item.ty).k
      false == [lit |-> "bool", value |-> FALSE]
  IN [ns |-> site.ns, parent |-> site.parent, name |-> item.name,
      ty |-> IF IsConstType(item.ty) THEN k ELSE "bool",
      value |-> CASE ~IsConstType(item.ty) \/ ~Takes(k, item.value.lit) -> false
                  [] k \in FloatKinds /\ item.value.lit = "int" ->
                       [lit |-> "float", value |-> item.value.value]
                  [] OTHER -> item.value]

-----------------------------------------------------------------------------
(* What check_cycles searches. *)
References(defs) == [id \in DOMAIN defs |-> DirectRefs(defs[id])]

-----------------------------------------------------------------------------
(* lower: sending kinds are sorted once everything has a qualified name. *)
NamespaceNames(table) == [n \in DOMAIN table.nss |-> table.nss[n].name]

SortLink(nss, defs, link) == [link EXCEPT !.fromKinds = ByName(nss, defs, @)]

SortLinks(nss, defs) ==
  [id \in DOMAIN defs |->
     IF defs[id].tag # "message" THEN defs[id]
     ELSE [defs[id] EXCEPT !.links = [pair \in DOMAIN @ |-> SortLink(nss, defs, @[pair])]]]

VARIABLES sources,   \* What is compiled.
          phase,     \* The pass that comes next.
          table,     \* The names collected and the uses.
          defs,      \* The declarations lowered so far.
          consts,    \* The consts lowered so far.
          checks,    \* fixed_checks: types that must be fixed-size.
          sizes,     \* The size of each declaration on the wire.
          errors     \* The kinds of the errors reported.

vars == <<sources, phase, table, defs, consts, checks, sizes, errors, searchVars>>

Init ==
  /\ \E family \in Schemas : sources \in family
  /\ phase = "names"
  /\ table = EmptyTable
  /\ defs = <<>> /\ consts = <<>> /\ checks = {} /\ sizes = <<>> /\ errors = {}
  /\ NoSearch

ResolveNames ==
  /\ phase = "names"
  /\ table' = ResolverOf(sources)
  /\ errors' = table'.errors
  /\ phase' = "lower"
  /\ UNCHANGED <<sources, defs, consts, checks, sizes, searchVars>>

LowerNextDef ==
  /\ phase = "lower"
  /\ \E id \in DOMAIN table.types :
       /\ id = Len(defs) + 1
       /\ \E site \in {table.types[id]}, item \in {table.types[id].item} :
            /\ defs' = Append(defs, LowerDef(table, id, site, item))
            /\ errors' = errors \cup DefErrors(table, id, site, item)
       /\ checks' = checks \cup DefChecks(defs'[id])
  /\ UNCHANGED <<sources, phase, table, consts, sizes, searchVars>>

LowerNextConst ==
  /\ phase = "lower" /\ DOMAIN defs = DOMAIN table.types
  /\ \E k \in DOMAIN table.consts :
       /\ k = Len(consts) + 1
       /\ consts' = Append(consts, LowerConst(table.consts[k]))
       /\ errors' = errors \cup ConstErrors(table.consts[k].item)
  /\ UNCHANGED <<sources, phase, table, defs, checks, sizes, searchVars>>

SortKinds ==
  /\ phase = "lower" /\ DOMAIN defs = DOMAIN table.types /\ DOMAIN consts = DOMAIN table.consts
  /\ defs' = SortLinks(NamespaceNames(table), defs)
  /\ phase' = "fixed"
  /\ UNCHANGED <<sources, table, consts, checks, sizes, errors, searchVars>>

CheckFixed ==
  /\ phase = "fixed"
  /\ errors' = errors \cup Error(\E ty \in checks : ~IsFixed(defs, ty), "variable-size")
  /\ checks' = {}
  /\ phase' = "cycles"
  /\ UNCHANGED <<sources, table, defs, consts, sizes, searchVars>>

CheckCycles ==
  /\ phase = "cycles" /\ errors = {}
  /\ StartSearch(References(defs))
  /\ phase' = "search"
  /\ UNCHANGED <<sources, table, defs, consts, checks, sizes, errors>>

SearchCycles ==
  /\ phase = "search"
  /\ Search
  /\ UNCHANGED <<sources, phase, table, defs, consts, checks, sizes, errors>>

ReportCycles ==
  /\ phase = "search" /\ Searched
  /\ errors' = Error(recursive # {}, "recursive")
  /\ phase' = "wire"
  /\ UNCHANGED <<sources, table, defs, consts, checks, sizes, searchVars>>

CheckWire ==
  /\ phase = "wire" /\ errors = {}
  /\ sizes' = DefSizes(defs)
  /\ errors' = Error(\E id \in DOMAIN defs : TooLarge(defs, sizes', defs[id]), "beyond a message")
               \cup Error(TooMany(defs), "beyond the ids")
  /\ phase' = "done"
  /\ UNCHANGED <<sources, table, defs, consts, checks, searchVars>>

(* The passes that need an error-free schema are left out. *)
Reject ==
  /\ phase \in {"cycles", "wire"} /\ errors # {}
  /\ phase' = "done"
  /\ UNCHANGED <<sources, table, defs, consts, checks, sizes, errors, searchVars>>

Next ==
  \/ ResolveNames \/ LowerNextDef \/ LowerNextConst \/ SortKinds
  \/ CheckFixed \/ CheckCycles \/ SearchCycles \/ ReportCycles \/ CheckWire \/ Reject

Spec == Init /\ [][Next]_vars

-----------------------------------------------------------------------------
Accepted == phase = "done" /\ errors = {}

(* The types written in an accepted schema, and what values are found by. *)
AllTypes == UNION {TypesOf(defs[id]) : id \in DOMAIN defs}

AllParts == UNION {Parts(ty) : ty \in AllTypes}

Keys == {ItemOf(part) : part \in {t \in AllParts : Root(t).k \in {"set", "map"}}}
        \cup {defs[id].key : id \in OfTag(defs, "hub")}

(* The declarations reached by any number of references, none excepted. *)
ReachedFrom(id) == Closure(References(defs), DirectRefs(defs[id]))

(* Every node stored in a value of a type, through whatever it names. *)
Stored(ty) ==
  Range(ty) \cup UNION {UNION {Range(t) : t \in BodyTypes(defs[id])} :
                         id \in Closure(References(defs), Refs(ty))}

(* What an accepted schema looks objects up by is of one size and holds no  *)
(* float anywhere, though lower.rs finds floats in what is written, through *)
(* the names as they resolve where they stand, and sizes in what is         *)
(* lowered.                                                                 *)
KeysFixedAndFloatFree ==
  Accepted =>
    \A key \in Keys : /\ TypeSize(sizes, key).fixed
                     /\ \A node \in Stored(key) : node.k \notin FloatKinds

(* ir.rs and ir/wire.rs tell fixed-size types apart on their own, and agree *)
(* on every type of an accepted schema; an array whose items vary would     *)
(* have no layout.                                                          *)
FixedAgreesWithLayout ==
  Accepted => \A ty \in AllParts : IsFixed(defs, ty) = TypeSize(sizes, ty).fixed

(* A message of an accepted schema can be routed on each of its links: the  *)
(* roles may talk to each other, a hub that receives is of the one kind the *)
(* message names, and a sender's kinds are hubs; <-> gives each link its    *)
(* answer, with the kinds swapped.                                          *)
LinksRoutable ==
  Accepted =>
    \A id \in OfTag(defs, "message") :
      LET links == defs[id].links
      IN /\ \A pair \in DOMAIN links :
              /\ IsLink(pair[1], pair[2])
              /\ (pair[2] = "hub") = (links[pair].toKind # None)
              /\ Range(links[pair].fromKinds) \cup Range(links[pair].toKind)
                   \subseteq OfTag(defs, "hub")
         /\ \A p, q \in DOMAIN links : p[2] = q[2] => links[p].toKind = links[q].toKind
         /\ table.types[id].item.both =>
              \A pair \in DOMAIN links :
                LET back == <<pair[2], pair[1]>>
                IN /\ back \in DOMAIN links
                   /\ links[back].fromKinds = links[pair].toKind
                   /\ links[back].toKind = links[pair].fromKinds

(* Numbers an accepted schema carries: an enum's values are distinct and    *)
(* fit what it is sent as, though most are counted on from the one before;  *)
(* bounds are in the range of their type and in order.                      *)
ValuesFit ==
  Accepted =>
    /\ \A id \in OfTag(defs, "enum") :
         LET values == [v \in DOMAIN defs[id].variants |-> defs[id].variants[v].value]
         IN IsInjective(values) /\ Range(values) \subseteq 0..MaxOf(IntBytes[defs[id].repr])
    /\ \A node \in UNION {Range(ty) : ty \in AllTypes} :
         /\ node.k \in IntKinds =>
              LET int == IntOf(node) IN
              \A value \in Range(node.cons.min \o node.cons.max) :
                value - int.min \in
                  IF int.biased \/ node.k \notin Signed THEN 0..MaxOf(int.width)
                  ELSE IntMin(node.k)..IntMax(node.k)
         /\ node.cons.min # None /\ node.cons.max # None =>
              node.cons.min[1] <= node.cons.max[1]

(* What lower makes of some sources in one go. *)
DefsOf(t) ==
  SortLinks(NamespaceNames(t),
            [id \in DOMAIN t.types |-> LowerDef(t, id, t.types[id], t.types[id].item)])
ConstsOf(t) == [k \in DOMAIN t.consts |-> LowerConst(t.consts[k])]

Accepts(t, lowered) ==
  /\ t.errors = {}
  /\ \A id \in DOMAIN lowered : DefErrors(t, id, t.types[id], t.types[id].item) = {}
  /\ \A k \in DOMAIN t.consts : ConstErrors(t.consts[k].item) = {}
  /\ \A ty \in UNION {DefChecks(lowered[id]) : id \in DOMAIN lowered} : IsFixed(lowered, ty)
  /\ ~ HasRing(References(lowered))
  /\ \A found \in {DefSizes(lowered)}, id \in DOMAIN lowered : ~TooLarge(lowered, found, lowered[id])
  /\ ~TooMany(lowered)

(* The order the sources are passed in does not matter: neither to whether  *)
(* they are accepted, nor to the ids messages and hub kinds get, nor to     *)
(* what peers compare, their fingerprints (canonical: "so the order sources *)
(* are compiled in does not matter").                                       *)
NameList(nss, lowered, ids) == [k \in DOMAIN ids |-> Qualified(nss, lowered, ids[k])]

OrderInsensitive ==
  phase = "done" /\ Len(sources) = 2 =>
    \A t \in {ResolverOf(Reverse(sources))} : \A swapped \in {DefsOf(t)} :
      LET nss == NamespaceNames(table)
          others == NamespaceNames(t)
      IN /\ Accepts(t, swapped) = (errors = {})
         /\ errors = {} =>
              /\ \A a, b \in Range(Roles) :
                   NameList(nss, defs, Space(nss, defs, a, b))
                     = NameList(others, swapped, Space(others, swapped, a, b))
              /\ NameList(nss, defs, Hubs(nss, defs))
                   = NameList(others, swapped, Hubs(others, swapped))
              /\ \A scope \in {"client", "internal"} :
                   Fingerprint(nss, defs, consts, scope)
                     = Fingerprint(others, swapped, ConstsOf(t), scope)

(* No two declarations of an accepted schema have one qualified name        *)
(* (ir/wire.rs: "Qualified names are unique.").                             *)
QualifiedNamesUnique ==
  Accepted =>
    \A a, b \in DOMAIN defs :
      Qualified(NamespaceNames(table), defs, a) = Qualified(NamespaceNames(table), defs, b)
        => a = b
=============================================================================
