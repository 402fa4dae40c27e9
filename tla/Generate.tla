-------------------------------- MODULE Generate --------------------------------
(***************************************************************************)
(* What the Rust backend generates for a role (backend/rust.rs): which      *)
(* declarations are encoded and decoded, and the traits of what is owned.   *)
(* The texts, and the names it checks for collisions, are left out.         *)
(***************************************************************************)
EXTENDS Lower

(* unsupported: a declaration the backend has no code for. *)
Unsupported(def) ==
  \E ty \in TypesOf(def) : \E node \in Range(ty) : node.k \in {"uentity", "uuid"}

-----------------------------------------------------------------------------
(* Marker::mark: what a marked declaration names is marked with it; a hub   *)
(* kind's objects are named by key.                                         *)
NamedBy(def) == UNION {Refs(ty) : ty \in TypesOf(def)}

Mark(schema, ids) == Closure([id \in DOMAIN schema |-> NamedBy(schema[id])], ids)

Sends(def, role) == {pair \in DOMAIN def.links : pair[1] = role}
Receives(def, role) == {pair \in DOMAIN def.links : pair[2] = role}

(* A sender names the object a message goes to by its kind's key. *)
NoKeys(schema, role) == {}

KeysSent(schema, role) ==
  UNION {LET links == schema[id].links
         IN UNION {Refs(schema[kind].key) :
                     kind \in UNION {Range(links[pair].toKind) : pair \in Sends(schema[id], role)}}
         : id \in OfTag(schema, "message")}

(* Kinds are generated only for hubs, which store them, and sims. *)
KindsHeld(schema, role) == IF role \in {"hub", "sim"} THEN OfTag(schema, "hub") ELSE {}

(* What messages and kinds make a role encode, and decode. *)
Encoded(schema, role) ==
  Mark(schema, KindsHeld(schema, role) \cup KeysSent(schema, role)
               \cup {id \in OfTag(schema, "message") : Sends(schema[id], role) # {}})

Decoded(schema, role) ==
  Mark(schema, KindsHeld(schema, role)
               \cup {id \in OfTag(schema, "message") : Receives(schema[id], role) # {}})

(* roles: declarations no message reaches get both. *)
Unreached(schema, role) ==
  {id \in DOMAIN schema \ (Encoded(schema, role) \cup Decoded(schema, role)) :
     schema[id].tag \notin {"message", "hub"}}

RoleEncodes(schema, role) == Encoded(schema, role) \cup Mark(schema, Unreached(schema, role))
RoleDecodes(schema, role) == Decoded(schema, role) \cup Mark(schema, Unreached(schema, role))

-----------------------------------------------------------------------------
(* The traits a type supports, beyond those every type has. *)
AllTraits == {"eq", "hash", "default", "copy"}

Defaults == 32    \* `Default` covers arrays of up to that many items.

(* type_traits of a part, given those of its own parts and of declarations. *)
PartTraits(known, ty, traits, p) ==
  LET node == ty[p]
      first == traits[p \o <<1>>]
      length == FixedLength(node.cons)
  IN CASE node.k \in FloatKinds -> AllTraits \ {"eq", "hash"}
       [] node.k \in {"entity", "timestamp"} -> AllTraits \ {"default"}
       [] node.k = "string" -> AllTraits \ {"copy"}
       [] node.k = "bytes" ->
            AllTraits \ (IF length = None THEN {"copy"}
                         ELSE IF length[1] <= Defaults THEN {} ELSE {"default"})
       [] node.k = "array" -> first \ (IF node.len <= Defaults THEN {} ELSE {"default"})
       [] node.k = "vec" -> (first \cup {"default"}) \ {"copy"}
       [] node.k = "set" -> (first \cap {"eq"}) \cup {"default"}
       [] node.k = "map" -> (first \cap traits[p \o <<2>>] \cap {"eq"}) \cup {"default"}
       [] node.k = "named" -> known[node.id]
       [] OTHER -> AllTraits

TypeTraits(known, ty) ==
  LET traits[p \in DOMAIN ty] == PartTraits(known, ty, traits, p)
  IN traits[<<>>]

(* fields_traits: an optional field defaults to None, whatever its type. *)
FieldTraits(known, field) ==
  TypeTraits(known, field.ty) \cup (IF field.optional THEN {"default"} ELSE {})

FieldsTraits(known, fields) ==
  AllTraits \cap {t \in AllTraits : \A k \in DOMAIN fields : t \in FieldTraits(known, fields[k])}

DataTraits(known, data) ==
  CASE data.form = "unit" -> AllTraits
    [] data.form = "type" -> TypeTraits(known, data.ty)
    [] data.form = "fields" -> FieldsTraits(known, data.fields)

DefTraits(known, def) ==
  CASE def.tag = "enum" -> AllTraits
    [] def.tag \in {"struct", "message", "hub"} -> FieldsTraits(known, def.fields)
    [] def.tag = "type" -> TypeTraits(known, def.target)
    [] def.tag = "union" ->      \* A union has no variant to default to.
         {t \in AllTraits \ {"default"} :
            \A v \in DOMAIN def.variants : t \in DataTraits(known, def.variants[v].data)}

(* traits: one round over the declarations, each set as it comes, and rounds *)
(* until nothing changes; recursive types support everything until shown    *)
(* otherwise.                                                               *)
Round(schema, known) ==
  LET next[id \in DOMAIN schema] ==
        DefTraits([other \in DOMAIN schema |-> IF other < id THEN next[other] ELSE known[other]],
                  schema[id])
  IN next

Settle(schema, first) ==
  LET settled[known \in [DOMAIN schema -> SUBSET AllTraits]] ==
        IF Round(schema, known) = known THEN known ELSE settled[Round(schema, known)]
  IN settled[first]

TraitsOnce(schema) == Round(schema, [id \in DOMAIN schema |-> AllTraits])

Traits(schema) == Settle(schema, [id \in DOMAIN schema |-> AllTraits])

-----------------------------------------------------------------------------
Generates == Accepted /\ \A id \in DOMAIN defs : ~Unsupported(defs[id])

(* What a type names, at any distance. *)
Within(ty) == Closure(References(defs), Refs(ty))

(* The two ends of a link are generated one by one, each from what its own  *)
(* role sends and receives: still the sender encodes and the receiver       *)
(* decodes every declaration a message of the link holds, and those its hub *)
(* kind's key holds (roles).                                                *)
RolesMeet ==
  Generates =>
    \A id \in OfTag(defs, "message") : \A pair \in DOMAIN defs[id].links :
      LET held == {id} \cup ReachedFrom(id)
                  \cup UNION {Within(defs[kind].key) : kind \in Range(defs[id].links[pair].toKind)}
      IN held \subseteq RoleEncodes(defs, pair[1]) \cap RoleDecodes(defs, pair[2])

(* Whatever a client's messages make it encode or decode is covered by the  *)
(* client fingerprint, so that two builds that compare equal read each      *)
(* other's messages alike; what is listed (client_listed) and what is       *)
(* generated (roles) are computed apart.                                    *)
FingerprintCovers ==
  Generates => Encoded(defs, "client") \cup Decoded(defs, "client") \subseteq ClientListed(defs)

NotCopied(node) ==
  \/ node.k \in {"string", "vec", "set", "map"}
  \/ node.k = "bytes" /\ FixedLength(node.cons) = None

(* The type a set is of or a map or a hub is keyed by has the traits a hash *)
(* table needs of it, though keys are checked in lower.rs and traits found  *)
(* by the backend; and a declaration compares, hashes and copies exactly    *)
(* when everything it holds does, at any distance (traits).                 *)
TraitsFollowContents ==
  Generates =>
    \A traits \in {Traits(defs)} :
      /\ \A key \in Keys : {"eq", "hash"} \subseteq TypeTraits(traits, key)
      /\ \A id \in DOMAIN defs :
           LET held == UNION {Stored(ty) : ty \in BodyTypes(defs[id])}
           IN /\ "eq" \in traits[id] <=> \A node \in held : node.k \notin FloatKinds
              /\ "hash" \in traits[id]
                   <=> \A node \in held : node.k \notin FloatKinds \cup {"set", "map"}
              /\ "copy" \in traits[id] <=> \A node \in held : ~NotCopied(node)
=============================================================================
