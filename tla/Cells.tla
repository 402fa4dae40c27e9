---------------------------------- MODULE Cells ----------------------------------
(***************************************************************************)
(* What generated code reads and writes: the cells of uju/src/net/wire.rs   *)
(* that uju-protoc gives the types of a schema.                             *)
(*                                                                         *)
(* A value is the number of an integer, an enum or a float, a Boolean, the  *)
(* bytes of a string, a sequence for an array, a vec or a set, a sequence   *)
(* of <<key, value>> for a map in the order it is iterated, and            *)
(* [index, generation] for an entity.  An object is a sequence of options,  *)
(* one per field; a union is [tag, data].  A `type` is what it stands for.  *)
(*                                                                         *)
(* A float is the word it is stored as: its words are in the order of the   *)
(* values, the last two being infinity and NaN.  A time is in ticks, of     *)
(* which a microsecond has several.                                        *)
(***************************************************************************)
EXTENDS Layout

CONSTANTS TicksPerMicro,       \* The ticks of a microsecond.
          MaxTimestampMicros,  \* MAX_TIMESTAMP_MICROS
          MaxDurationMicros    \* MAX_DURATION_MICROS

ASSUME CellsAssumption ==
  /\ TicksPerMicro \in Nat \ {0}
  /\ MaxTimestampMicros \in 0..MaxOf(8)
  /\ MaxDurationMicros \in 0..MaxOf(8)

-----------------------------------------------------------------------------
(* cell, view_ty, var_view, path: what stands for a type on the wire, a      *)
(* record that holds what is known of it when the code is generated: its     *)
(* size, how it lays out its items and its fields, the cells of those, and   *)
(* whether bytes of its size are checked at all.                             *)

(* IntInfo: the least and the greatest value of an integer type. *)
Least(cell) == IF cell.cons.min = None THEN IntMin(cell.k) ELSE cell.cons.min[1]
Greatest(cell) == IF cell.cons.max = None THEN IntMax(cell.k) ELSE cell.cons.max[1]

(* IntInfo::constrained, IntInfo::span, check_fixed: whether a number may be *)
(* stored that is no value of the integer.                                   *)
IntChecked(node) ==
  IF IntOf(node).biased THEN Greatest(node) - Least(node) < MaxOf(IntOf(node).width)
  ELSE Least(node) > IntMin(node.k) \/ Greatest(node) < IntMax(node.k)

(* float_args: none when every value is allowed. *)
FloatChecked(cons) == ~(cons.nan /\ cons.infinite /\ cons.min = None /\ cons.max = None)

(* check_fixed, for what has no parts. *)
ScalarChecked(node) ==
  CASE node.k \in IntKinds -> IntChecked(node)
    [] node.k \in FloatKinds -> FloatChecked(node.cons)
    [] OTHER -> TRUE

(* An is_checked that takes the bits of an option of a bool for two bools. *)
IsCheckedByBits(layout, cells) ==
  LET bits == Total([f \in DOMAIN cells |->
                       IF layout.slots[f].slot # "bit" THEN 0
                       ELSE 1 + Len(layout.slots[f].presence)])
  IN \/ ~layout.size.fixed
     \/ bits % Bits # 0
     \/ \E f \in DOMAIN cells : layout.slots[f].slot = "at" /\ cells[f].checked

(* is_checked: bits to spare, an option of a bool, or a field of a fixed     *)
(* size that is checked; all of it when its size varies.                     *)
IsChecked(layout, cells) ==
  LET bits == Total([f \in DOMAIN cells |->
                       IF layout.slots[f].slot # "bit" THEN 0
                       ELSE 1 + Len(layout.slots[f].presence)])
  IN \/ ~layout.size.fixed
     \/ bits % Bits # 0
     \/ \E slot \in Range(layout.slots) : slot.slot = "bit" /\ slot.presence # None
     \/ \E f \in DOMAIN cells : layout.slots[f].slot = "at" /\ cells[f].checked

ObjectCell(defs, fields, cells) ==
  LET layout == ObjectLayout(defs, fields, [f \in DOMAIN cells |-> cells[f].size])
  IN [k |-> "object", size |-> layout.size, layout |-> layout, fields |-> cells,
      checked |-> IsChecked(layout, cells)]

ScalarCell(node) == node @@ [size |-> ScalarSize(node), checked |-> ScalarChecked(node)]

(* length_args: none without a bound. *)
Unbounded(cons) == cons.minLen = None /\ cons.maxLen = None

BytesCell(node) ==
  node @@ [size |-> BytesSize(node),
         checked |-> \/ node.k = "string"
                     \/ FixedLength(node.cons) = None /\ ~Unbounded(node.cons)]

ArrayCell(node, item) ==
  [k |-> "array", item |-> item, len |-> node.len, size |-> ArraySize(item.size, node.len),
   checked |-> item.checked]

(* A vec, a set or a map, of items of a size.  Single bytes always fill      *)
(* their range.                                                              *)
SequenceCell(node, size, parts) ==
  parts @@ [k |-> node.k, cons |-> node.cons, seq |-> Sequence(node, size),
            size |-> Var(SequenceMax(node, size)),
            checked |-> \/ size # Fixed(1) \/ ~Unbounded(node.cons)
                        \/ \E part \in DOMAIN parts : parts[part].checked]

EnumCell(def) ==
  [k |-> "enum", size |-> Fixed(IntBytes[def.repr]),
   values |-> {v.value : v \in Range(def.variants)}, checked |-> TRUE]

(* A union has a cell for what is behind the tag of each variant; the fields *)
(* of one are validated whatever they are.                                   *)
UnionCell(def, cells) ==
  [k |-> "union", tag |-> UnionTag(def), checked |-> TRUE,
   variants |-> [v \in DOMAIN cells |->
                   [cells[v] EXCEPT !.checked = @ \/ def.variants[v].data.form = "fields"]],
   size |-> UnionSize(def, [v \in DOMAIN cells |-> cells[v].size])]

(* The type of the fields of a declaration or a variant, and what a variant  *)
(* holds: a unit is an object of no fields.                                  *)
ObjectType(fields) == Leaf([k |-> "object", fields |-> fields])

Payload(data) ==
  CASE data.form = "unit" -> ObjectType(<<>>)
    [] data.form = "type" -> data.ty
    [] data.form = "fields" -> ObjectType(data.fields)

(* The type a declaration of one field list or of one type stands for. *)
StandsFor(def) == IF def.tag = "type" THEN def.target ELSE ObjectType(def.fields)

RECURSIVE CellOf(_, _)
CellOf(defs, ty) ==
  LET node == Root(ty)
      item == CellOf(defs, ItemOf(ty))
      value == CellOf(defs, MapValueOf(ty))
  IN CASE node.k \in ScalarKinds -> ScalarCell(node)
       [] node.k \in {"string", "bytes"} -> BytesCell(node)
       [] node.k = "array" -> ArrayCell(node, item)
       [] node.k \in {"vec", "set"} -> SequenceCell(node, item.size, [item |-> item])
       [] node.k = "map" ->
            SequenceCell(node, EntrySize(item.size, value.size), [key |-> item, value |-> value])
       [] node.k = "object" ->
            ObjectCell(defs, node.fields,
                       [f \in DOMAIN node.fields |-> CellOf(defs, node.fields[f].ty)])
       [] node.k = "named" ->
            LET def == defs[node.id]
            IN CASE def.tag = "enum" -> EnumCell(def)
                 [] def.tag = "union" ->
                      UnionCell(def, [v \in DOMAIN def.variants |->
                                        CellOf(defs, Payload(def.variants[v].data))])
                 [] OTHER -> CellOf(defs, StandsFor(def))

(* The cells of the messages of a schema. *)
MessageCells(defs) == [id \in OfTag(defs, "message") |-> CellOf(defs, Named(id))]

(* The fields in a kind of slot, in the order they are declared in. *)
InSlots(layout, kind) ==
  SelectSeq([k \in DOMAIN layout.slots |-> k], LAMBDA k : layout.slots[k].slot = kind)

-----------------------------------------------------------------------------
(* Little-endian numbers.  A number that is not all there is no number, -1: *)
(* reading it would panic.                                                  *)
LittleEndian(n, value) == [i \in 1..n |-> (value \div 2 ^ ((i - 1) * Bits)) % 2 ^ Bits]

Number(b, at, n) ==
  IF at + n > Len(b) THEN -1
  ELSE Total([i \in 1..n |-> b[at + i] * 2 ^ ((i - 1) * Bits)])

(* bit *)
Bit(b, n) == (b[n \div Bits + 1] \div 2 ^ (n % Bits)) % 2 = 1

Present(b, slot) == slot.presence = None \/ Bit(b, slot.presence[1])

-----------------------------------------------------------------------------
(* How an integer is stored: less the least value, when that is narrower. *)
ToStored(cell, value) == LittleEndian(IntOf(cell).width, value - IntOf(cell).min)

(* Biased::get, and get of the native cells. *)
FromStored(cell, b) ==
  LET int == IntOf(cell)
      raw == Number(b, 0, int.width)
      wraps == ~int.biased /\ cell.k \in Signed /\ raw > IntMax(cell.k)
  IN int.min + (IF wraps THEN raw - 2 ^ (int.width * Bits) ELSE raw)

(* de::float, en::float *)
NaN(k) == MaxOf(ScalarBytes[k])
Infinity(k) == MaxOf(ScalarBytes[k]) - 1

FloatAllowed(cell, word) ==
  \/ word = NaN(cell.k) /\ cell.cons.nan
  \/ word = Infinity(cell.k) /\ cell.cons.infinite
  \/ word < Infinity(cell.k)

WithinBounds(cons, value) ==
  /\ cons.min # None => cons.min[1] <= value
  /\ cons.max # None => value <= cons.max[1]

(* A NaN is not compared, an infinity is. *)
FloatInRange(cell, word) == word = NaN(cell.k) \/ WithinBounds(cell.cons, word)

(* length_args, de::length, en::length: nothing is checked without a bound. *)
LengthFits(cons, n) ==
  \/ Unbounded(cons)
  \/ /\ cons.minLen # None => n >= cons.minLen[1]
     /\ n <= (IF cons.maxLen = None THEN MaxSize ELSE cons.maxLen[1])

MaxMicros(k) == IF k = "timestamp" THEN MaxTimestampMicros ELSE MaxDurationMicros

(* str::from_utf8, with characters of one byte, in the lower half, and of   *)
(* two: a lead from the last quarter and a continuation from the third.     *)
Half == 2 ^ (Bits - 1)
IsLead(byte) == byte >= Half + Half \div 2
IsContinuation(byte) == byte >= Half /\ ~IsLead(byte)

Utf8(b) ==
  /\ \A i \in DOMAIN b :
       /\ IsLead(b[i]) => i < Len(b) /\ IsContinuation(b[i + 1])
       /\ IsContinuation(b[i]) => i > 1 /\ IsLead(b[i - 1])

-----------------------------------------------------------------------------
(* offset: where the optional values of a fixed size that come before field *)
(* k end; with k behind the last field, where the var section starts.       *)
Offset(object, b, k) ==
  object.layout.head
  + Total([j \in DOMAIN object.fields |->
             IF /\ j < k
                /\ object.layout.slots[j].slot = "optional"
                /\ Present(b, object.layout.slots[j])
             THEN object.fields[j].size.max[1] ELSE 0])

VarStart(object, b) == Offset(object, b, Len(object.fields) + 1)

(* A slot that starts behind the head, whatever optional values there are. *)
SlotAtHead(layout, b, start, n) ==
  LET end(j) == Number(b, layout.boundaries + j * layout.boundary, layout.boundary)
  IN <<IF n = 0 THEN layout.head ELSE end(n - 1),
       IF n + 1 = layout.vars THEN Len(b) ELSE end(n)>>

(* slot: where slot n of the var section starts and ends. *)
SlotRange(layout, b, start, n) ==
  LET end(j) == Number(b, layout.boundaries + j * layout.boundary, layout.boundary)
  IN <<IF n = 0 THEN start ELSE end(n - 1),
       IF n + 1 = layout.vars THEN Len(b) ELSE end(n)>>
=============================================================================
