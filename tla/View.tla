---------------------------------- MODULE View ----------------------------------
(***************************************************************************)
(* The views uju-protoc generates (backend/rust/view.rs) over the checks    *)
(* and the collections of uju/src/net/wire.rs: bytes are validated once,    *)
(* then read in place.                                                     *)
(*                                                                         *)
(* A check gives "ok", "rejected", or "panic" for a slice out of bounds.    *)
(***************************************************************************)
EXTENDS Cells

Accept(condition) == IF condition THEN "ok" ELSE "rejected"
Both(first, second) == IF first = "ok" THEN second ELSE first
Every(checks) == FoldLeft(Both, "ok", checks)

(* &b[from..to], counted from 0. *)
InBounds(b, range) == 0 <= range[1] /\ range[1] <= range[2] /\ range[2] <= Len(b)
Slice(b, range) == SubSeq(b, range[1] + 1, range[2])

-----------------------------------------------------------------------------
(* check_fixed, and check_var of strings and bytes. *)
CheckScalar(cell, b) ==
  CASE cell.k \in IntKinds ->
         LET value == FromStored(cell, b) IN Accept(Least(cell) <= value /\ value <= Greatest(cell))
    [] cell.k \in FloatKinds ->
         Accept(\E word \in {Number(b, 0, ScalarBytes[cell.k])} :
                  FloatAllowed(cell, word) /\ FloatInRange(cell, word))
    [] cell.k = "bool" -> Accept(b[1] <= 1)
    [] cell.k = "entity" -> Accept(Number(b, 4, 4) # 0)
    [] cell.k \in {"timestamp", "duration"} -> Accept(Number(b, 0, 8) <= MaxMicros(cell.k))

CheckBytes(cell, b) ==
  Accept(/\ cell.k = "string" => Utf8(b)
         /\ FixedLength(cell.cons) = None => LengthFits(cell.cons, Len(b)))

(* de::prefixed: the next item, behind its size but the last, which runs to *)
(* the end; none behind one that does not fit.                              *)
NextPrefixed(b, seq, n, items, i) ==
  LET pos == IF i = 1 THEN seq.count ELSE items[i - 1][2]
      start == pos + seq.prefix
      size == Number(b, pos, seq.prefix)
  IN CASE Len(items) < i - 1 -> items
       [] Len(items) = i - 1 /\ i = n -> Append(items, <<pos, Len(b)>>)
       [] OTHER -> IF size < 0 \/ start + size > Len(b) THEN items
                   ELSE Append(items, <<start, start + size>>)

Prefixed(b, seq, n) ==
  FoldLeft(LAMBDA items, i : NextPrefixed(b, seq, n, items, i), <<>>, [i \in 1..n |-> i])

PrefixedFits(b, seq, n, items) ==
  /\ Len(items) = n
  /\ n = 0 => Len(b) = seq.count

(* de::packed, de::counted: how many items fill the bytes, and where. *)
Items(b, seq) ==
  CASE seq.form = "packed" ->
         [fits |-> Len(b) % seq.item = 0, n |-> Len(b) \div seq.item,
          items |-> [i \in 1..(Len(b) \div seq.item) |-> <<(i - 1) * seq.item, i * seq.item>>]]
    [] seq.form = "counted" ->
         [fits |-> Len(b) = seq.count, n |-> Number(b, 0, seq.count), items |-> <<>>]
    [] seq.form = "prefixed" ->
         LET n == Number(b, 0, seq.count)
             items == Prefixed(b, seq, n)
         IN [fits |-> PrefixedFits(b, seq, n, items), n |-> n, items |-> items]

-----------------------------------------------------------------------------
(* The bits of an object's bitmap: those its slots leave over are clear.    *)
UsedBits(layout) ==
  UNION {(IF slot.presence = None THEN {} ELSE {slot.presence[1]})
         \cup (IF slot.slot = "bit" THEN {slot.at} ELSE {}) : slot \in Range(layout.slots)}

UnusedClear(layout, b) ==
  \A n \in (0..(layout.bitmap * Bits - 1)) \ UsedBits(layout) : ~Bit(b, n)

(* de::option_bool: the value bit of an absent one is clear. *)
OptionBoolsClear(layout, b) ==
  \A slot \in Range(layout.slots) : slot.slot = "bit" /\ ~Present(b, slot) => ~Bit(b, slot.at)

BitmapClear(layout, b) == UnusedClear(layout, b) /\ OptionBoolsClear(layout, b)

(* de::boundaries without their check against the end. *)
BoundariesAscend(layout, b, start) ==
  \A n \in 0..(layout.vars - 2) :
    \E range \in {SlotRange(layout, b, start, n)} : range[1] <= range[2]

(* de::boundaries: none is before the one before it, or behind the end. *)
Boundaries(layout, b, start) ==
  \A n \in 0..(layout.vars - 2) :
    \E range \in {SlotRange(layout, b, start, n)} : range[1] <= range[2] /\ range[2] <= Len(b)

(* validate, up to the values of the fields. *)
CheckHead(layout, b) ==
  Accept(IF layout.size.fixed THEN Len(b) = layout.head ELSE Len(b) >= layout.head)

(* Where the values of the fields are; a bit has no bytes. *)
FieldRange(object, b, k) ==
  LET slot == object.layout.slots[k]
  IN CASE slot.slot = "bit" -> <<0, 0>>
       [] slot.slot = "at" -> <<slot.at, slot.at + object.fields[k].size.max[1]>>
       [] slot.slot = "optional" ->
            <<Offset(object, b, k), Offset(object, b, k) + object.fields[k].size.max[1]>>
       [] slot.slot = "var" -> SlotRange(object.layout, b, VarStart(object, b), slot.at)

(* The optional values fit, and what is behind them. *)
CheckOptionals(object, b) ==
  LET layout == object.layout
      start == VarStart(object, b)
  IN Accept(/\ start <= Len(b)
            /\ layout.vars = 0 => start = Len(b)
            /\ Boundaries(layout, b, start))

(* What is not checked may be any bytes. *)
IfChecked(cell, check) == IF cell.checked THEN check ELSE "ok"

(* A field of an object whose value, if there is one, checks like this; the *)
(* slot of an absent one is empty.  Bytes that need no check are not sliced.*)
CheckField(cell, slot, b, range, check) ==
  IF \/ slot.slot = "bit"
     \/ slot.slot = "optional" /\ ~Present(b, slot)
     \/ ~cell.checked /\ (slot.slot # "var" \/ slot.presence = None)
  THEN "ok"
  ELSE IF ~InBounds(b, range) THEN "panic"
  ELSE IF Present(b, slot) THEN IfChecked(cell, check)
  ELSE Accept(range[1] = range[2])

(* validate, of an object whose fields check like this. *)
CheckObject(object, b, fields) ==
  LET layout == object.layout
      Section(kind) == Every([j \in DOMAIN InSlots(layout, kind) |-> fields[InSlots(layout, kind)[j]]])
  IN Both(CheckHead(layout, b),
     Both(Accept(BitmapClear(layout, b)),
     Both(Section("at"),
     Both(IF layout.size.fixed THEN "ok" ELSE CheckOptionals(object, b),
     Both(Section("optional"), Section("var"))))))

(* An entry of a map whose key and value check like this. *)
CheckEntry(b, key, keyCheck, valueCheck) ==
  Both(Accept(Len(b) >= key.size.max[1]), Both(keyCheck, valueCheck))

(* The bytes of the key and of the value of an entry. *)
KeyOf(key, b) == Slice(b, <<0, key.size.max[1]>>)
ValueOf(key, b) == Slice(b, <<key.size.max[1], Len(b)>>)

(* An item of an array. *)
ArrayItem(item, b, i) == Slice(b, <<(i - 1) * item.size.max[1], i * item.size.max[1]>>)

(* The tag of a union, and what is behind it. *)
TagIn(union, b) == Number(b, 0, union.tag)
DataIn(union, b) == Slice(b, <<union.tag, Len(b)>>)

CheckTag(union, b) ==
  Accept(\E tag \in {TagIn(union, b)} :
           /\ tag \in DOMAIN union.variants
           /\ union.variants[tag].size.fixed =>
                Len(DataIn(union, b)) = union.variants[tag].size.max[1])

(* de::packed, de::counted, de::prefixed of items that check like this:     *)
(* prefixed ones are checked where they are found, packed ones once their   *)
(* number is known to fit.                                                  *)
CheckItems(cell, b, found, checks) ==
  LET fits == Accept(found.fits /\ LengthFits(cell.cons, found.n))
      each == Every([i \in DOMAIN found.items |->
                       IF InBounds(b, found.items[i]) THEN checks[i] ELSE "panic"])
  IN IF cell.seq.form = "prefixed" THEN Both(each, fits) ELSE Both(fits, each)

(* check_fixed, check_var, validate_at: bytes that are all a value has. *)
RECURSIVE Check(_, _)
Check(cell, b) ==
  CASE cell.k \in ScalarKinds -> CheckScalar(cell, b)
    [] cell.k \in {"string", "bytes"} -> CheckBytes(cell, b)
    [] cell.k = "array" ->
         Every([i \in 1..cell.len |-> Check(cell.item, ArrayItem(cell.item, b, i))])
    [] cell.k \in {"vec", "set"} ->
         LET found == Items(b, cell.seq)
         IN CheckItems(cell, b, found,
              [i \in DOMAIN found.items |->
                 IfChecked(cell.item, Check(cell.item, Slice(b, found.items[i])))])
    [] cell.k = "map" ->
         LET found == Items(b, cell.seq)
             CheckAs(entry) ==
               CheckEntry(entry, cell.key,
                          IfChecked(cell.key, Check(cell.key, KeyOf(cell.key, entry))),
                          IfChecked(cell.value, Check(cell.value, ValueOf(cell.key, entry))))
         IN CheckItems(cell, b, found,
              [i \in DOMAIN found.items |-> CheckAs(Slice(b, found.items[i]))])
    [] cell.k = "object" ->
         CheckObject(cell, b,
           [f \in DOMAIN cell.fields |->
              CheckField(cell.fields[f], cell.layout.slots[f], b, FieldRange(cell, b, f),
                         Check(cell.fields[f], Slice(b, FieldRange(cell, b, f))))])
    [] cell.k = "enum" -> Accept(Number(b, 0, cell.size.max[1]) \in cell.values)
    [] cell.k = "union" ->
         LET payload == cell.variants[TagIn(cell, b)]
         IN Both(CheckTag(cell, b), IfChecked(payload, Check(payload, DataIn(cell, b))))

(* validate: the size of the message first. *)
Validate(message, b) == Both(Accept(Len(b) <= MaxSize), Check(message, b))

-----------------------------------------------------------------------------
(* Cell::get *)
ReadScalar(cell, b) ==
  CASE cell.k \in IntKinds -> FromStored(cell, b)
    [] cell.k \in FloatKinds -> Number(b, 0, ScalarBytes[cell.k])
    [] cell.k = "bool" -> b[1] # 0
    [] cell.k = "entity" -> [index |-> Number(b, 0, 4), generation |-> Number(b, 4, 4)]
    [] cell.k \in {"timestamp", "duration"} -> Number(b, 0, 8) * TicksPerMicro

(* RawItems: the items of validated bytes, behind their sizes but the last. *)
NextRaw(b, seq, n, items, i) ==
  LET pos == IF i = 1 THEN seq.count ELSE items[i - 1][2]
      start == pos + seq.prefix
  IN Append(items, IF i = n THEN <<pos, Len(b)>> ELSE <<start, start + Number(b, pos, seq.prefix)>>)

(* Packed, Counted, Prefixed, PrefixedMap: where each item is. *)
RawItems(b, seq) ==
  CASE seq.form = "packed" ->
         [i \in 1..(Len(b) \div seq.item) |-> <<(i - 1) * seq.item, i * seq.item>>]
    [] seq.form = "counted" -> [i \in 1..Number(b, 0, seq.count) |-> <<0, 0>>]
    [] seq.form = "prefixed" ->
         FoldLeft(LAMBDA items, i : NextRaw(b, seq, Number(b, 0, seq.count), items, i),
                  <<>>, [i \in 1..Number(b, 0, seq.count) |-> i])

(* The accessor of a field with such a value, and what a union is read as. *)
ReadField(slot, b, value) ==
  CASE ~Present(b, slot) -> None
    [] Present(b, slot) /\ slot.slot = "bit" -> Some(Bit(b, slot.at))
    [] OTHER -> Some(value)

ReadUnion(union, b, data) == [tag |-> TagIn(union, b), data |-> data]

(* Var::read: the value validated bytes have. *)
RECURSIVE Read(_, _)
Read(cell, b) ==
  CASE cell.k \in ScalarKinds -> ReadScalar(cell, b)
    [] cell.k \in {"string", "bytes"} -> b
    [] cell.k = "array" -> [i \in 1..cell.len |-> Read(cell.item, ArrayItem(cell.item, b, i))]
    [] cell.k \in {"vec", "set"} ->
         LET items == RawItems(b, cell.seq)
         IN [i \in DOMAIN items |-> Read(cell.item, Slice(b, items[i]))]
    [] cell.k = "map" ->
         LET items == RawItems(b, cell.seq)
             ReadAs(entry) == <<Read(cell.key, KeyOf(cell.key, entry)),
                                Read(cell.value, ValueOf(cell.key, entry))>>
         IN [i \in DOMAIN items |-> ReadAs(Slice(b, items[i]))]
    [] cell.k = "object" ->
         [f \in DOMAIN cell.fields |->
            ReadField(cell.layout.slots[f], b,
                      Read(cell.fields[f], Slice(b, FieldRange(cell, b, f))))]
    [] cell.k = "enum" -> Number(b, 0, cell.size.max[1])
    [] cell.k = "union" ->
         ReadUnion(cell, b, Read(cell.variants[TagIn(cell, b)], DataIn(cell, b)))
=============================================================================
