--------------------------------- MODULE Encode ---------------------------------
(***************************************************************************)
(* The encoders uju-protoc generates (backend/rust/encode.rs) over the      *)
(* writer of uju/src/net/wire.rs.                                          *)
(*                                                                         *)
(* Writing gives the bytes that were appended and, if it failed, the kind   *)
(* of the error; what comes behind a failure is not written.                *)
(***************************************************************************)
EXTENDS Cells

Written(bytes) == [bytes |-> bytes, error |-> None]
Failed(kind) == [bytes |-> <<>>, error |-> Some(kind)]
Checked(ok, kind, bytes) == IF ok THEN Written(bytes) ELSE Failed(kind)

Then(a, b) == IF a.error # None THEN a ELSE [bytes |-> a.bytes \o b.bytes, error |-> b.error]
InOrder(steps) == FoldLeft(Then, Written(<<>>), steps)

(* Writer::patch *)
Patched(width, value) ==
  IF value > MaxOf(width) THEN Failed("TooLarge") ELSE Written(<<>>)

(* Writer::len: the room is taken before the number is found too large. *)
WriteLen(width, n) == Then(Written(LittleEndian(width, n)), Patched(width, n))

-----------------------------------------------------------------------------
(* en::micros, en::timestamp, en::duration *)
WriteMicros(k, ticks) ==
  Checked(ticks >= 0 /\ ticks \div TicksPerMicro <= MaxMicros(k), "Range",
          LittleEndian(8, ticks \div TicksPerMicro))

(* write, for what takes a number of bytes of its own. *)
WriteScalar(cell, value) ==
  CASE cell.k \in IntKinds ->
         Checked(Least(cell) <= value /\ value <= Greatest(cell), "Range", ToStored(cell, value))
    [] cell.k \in FloatKinds ->
         IF FloatAllowed(cell, value)
         THEN Checked(FloatInRange(cell, value), "Range", LittleEndian(ScalarBytes[cell.k], value))
         ELSE Failed("Float")
    [] cell.k = "bool" -> Written(<<IF value THEN 1 ELSE 0>>)
    [] cell.k = "entity" ->
         Written(LittleEndian(4, value.index) \o LittleEndian(4, value.generation))
    [] cell.k \in {"timestamp", "duration"} -> WriteMicros(cell.k, value)

(* An array of bytes has its length. *)
WriteBytes(cell, value) ==
  Checked((cell.k = "bytes" /\ FixedLength(cell.cons) # None) \/ LengthFits(cell.cons, Len(value)),
          "Length", value)

(* en::prefixed: each item but the last is behind its size. *)
WritePrefixed(seq, items) ==
  Then(WriteLen(seq.count, Len(items)),
       InOrder([i \in DOMAIN items |->
         IF i = Len(items) THEN items[i]
         ELSE LET size == Len(items[i].bytes)
              IN InOrder(<<Written(LittleEndian(seq.prefix, size)), items[i],
                           Patched(seq.prefix, size)>>)]))

(* write, for a vec, a set or a map of items that are written like this. *)
WriteItems(cell, items) ==
  Then(Checked(LengthFits(cell.cons, Len(items)), "Length", <<>>),
       CASE cell.seq.form = "packed" -> InOrder(items)
         [] cell.seq.form = "counted" -> WriteLen(cell.seq.count, Len(items))
         [] cell.seq.form = "prefixed" -> WritePrefixed(cell.seq, items))

-----------------------------------------------------------------------------
(* The bits an object's fields set in its bitmap. *)
BitsSet(layout, fields) ==
  {layout.slots[k].presence[1] :
     k \in {j \in DOMAIN fields : fields[j] # None /\ layout.slots[j].presence # None}}
  \cup {layout.slots[k].at :
          k \in {j \in DOMAIN fields : layout.slots[j].slot = "bit" /\ fields[j] = Some(TRUE)}}

Bitmap(layout, set) ==
  [i \in 1..layout.bitmap |->
     Total([j \in 1..Bits |-> IF (i - 1) * Bits + j - 1 \in set THEN 2 ^ (j - 1) ELSE 0])]

(* A slot of the var section, with Writer::end behind each but the last:    *)
(* the boundary is the end of what the object has written so far.           *)
WriteSlot(layout, n, end, part) ==
  IF n < layout.vars THEN Then(part, Patched(layout.boundary, end)) ELSE part

(* write_object, of fields whose values are written like parts: the bitmap, *)
(* the head, its boundaries, the optional values and the var section.       *)
WriteObject(layout, fields, parts) ==
  LET Section(kind) == [j \in DOMAIN InSlots(layout, kind) |-> parts[InSlots(layout, kind)[j]]]
      optional == InOrder(Section("optional"))
      slots == Section("var")
      end(n) == layout.head + Len(optional.bytes)
                + Total([j \in 1..n |-> Len(slots[j].bytes)])
      boundaries == [n \in 1..AtLeastZero(layout.vars - 1) |-> LittleEndian(layout.boundary, end(n))]
  IN InOrder(<<Written(Bitmap(layout, BitsSet(layout, fields)))>>
             \o Section("at")
             \o <<Written(FlattenSeq(boundaries)), optional>>
             \o [n \in DOMAIN slots |-> WriteSlot(layout, n, end(n), slots[n])])

(* write: a value of a type. *)
RECURSIVE Write(_, _)
Write(cell, value) ==
  CASE cell.k \in ScalarKinds -> WriteScalar(cell, value)
    [] cell.k \in {"string", "bytes"} -> WriteBytes(cell, value)
    [] cell.k = "array" -> InOrder([i \in DOMAIN value |-> Write(cell.item, value[i])])
    [] cell.k \in {"vec", "set"} ->
         WriteItems(cell, [i \in DOMAIN value |-> Write(cell.item, value[i])])
    [] cell.k = "map" ->
         WriteItems(cell, [i \in DOMAIN value |-> Then(Write(cell.key, value[i][1]),
                                                      Write(cell.value, value[i][2]))])
    [] cell.k = "object" ->
         WriteObject(cell.layout, value,
                     [f \in DOMAIN value |->
                        IF value[f] = None THEN Written(<<>>)
                        ELSE Write(cell.fields[f], value[f][1])])
    [] cell.k = "enum" -> Written(LittleEndian(cell.size.max[1], value))
    [] cell.k = "union" ->
         Then(Written(LittleEndian(cell.tag, value.tag)),
              Write(cell.variants[value.tag], value.data))

(* en::encode into a buffer that holds capacity bytes, without looking at   *)
(* the size of the message.                                                 *)
FinishAnySize(capacity, result) ==
  IF Len(result.bytes) > capacity THEN Failed("Buffer") ELSE result

(* en::encode into a buffer that holds capacity bytes. *)
Finish(capacity, result) ==
  IF Len(result.bytes) > capacity THEN Failed("Buffer")
  ELSE IF result.error = None /\ Len(result.bytes) > MaxSize THEN Failed("TooLarge")
  ELSE result

EncodeInto(capacity, message, value) == Finish(capacity, Write(message, value))

-----------------------------------------------------------------------------
(* en::prefixed_size *)
PrefixedSize(seq, sizes) ==
  seq.count + Total(sizes) + AtLeastZero(Len(sizes) - 1) * seq.prefix

ItemsSize(seq, sizes) ==
  CASE seq.form = "packed" -> Len(sizes) * seq.item
    [] seq.form = "counted" -> seq.count
    [] seq.form = "prefixed" -> PrefixedSize(seq, sizes)

(* encoded_size of an object: the head, and what is behind it. *)
ObjectSize(layout, sizes) ==
  layout.head + Total([f \in DOMAIN sizes |->
                         IF layout.slots[f].slot \in {"optional", "var"} THEN sizes[f] ELSE 0])

(* size: the bytes a value is going to take. *)
RECURSIVE EncodedSize(_, _)
EncodedSize(cell, value) ==
  CASE cell.size.fixed -> cell.size.max[1]
    [] ~cell.size.fixed /\ cell.k \in {"string", "bytes"} -> Len(value)
    [] ~cell.size.fixed /\ cell.k \in {"vec", "set"} ->
         ItemsSize(cell.seq, [i \in DOMAIN value |-> EncodedSize(cell.item, value[i])])
    [] ~cell.size.fixed /\ cell.k = "map" ->
         ItemsSize(cell.seq, [i \in DOMAIN value |-> EncodedSize(cell.key, value[i][1])
                                                    + EncodedSize(cell.value, value[i][2])])
    [] ~cell.size.fixed /\ cell.k = "object" ->
         ObjectSize(cell.layout, [f \in DOMAIN value |->
                                    IF value[f] = None THEN 0
                                    ELSE EncodedSize(cell.fields[f], value[f][1])])
    [] ~cell.size.fixed /\ cell.k = "union" ->
         cell.tag + EncodedSize(cell.variants[value.tag], value.data)
=============================================================================
