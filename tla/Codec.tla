---------------------------------- MODULE Codec ----------------------------------
(***************************************************************************)
(* A message on its way: its sender encodes a value into a buffer, the      *)
(* bytes arrive as they are or damaged, or anything else arrives, and the   *)
(* receiver validates them and reads what it has accepted.                  *)
(***************************************************************************)
EXTENDS Encode, View

CONSTANTS Messages,     \* The cells of the messages, MessageCells of a schema.
          Samples,      \* The values sent: a set for each message that is.
          Capacities,   \* The sizes of the buffers.
          Probed,       \* The messages any bytes may be received as,
          MaxProbe      \* and the most bytes of those.

ASSUME CodecAssumption ==
  /\ DOMAIN Samples \cup Probed \subseteq DOMAIN Messages
  /\ Capacities \subseteq Nat
  /\ MaxProbe \in Nat

VARIABLES
  phase,      \* "start", "encoded", "received", "validated" or "read".
  id,         \* The message.
  sent,       \* The value that is encoded, if one is,
  capacity,   \* the size of the sender's buffer, until the message arrives,
  result,     \* and what encoding gave.
  received,   \* The bytes received.
  verdict,    \* What the validator says of them.
  got         \* The value they are read as, if they are.

vars == <<phase, id, sent, capacity, result, received, verdict, got>>

Bytes == 0..MaxOf(1)

-----------------------------------------------------------------------------
Init ==
  /\ phase = "start"
  /\ \/ /\ id \in DOMAIN Samples
        /\ \E value \in Samples[id] : sent = Some(value)
        /\ capacity \in Capacities
     \/ id \in Probed /\ sent = None /\ capacity = 0
  /\ result = Written(<<>>)
  /\ received = <<>>
  /\ verdict = "none"
  /\ got = None

(* Encode::encode *)
SendMessage ==
  /\ phase = "start" /\ sent # None
  /\ phase' = "encoded"
  /\ result' = EncodeInto(capacity, Messages[id], sent[1])
  /\ UNCHANGED <<id, sent, capacity, received, verdict, got>>

(* Nothing is known of the buffer any more. *)
Arrive(b) ==
  /\ phase' = "received"
  /\ received' = b
  /\ capacity' = 0
  /\ UNCHANGED <<id, sent, result, verdict, got>>

Encoded == phase = "encoded" /\ result.error = None

(* What was encoded arrives: whole, with one byte changed, or cut short or  *)
(* lengthened by one.                                                       *)
ArriveIntact == Encoded /\ Arrive(result.bytes)

ArriveChanged ==
  /\ Encoded
  /\ \E i \in DOMAIN result.bytes, byte \in Bytes : Arrive([result.bytes EXCEPT ![i] = byte])

ArriveCut == Encoded /\ result.bytes # <<>> /\ Arrive(Front(result.bytes))

ArriveLonger == Encoded /\ \E byte \in Bytes : Arrive(Append(result.bytes, byte))

(* Anything arrives. *)
ArriveAny ==
  /\ phase = "start" /\ sent = None
  /\ \E n \in 0..MaxProbe : \E b \in [1..n -> Bytes] : Arrive(b)

(* Decode::decode: validate, *)
ValidateMessage ==
  /\ phase = "received"
  /\ phase' = "validated"
  /\ verdict' = Validate(Messages[id], received)
  /\ UNCHANGED <<id, sent, capacity, result, received, got>>

(* then read in place, if that was valid. *)
ReadMessage ==
  /\ phase = "validated" /\ verdict = "ok"
  /\ phase' = "read"
  /\ got' = Some(Read(Messages[id], received))
  /\ UNCHANGED <<id, sent, capacity, result, received, verdict>>

Next ==
  \/ SendMessage
  \/ ArriveIntact \/ ArriveChanged \/ ArriveCut \/ ArriveLonger \/ ArriveAny
  \/ ValidateMessage
  \/ ReadMessage

Spec == Init /\ [][Next]_vars

-----------------------------------------------------------------------------
(* What a value is once it was sent: its times lose what is finer than a    *)
(* microsecond.                                                             *)
RECURSIVE Truncated(_, _)
Truncated(cell, value) ==
  CASE cell.k \in {"timestamp", "duration"} -> value - (value % TicksPerMicro)
    [] cell.k \in {"array", "vec", "set"} -> [i \in DOMAIN value |-> Truncated(cell.item, value[i])]
    [] cell.k = "map" -> [i \in DOMAIN value |-> <<Truncated(cell.key, value[i][1]),
                                                   Truncated(cell.value, value[i][2])>>]
    [] cell.k = "object" -> [f \in DOMAIN value |->
                               IF value[f] = None THEN None
                               ELSE Some(Truncated(cell.fields[f], value[f][1]))]
    [] cell.k = "union" -> [value EXCEPT !.data = Truncated(cell.variants[value.tag], @)]
    [] OTHER -> value

(* Whether a value meets what the schema asks of values of its type, and no *)
(* collection has more items than a message has bytes.                      *)
RECURSIVE Valid(_, _)
Valid(cell, value) ==
  LET lengthOk ==
        /\ cell.cons.minLen # None => Len(value) >= cell.cons.minLen[1]
        /\ cell.cons.maxLen # None => Len(value) <= cell.cons.maxLen[1]
  IN CASE cell.k \in IntKinds -> WithinBounds(cell.cons, value)
       [] cell.k \in FloatKinds ->
            /\ value = NaN(cell.k) => cell.cons.nan
            /\ value = Infinity(cell.k) => cell.cons.infinite
            /\ value # NaN(cell.k) => WithinBounds(cell.cons, value)
       [] cell.k \in {"timestamp", "duration"} ->
            0 <= value /\ value < (MaxMicros(cell.k) + 1) * TicksPerMicro
       [] cell.k \in {"string", "bytes"} -> lengthOk
       [] cell.k = "array" -> \A i \in DOMAIN value : Valid(cell.item, value[i])
       [] cell.k \in {"vec", "set"} ->
            /\ lengthOk /\ Len(value) <= MaxSize
            /\ \A i \in DOMAIN value : Valid(cell.item, value[i])
       [] cell.k = "map" ->
            /\ lengthOk /\ Len(value) <= MaxSize
            /\ \A i \in DOMAIN value : Valid(cell.key, value[i][1]) /\ Valid(cell.value, value[i][2])
       [] cell.k = "object" ->
            \A f \in DOMAIN value : value[f] # None => Valid(cell.fields[f], value[f][1])
       [] cell.k = "union" -> Valid(cell.variants[value.tag], value.data)
       [] OTHER -> TRUE

(* What arrives as it was sent is accepted and read as what was sent, but   *)
(* for the precision of times: the encoder and the view agree on where      *)
(* everything is.                                                           *)
RoundTrip ==
  sent # None /\ received = result.bytes /\ phase \in {"validated", "read"} =>
    /\ verdict = "ok"
    /\ phase = "read" => got[1] = Truncated(Messages[id], sent[1])

(* Encoding succeeds exactly for a valid value whose encoded_size fits the  *)
(* buffer and MAX_SIZE, and takes that many bytes, no more than the layout  *)
(* says at most; it never finds too small a buffer that has encoded_size.   *)
EncodeOutcome ==
  phase = "encoded" =>
    \E size \in {EncodedSize(Messages[id], sent[1])} :
      /\ result.error = None <=>
           Valid(Messages[id], sent[1]) /\ size <= capacity /\ size <= MaxSize
      /\ result.error = None =>
           /\ Len(result.bytes) = size
           /\ Messages[id].size.max # None => size <= Messages[id].size.max[1]
      /\ result.error = Some("Buffer") => size > capacity
      /\ result.error = Some("TooLarge") => size > MaxSize \/ ~Valid(Messages[id], sent[1])

(* Whatever arrives, validating it neither reads nor slices out of bounds. *)
ValidatorTotal == verdict # "panic"

(* What is accepted is the one encoding of what it is read as: encoding it  *)
(* again gives the same bytes.                                              *)
AcceptedIsCanonical ==
  phase = "read" => EncodeInto(MaxSize, Messages[id], got[1]) = Written(received)
=============================================================================
