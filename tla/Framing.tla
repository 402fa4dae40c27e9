------------------------------- MODULE Framing -------------------------------
(***************************************************************************)
(* How a TCP session cuts the bytes it receives into frames                *)
(* (net/transport/tcp/session.rs: recv_loop, drain_frames).  Chunks come   *)
(* in any size; the bytes of an incomplete frame are carried over to the   *)
(* next chunk.  A frame is a header, whose first byte here (two bytes of a *)
(* big-endian u16 in the code) says how many bytes follow it, and those    *)
(* bytes.  The code counts the frames off without handing them on yet;     *)
(* here they are collected.                                                *)
(***************************************************************************)
EXTENDS Integers, Sequences, SequencesExt

CONSTANTS
  HeaderSize,       \* Header::SIZE: 4 in the code.
  Bytes             \* The values of a byte.

ASSUME FramingAssumption == HeaderSize \in Nat \ {0} /\ Bytes \subseteq Nat

VARIABLES
  arrived,          \* Every byte received so far (a history variable).
  carry,            \* The bytes of the frame that is not complete yet.
  frames            \* The frames cut off so far.

framingVars == <<arrived, carry, frames>>

-----------------------------------------------------------------------------
FrameEnd(buf, start) == start + HeaderSize + buf[start + 1]

(* A complete header and everything it announces follow position start. *)
Complete(buf, start) ==
  /\ start + HeaderSize <= Len(buf)
  /\ FrameEnd(buf, start) <= Len(buf)

(* drain_frames: the complete frames at the front of the buffer, and how    *)
(* many bytes they take.                                                    *)
Drained(buf) ==
  LET from[start \in 0 .. Len(buf)] ==
        IF Complete(buf, start)
        THEN LET end == FrameEnd(buf, start)
             IN  [frames |-> <<SubSeq(buf, start + 1, end)>> \o from[end].frames,
                  consumed |-> from[end].consumed]
        ELSE [frames |-> <<>>, consumed |-> start]
  IN  from[0]

Suffix(buf, consumed) == SubSeq(buf, consumed + 1, Len(buf))

FramingInit ==
  /\ arrived = <<>>
  /\ carry = <<>>
  /\ frames = <<>>

(* recv_loop that keeps the frames it has drained from the carry. *)
ReceiveKeeps(chunk) ==
  LET buf == carry \o chunk
      drained == Drained(buf)
  IN  /\ frames' = frames \o drained.frames
      /\ carry' = IF carry = <<>> THEN Suffix(buf, drained.consumed) ELSE buf
      /\ arrived' = arrived \o chunk

(* One turn of recv_loop: the frames are drained from the chunk if nothing  *)
(* is carried, else from the carry with the chunk behind it.                *)
Receive(chunk) ==
  LET buf == carry \o chunk
      drained == Drained(buf)
  IN  /\ frames' = frames \o drained.frames
      /\ carry' = Suffix(buf, drained.consumed)
      /\ arrived' = arrived \o chunk

-----------------------------------------------------------------------------
(* However the bytes are chunked, the frames and the carry are exactly the  *)
(* bytes received, in order; every frame has the length its header says,    *)
(* and none that is complete waits in the carry.                            *)
FramesAreTheStream ==
  /\ FlattenSeq(frames) \o carry = arrived
  /\ \A k \in DOMAIN frames :
       frames[k] # <<>> /\ Len(frames[k]) = HeaderSize + frames[k][1]
  /\ Len(carry) >= HeaderSize => Len(carry) < HeaderSize + carry[1]
=============================================================================
