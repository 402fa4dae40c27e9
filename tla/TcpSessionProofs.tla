--------------------------- MODULE TcpSessionProofs ---------------------------
(***************************************************************************)
(* What a session promises of the messages it sends, for any batch size    *)
(* and any number of messages: order on the wire, what a failed write may  *)
(* leave out, and that the drain leaves nothing behind.  And what it       *)
(* promises of the bytes it receives, for any header size and however they *)
(* are chunked: the frames cut off and the carry are those bytes.          *)
(***************************************************************************)
EXTENDS TcpSession, SequenceTheorems, WellFoundedInduction, TLAPS

CountsFrom(seq, n) == \A k \in 1 .. Len(seq) : seq[k] = n + k

(* The line of messages: the wire misses so many behind place from, and, as *)
(* long as the loop still writes, the batch and the queue go on with        *)
(* nothing else missing up to the last message sent.                        *)
WireMisses(from, missing) ==
  \A k \in 1 .. Len(wire) : wire[k] = IF k <= from THEN k ELSE k + missing

GoesOn(missing) ==
  /\ CountsFrom(batch, Len(wire) + missing)
  /\ CountsFrom(egress, Len(wire) + missing + Len(batch))
  /\ sent = Len(wire) + missing + Len(batch) + Len(egress)

Writing == sending \in {"idle", "writing", "drain", "draining"}

LineUpTo(from, missing) == WireMisses(from, missing) /\ (Writing => GoesOn(missing))

MayMiss == 0 .. IF failed THEN Batch ELSE 0

OneGap == \E from \in 0 .. Len(wire), missing \in MayMiss : LineUpTo(from, missing)

(* The first failed write ends the main loop, the next one the drain, so    *)
(* that a second gap has nothing behind it.                                 *)
FailureEndsLoop == sending \in {"idle", "writing"} => ~ failed

MessageTypes ==
  /\ sent \in Nat /\ failed \in BOOLEAN
  /\ wire \in Seq(Nat) /\ batch \in Seq(Nat) /\ egress \in Seq(Nat)
  /\ Len(batch) <= Batch

(* The inductive invariant.  WireInOrder and NothingLostOnClose speak of    *)
(* the wire alone; what a later write adds to it is in the batch and in the *)
(* queue.                                                                   *)
IInv == MessageTypes /\ FailureEndsLoop /\ OneGap

-----------------------------------------------------------------------------
(* An element of a joined sequence is one of the first or of the second. *)
LEMMA JoinElement ==
  ASSUME NEW a \in Seq(Nat), NEW b \in Seq(Nat), NEW k \in 1 .. Len(a \o b)
  PROVE  \/ k \in 1 .. Len(a) /\ (a \o b)[k] = a[k]
         \/ \E i \in 1 .. Len(b) : k = Len(a) + i /\ (a \o b)[k] = b[i]
<1>1. CASE k <= Len(a)
  BY <1>1
<1>2. CASE k > Len(a)
  <2>1. k - Len(a) \in 1 .. Len(b) /\ k = Len(a) + (k - Len(a)) /\ (a \o b)[k] = b[k - Len(a)]
    BY <1>2
  <2>2. QED
    BY <2>1
<1>3. QED
  BY <1>1, <1>2

(* The length of a joined sequence. *)
LEMMA JoinLength ==
  ASSUME NEW a \in Seq(Nat), NEW b \in Seq(Nat)
  PROVE  a \o b \in Seq(Nat) /\ Len(a \o b) = Len(a) + Len(b)
OBVIOUS

(* A sequence that counts on where another ends continues it.               *)
LEMMA JoinCounts ==
  ASSUME NEW a \in Seq(Nat), NEW b \in Seq(Nat), NEW n \in Nat,
         CountsFrom(a, n), CountsFrom(b, n + Len(a))
  PROVE  CountsFrom(a \o b, n)
<1>1. SUFFICES ASSUME NEW k \in 1 .. Len(a \o b) PROVE (a \o b)[k] = n + k
  BY DEF CountsFrom
<1>2. CASE k \in 1 .. Len(a) /\ (a \o b)[k] = a[k]
  BY <1>2 DEF CountsFrom
<1>3. CASE \E i \in 1 .. Len(b) : k = Len(a) + i /\ (a \o b)[k] = b[i]
  <2>1. PICK i \in 1 .. Len(b) : k = Len(a) + i /\ (a \o b)[k] = b[i]
    BY <1>3
  <2>2. b[i] = (n + Len(a)) + i /\ Len(a) \in Nat
    BY DEF CountsFrom
  <2>3. QED
    BY <2>1, <2>2
<1>4. QED
  BY <1>2, <1>3, JoinElement

(* The two parts a sequence is cut into. *)
LEMMA Cut ==
  ASSUME NEW seq \in Seq(Nat), NEW n \in 0 .. Len(seq)
  PROVE  /\ SubSeq(seq, 1, n) \in Seq(Nat) /\ Len(SubSeq(seq, 1, n)) = n
         /\ SubSeq(seq, n + 1, Len(seq)) \in Seq(Nat)
         /\ Len(SubSeq(seq, n + 1, Len(seq))) = Len(seq) - n
         /\ \A k \in 1 .. n : k \in 1 .. Len(seq) /\ SubSeq(seq, 1, n)[k] = seq[k]
         /\ \A k \in 1 .. Len(seq) - n :
              n + k \in 1 .. Len(seq) /\ SubSeq(seq, n + 1, Len(seq))[k] = seq[n + k]
OBVIOUS

(* Both parts count on. *)
LEMMA CutCounts ==
  ASSUME NEW seq \in Seq(Nat), NEW n \in 0 .. Len(seq), NEW m \in Nat, CountsFrom(seq, m)
  PROVE  /\ CountsFrom(SubSeq(seq, 1, n), m)
         /\ CountsFrom(SubSeq(seq, n + 1, Len(seq)), m + n)
<1> DEFINE head == SubSeq(seq, 1, n)
           rest == SubSeq(seq, n + 1, Len(seq))
<1>1. /\ Len(head) = n /\ Len(rest) = Len(seq) - n
      /\ \A k \in 1 .. n : k \in 1 .. Len(seq) /\ head[k] = seq[k]
      /\ \A k \in 1 .. Len(seq) - n : n + k \in 1 .. Len(seq) /\ rest[k] = seq[n + k]
  BY Cut, Zenon
<1>2. Len(seq) \in Nat
  OBVIOUS
<1> HIDE DEF head, rest
<1>3. \A k \in 1 .. n : head[k] = m + k
  BY <1>1 DEF CountsFrom
<1>4. ASSUME NEW k \in 1 .. Len(seq) - n PROVE rest[k] = (m + n) + k
  <2>1. seq[n + k] = m + (n + k)
    BY <1>1 DEF CountsFrom
  <2>2. QED
    BY <1>1, <1>2, <2>1
<1>5. QED
  BY <1>1, <1>3, <1>4 DEF CountsFrom, head, rest

(* The next messages of the line, put behind the wire, keep it.             *)
LEMMA WireGrows ==
  ASSUME MessageTypes, NEW from \in 0 .. Len(wire), NEW missing \in Nat,
         WireMisses(from, missing), NEW head \in Seq(Nat),
         CountsFrom(head, Len(wire) + missing), wire' = wire \o head
  PROVE  /\ WireMisses(from, missing)'
         /\ Len(wire') = Len(wire) + Len(head)
         /\ from \in 0 .. Len(wire')
<1>1. wire \in Seq(Nat) /\ Len(wire) \in Nat /\ Len(head) \in Nat
  BY DEF MessageTypes
<1>2. Len(wire') = Len(wire) + Len(head)
  BY <1>1
<1>3. SUFFICES ASSUME NEW k \in 1 .. Len(wire')
               PROVE  wire'[k] = IF k <= from THEN k ELSE k + missing
  BY <1>1, <1>2 DEF WireMisses
<1>4. CASE k \in 1 .. Len(wire) /\ wire'[k] = wire[k]
  BY <1>4 DEF WireMisses
<1>5. CASE \E i \in 1 .. Len(head) : k = Len(wire) + i /\ wire'[k] = head[i]
  <2>1. PICK i \in 1 .. Len(head) : k = Len(wire) + i /\ wire'[k] = head[i]
    BY <1>5
  <2>2. head[i] = (Len(wire) + missing) + i
    BY DEF CountsFrom
  <2>3. QED
    BY <1>1, <2>1, <2>2
<1>6. QED
  BY <1>1, <1>4, <1>5, JoinElement

(* A message that is sent while the loop writes is the next of the line.    *)
LEMMA SendLine ==
  ASSUME MessageTypes, Send, Writing, NEW missing \in Nat, GoesOn(missing)
  PROVE  GoesOn(missing)'
<1> DEFINE last == <<sent + 1>>
<1>1. /\ sent' = sent + 1 /\ egress' = egress \o last /\ UNCHANGED <<wire, batch>>
      /\ wire \in Seq(Nat) /\ batch \in Seq(Nat) /\ egress \in Seq(Nat) /\ sent \in Nat
  BY DEF Send, Writing, MessageTypes
<1>2. /\ Len(wire) + missing + Len(batch) \in Nat /\ Len(egress) \in Nat
      /\ last \in Seq(Nat) /\ Len(last) = 1 /\ last[1] = sent + 1
  BY <1>1
<1>3. CountsFrom(last, (Len(wire) + missing + Len(batch)) + Len(egress))
  BY <1>2 DEF CountsFrom, GoesOn
<1> HIDE DEF last
<1>4. CountsFrom(egress', Len(wire) + missing + Len(batch))
  BY <1>1, <1>2, <1>3, JoinCounts DEF GoesOn
<1>5. Len(egress') = Len(egress) + 1
  BY <1>1, <1>2, JoinLength
<1>6. QED
  BY <1>1, <1>2, <1>4, <1>5 DEF GoesOn

(* Filling the batch cuts the head of the queue off and puts it behind the  *)
(* batch: the line stays the same.                                          *)
LEMMA FillLine ==
  ASSUME MessageTypes, batch' = Filled, egress' = Unfilled, UNCHANGED <<sent, wire, failed>>,
         NEW missing \in Nat, GoesOn(missing)
  PROVE  /\ MessageTypes' /\ GoesOn(missing)'
         /\ Len(batch') = 0 => Len(egress') = 0
<1> DEFINE head == SubSeq(egress, 1, Room)
           rest == SubSeq(egress, Room + 1, Len(egress))
<1>1. /\ wire \in Seq(Nat) /\ batch \in Seq(Nat) /\ egress \in Seq(Nat)
      /\ Len(wire) \in Nat /\ Len(batch) \in Nat /\ Len(egress) \in Nat
      /\ Room \in 0 .. Len(egress) /\ Len(batch) + Room <= Batch
      /\ Len(batch) = 0 /\ Room = 0 => Len(egress) = 0
  BY SessionAssumption DEF Room, MessageTypes
<1>2. /\ head \in Seq(Nat) /\ Len(head) = Room
      /\ rest \in Seq(Nat) /\ Len(rest) = Len(egress) - Room
  BY <1>1, Cut
<1>3. batch' = batch \o head /\ egress' = rest
  BY DEF Filled, Unfilled
<1>4. Len(wire) + missing \in Nat /\ Len(wire) + missing + Len(batch) \in Nat
  BY <1>1
<1>5. /\ CountsFrom(head, Len(wire) + missing + Len(batch))
      /\ CountsFrom(rest, (Len(wire) + missing + Len(batch)) + Room)
  BY <1>1, <1>4, CutCounts DEF GoesOn
<1> HIDE DEF head, rest
<1>6. batch' \in Seq(Nat) /\ Len(batch') = Len(batch) + Room
  BY <1>1, <1>2, <1>3, JoinLength, Zenon
<1>7. MessageTypes'
  BY <1>1, <1>2, <1>3, <1>6 DEF MessageTypes
<1>8. CountsFrom(batch', Len(wire) + missing)
  BY <1>1, <1>2, <1>3, <1>4, <1>5, JoinCounts DEF GoesOn
<1> DEFINE w == Len(wire)
           b == Len(batch)
           e == Len(egress)
           r == Room
<1>9. /\ w \in Nat /\ b \in Nat /\ e \in Nat /\ r \in 0 .. e
      /\ (b = 0 /\ r = 0 => e = 0)
      /\ sent = w + missing + b + e /\ Len(batch') = b + r /\ Len(egress') = e - r
  BY <1>1, <1>2, <1>3, <1>6 DEF GoesOn
<1> HIDE DEF w, b, e, r
<1>10. /\ (w + missing + b) + r = w + missing + Len(batch')
       /\ sent = w + missing + Len(batch') + Len(egress')
       /\ Len(batch') = 0 => Len(egress') = 0
  BY <1>9
<1>11. QED
  BY <1>3, <1>5, <1>7, <1>8, <1>10 DEF GoesOn, w, b, e, r

(* Writing the first n messages of the batch, all of them unless the write  *)
(* fails, puts them behind the wire; if they are all, the queue goes on     *)
(* behind them.                                                             *)
LEMMA WriteLine ==
  ASSUME MessageTypes, NEW n \in 0 .. Len(batch), wire' = wire \o SubSeq(batch, 1, n),
         batch' = <<>>, UNCHANGED <<sent, egress>>, failed' \in BOOLEAN,
         NEW from \in 0 .. Len(wire), NEW missing \in Nat,
         WireMisses(from, missing), GoesOn(missing)
  PROVE  /\ MessageTypes' /\ Len(wire') = Len(wire) + n
         /\ from \in 0 .. Len(wire') /\ WireMisses(from, missing)'
         /\ n = Len(batch) => GoesOn(missing)'
<1> DEFINE head == SubSeq(batch, 1, n)
<1>1. /\ wire \in Seq(Nat) /\ batch \in Seq(Nat) /\ egress \in Seq(Nat) /\ sent \in Nat
      /\ Len(wire) \in Nat /\ Len(batch) \in Nat /\ Len(egress) \in Nat
  BY DEF MessageTypes
<1>2. head \in Seq(Nat) /\ Len(head) = n
  BY <1>1, Cut
<1>3. CountsFrom(head, Len(wire) + missing)
  <2>1. Len(wire) + missing \in Nat
    BY <1>1
  <2>2. QED
    BY <1>1, <2>1, CutCounts DEF GoesOn
<1>4. wire' = wire \o head
  OBVIOUS
<1> HIDE DEF head
<1>5. /\ WireMisses(from, missing)' /\ Len(wire') = Len(wire) + n /\ from \in 0 .. Len(wire')
  BY <1>2, <1>3, <1>4, WireGrows
<1>6. MessageTypes'
  <2>1. wire' \in Seq(Nat)
    BY <1>1, <1>2, <1>4, JoinLength
  <2>2. Len(batch') <= Batch
    BY SessionAssumption
  <2>3. QED
    BY <1>1, <2>1, <2>2 DEF MessageTypes
<1>7. ASSUME n = Len(batch) PROVE GoesOn(missing)'
  <2>1. Len(batch') = 0 /\ CountsFrom(batch', Len(wire') + missing)
    BY DEF CountsFrom
  <2>2. Len(wire') + missing + Len(batch') = Len(wire) + missing + Len(batch)
    <3> DEFINE w == Len(wire)
               b == Len(batch)
    <3>1. Len(wire') = w + b /\ Len(batch') = 0 /\ w \in Nat /\ b \in Nat
      BY <1>1, <1>5, <1>7, <2>1
    <3> HIDE DEF w, b
    <3>2. (w + b) + missing + 0 = w + missing + b
      BY <3>1
    <3>3. Len(wire') + missing + Len(batch') = w + missing + b
      BY <3>1, <3>2, Zenon
    <3>4. QED
      BY <3>3, Zenon DEF w, b
  <2>3. /\ CountsFrom(egress', Len(wire') + missing + Len(batch'))
        /\ sent' = Len(wire') + missing + Len(batch') + Len(egress')
    BY <2>2 DEF GoesOn
  <2>4. QED
    BY <2>1, <2>3 DEF GoesOn
<1>8. QED
  BY <1>5, <1>6, <1>7

-----------------------------------------------------------------------------
(* A session that has just been opened has nothing in its line. *)
LEMMA InitInv == Init => IInv
<1>1. SUFFICES ASSUME Init PROVE IInv
  OBVIOUS
<1>2. /\ wire = <<>> /\ batch = <<>> /\ egress = <<>> /\ sent = 0
      /\ failed = FALSE /\ sending = "idle"
  BY <1>1 DEF Init
<1>3. MessageTypes /\ FailureEndsLoop
  <2>1. failed \in BOOLEAN /\ ~ failed
    BY <1>2
  <2>2. Len(batch) <= Batch /\ sent \in Nat
    BY <1>2, SessionAssumption
  <2>3. QED
    BY <1>2, <2>1, <2>2 DEF MessageTypes, FailureEndsLoop
<1>4. LineUpTo(0, 0)
  BY <1>2 DEF LineUpTo, WireMisses, GoesOn, CountsFrom
<1>5. 0 \in 0 .. Len(wire) /\ 0 \in MayMiss
  BY <1>2 DEF MayMiss
<1>6. QED
  BY <1>3, <1>4, <1>5 DEF IInv, OneGap

(* Every state has its line. *)
LEMMA Line ==
  ASSUME IInv
  PROVE  /\ MessageTypes
         /\ \E from \in 0 .. Len(wire), missing \in MayMiss :
              missing \in Nat /\ (~ failed => missing = 0) /\ LineUpTo(from, missing)
<1>1. \A missing \in MayMiss : missing \in Nat /\ (~ failed => missing = 0)
  BY SessionAssumption DEF MayMiss
<1>2. QED
  BY <1>1 DEF IInv, OneGap

(* A step that leaves the wire alone keeps what it misses; while the loop   *)
(* writes on, the line must go on behind it.                                *)
LEMMA WireStays ==
  ASSUME IInv, MessageTypes', UNCHANGED <<wire, failed>>,
         Writing' => Writing, sending' \in {"idle", "writing"} => sending \in {"idle", "writing"},
         \A missing \in Nat : GoesOn(missing) /\ Writing' => GoesOn(missing)'
  PROVE  IInv'
<1>1. PICK from \in 0 .. Len(wire), missing \in MayMiss :
        missing \in Nat /\ LineUpTo(from, missing)
  BY Line
<1>2. LineUpTo(from, missing)'
  BY <1>1 DEF LineUpTo, WireMisses
<1>3. from \in 0 .. Len(wire') /\ missing \in MayMiss'
  BY DEF MayMiss
<1>4. OneGap'
  BY <1>2, <1>3 DEF OneGap
<1>5. QED
  BY <1>4 DEF IInv, FailureEndsLoop

(* Sending puts the next number at the end of the line, or drops it when    *)
(* the line is no longer written.                                           *)
LEMMA SendInv == ASSUME IInv, Send PROVE IInv'
<1>1. UNCHANGED <<wire, failed, sending>> /\ MessageTypes
  BY DEF Send, IInv
<1>2. MessageTypes'
  BY DEF Send, IInv, MessageTypes
<1>3. ASSUME NEW missing \in Nat, GoesOn(missing), Writing' PROVE GoesOn(missing)'
  <2>1. Writing
    BY <1>1, <1>3 DEF Writing
  <2>2. QED
    BY <1>1, <1>3, <2>1, SendLine
<1>4. QED
  BY <1>1, <1>2, <1>3, WireStays DEF Writing

(* The two places at which the loop fills its batch. *)
LEMMA FillInv == ASSUME IInv, TakeBatch \/ Drain PROVE IInv'
<1>1. /\ batch' = Filled /\ egress' = Unfilled /\ UNCHANGED <<sent, wire, failed>>
      /\ Writing
      /\ sending' \in {"idle", "writing"} => sending \in {"idle", "writing"}
  BY DEF TakeBatch, Drain, Writing
<1>2. PICK from \in 0 .. Len(wire), missing \in MayMiss :
        MessageTypes /\ missing \in Nat /\ LineUpTo(from, missing)
  BY Line
<1>3. MessageTypes'
  BY <1>1, <1>2, FillLine DEF LineUpTo
<1>4. \A m \in Nat : GoesOn(m) => GoesOn(m)'
  BY <1>1, <1>2, FillLine
<1>5. QED
  BY <1>1, <1>3, <1>4, WireStays

(* A whole batch is written. *)
LEMMA WrittenInv == ASSUME IInv, Written PROVE IInv'
<1>1. PICK from \in 0 .. Len(wire), missing \in MayMiss :
        MessageTypes /\ missing \in Nat /\ LineUpTo(from, missing)
  BY Line
<1>2. /\ Len(batch) \in 0 .. Len(batch) /\ SubSeq(batch, 1, Len(batch)) = batch
  BY <1>1, SMTT(20) DEF MessageTypes
<1>3. /\ wire' = wire \o batch /\ batch' = <<>> /\ UNCHANGED <<sent, egress, failed>>
      /\ failed' \in BOOLEAN /\ Writing /\ sending' # "writing"
      /\ sending' = "idle" => sending = "writing"
  BY <1>1 DEF Written, Writing, MessageTypes
<1>4. /\ MessageTypes' /\ from \in 0 .. Len(wire')
      /\ WireMisses(from, missing)' /\ GoesOn(missing)'
  BY <1>1, <1>2, <1>3, WriteLine DEF LineUpTo
<1>5. LineUpTo(from, missing)' /\ missing \in MayMiss'
  BY <1>3, <1>4 DEF LineUpTo, MayMiss
<1>6. FailureEndsLoop'
  BY <1>3 DEF IInv, FailureEndsLoop
<1>7. QED
  BY <1>4, <1>5, <1>6 DEF IInv, OneGap

(* The first failed write opens the gap: what was left of the batch is      *)
(* missing, and the queue goes on behind it.  A second one leaves the gap   *)
(* as it is, since nothing is written after it.                             *)
LEMMA WriteFailsInv == ASSUME IInv, WriteFails PROVE IInv'
<1>1. PICK from \in 0 .. Len(wire), missing \in MayMiss :
        /\ MessageTypes /\ missing \in Nat /\ (~ failed => missing = 0)
        /\ LineUpTo(from, missing)
  BY Line
<1>2. PICK n \in 0 .. Len(batch) - 1 : wire' = wire \o SubSeq(batch, 1, n)
  BY DEF WriteFails
<1>3. /\ batch' = <<>> /\ failed' = TRUE /\ UNCHANGED <<sent, egress>>
      /\ sending \in {"writing", "draining"} /\ Writing
      /\ sending' = IF sending = "writing" THEN "drain" ELSE "flush"
  BY DEF WriteFails, Writing
<1>4. /\ Len(wire) \in Nat /\ Len(batch) \in Nat /\ Len(batch) <= Batch /\ Batch \in Nat
      /\ n \in 0 .. Len(batch)
  BY <1>1, <1>2, SessionAssumption DEF MessageTypes
<1>5. WireMisses(from, missing) /\ GoesOn(missing)
  BY <1>1, <1>3 DEF LineUpTo
<1>6. /\ MessageTypes' /\ Len(wire') = Len(wire) + n
      /\ from \in 0 .. Len(wire') /\ WireMisses(from, missing)'
  BY <1>1, <1>2, <1>3, <1>4, <1>5, WriteLine
<1>7. FailureEndsLoop' /\ MayMiss' = 0 .. Batch
  BY <1>3 DEF FailureEndsLoop, MayMiss
<1>8. CASE failed
  <2>1. ~ Writing'
    BY <1>3, <1>8 DEF IInv, FailureEndsLoop, Writing
  <2>2. missing \in MayMiss'
    BY <1>7, <1>8 DEF MayMiss
  <2>3. QED
    BY <1>6, <1>7, <2>1, <2>2 DEF IInv, OneGap, LineUpTo
<1>9. CASE ~ failed
  <2>1. PICK last \in Nat, gap \in 0 .. Batch : last = Len(wire') /\ gap = Len(batch) - n
    BY <1>4, <1>6
  <2>2. last \in 0 .. Len(wire') /\ WireMisses(last, gap)'
    <3>1. missing = 0 /\ \A k \in 1 .. Len(wire') : wire'[k] = k
      BY <1>1, <1>6, <1>9 DEF WireMisses
    <3>2. QED
      BY <2>1, <3>1 DEF WireMisses
  <2>3. GoesOn(gap)'
    <3>1. Len(batch') = 0 /\ CountsFrom(batch', Len(wire') + gap)
      BY <1>3 DEF CountsFrom
    <3>2. Len(wire') + gap + Len(batch') = Len(wire) + missing + Len(batch)
      BY <1>1, <1>4, <1>6, <1>9, <2>1, <3>1
    <3>3. /\ CountsFrom(egress', Len(wire') + gap + Len(batch'))
          /\ sent' = Len(wire') + gap + Len(batch') + Len(egress')
      BY <1>3, <1>5, <3>2 DEF GoesOn
    <3>4. QED
      BY <3>1, <3>3 DEF GoesOn
  <2>4. LineUpTo(last, gap)'
    BY <2>2, <2>3 DEF LineUpTo
  <2>5. QED
    BY <1>6, <1>7, <2>2, <2>4 DEF IInv, OneGap
<1>10. QED
  BY <1>8, <1>9

(* Once the loop has ended or was abandoned, what was left in the line but  *)
(* for the wire is gone.                                                    *)
LEMMA EndInv == ASSUME IInv, Abandon \/ CloseWriter PROVE IInv'
<1>1. /\ egress' = <<>> /\ batch' \in {batch, <<>>} /\ UNCHANGED <<sent, wire, failed>>
      /\ sending' \in {"done", "abandoned"}
  BY DEF Abandon, CloseWriter
<1>2. /\ Len(<<>>) = 0 /\ 0 <= Batch /\ <<>> \in Seq(Nat)
      /\ batch \in Seq(Nat) /\ Len(batch) <= Batch
  BY SessionAssumption DEF IInv, MessageTypes
<1>3. batch' \in Seq(Nat) /\ Len(batch') <= Batch
  <2>1. CASE batch' = batch
    BY <1>2, <2>1
  <2>2. CASE batch' = <<>>
    BY <1>2, <2>2, Zenon
  <2>3. QED
    BY <1>1, <2>1, <2>2
<1>4. MessageTypes'
  BY <1>1, <1>2, <1>3 DEF IInv, MessageTypes
<1>5. QED
  BY <1>1, <1>4, WireStays DEF Writing

(* Every step keeps the invariant. *)
LEMMA NextInv == IInv /\ [Next]_vars => IInv'
<1>1. SUFFICES ASSUME IInv, [Next]_vars PROVE IInv'
  OBVIOUS
<1>2. CASE Send
  BY <1>1, <1>2, SendInv
<1>3. CASE Abandon \/ CloseWriter
  BY <1>1, <1>3, EndInv
<1>4. CASE TakeBatch \/ Drain
  BY <1>1, <1>4, FillInv
<1>5. CASE Written
  BY <1>1, <1>5, WrittenInv
<1>6. CASE WriteFails
  BY <1>1, <1>6, WriteFailsInv
<1>7. CASE \/ Close \/ DropSession \/ ShardStops \/ LeaveLoop \/ Flush
           \/ ReceiveChunk \/ StreamEnds \/ ReceiveStops \/ UNCHANGED vars
  <2>1. /\ UNCHANGED <<sent, egress, batch, wire, failed>>
        /\ sending' = sending \/ LeaveLoop \/ Flush
    BY <1>7 DEF Close, DropSession, ShardStops, LeaveLoop, Flush, ReceiveChunk, StreamEnds,
                ReceiveStops, vars, sendVars
  <2>2. /\ Writing' => Writing
        /\ sending' \in {"idle", "writing"} => sending \in {"idle", "writing"}
    BY <2>1 DEF LeaveLoop, Flush, Writing
  <2>3. MessageTypes' /\ \A missing \in Nat : GoesOn(missing) => GoesOn(missing)'
    BY <1>1, <2>1 DEF IInv, MessageTypes, GoesOn
  <2>4. QED
    BY <1>1, <2>1, <2>2, <2>3, WireStays
<1>8. QED
  BY <1>1, <1>2, <1>3, <1>4, <1>5, <1>6, <1>7 DEF Next, SendLoop

-----------------------------------------------------------------------------
(* In every reachable state the messages form one line with at most one gap.*)
THEOREM Invariance == Spec => []IInv
BY InitInv, NextInv, PTL DEF Spec

(* The rest of the types, which the line of messages does not speak of. *)
LEMMA TypeStep == ASSUME TypeOK, IInv', [Next]_vars PROVE TypeOK'
<1>1. /\ egress' \in Seq(Nat) /\ batch' \in Seq(Nat) /\ wire' \in Seq(Nat)
      /\ Len(batch') <= Batch /\ failed' \in BOOLEAN
  BY DEF IInv, MessageTypes
<1>2. /\ owner' \in {"held", "closed", "dropped"} /\ stopping' \in BOOLEAN
      /\ sent' \in 0 .. MaxSends
      /\ sending' \in {"idle", "writing", "drain", "draining", "flush", "closing",
                       "done", "abandoned"}
      /\ receiving' \in {"reading", "done"}
  <2>1. CASE Send
    BY <2>1, SessionAssumption DEF Send, TypeOK, ownerVars
  <2>2. CASE Close \/ DropSession \/ ShardStops
    BY <2>2 DEF Close, DropSession, ShardStops, TypeOK, sendVars
  <2>3. CASE Abandon
    BY <2>3 DEF Abandon, TypeOK, ownerVars
  <2>4. CASE SendLoop
    BY <2>4 DEF SendLoop, TakeBatch, LeaveLoop, Written, WriteFails, Drain, Flush, CloseWriter,
                TypeOK, ownerVars
  <2>5. CASE ReceiveChunk \/ StreamEnds \/ ReceiveStops
    BY <2>5 DEF ReceiveChunk, StreamEnds, ReceiveStops, TypeOK, ownerVars, sendVars
  <2>6. CASE UNCHANGED vars
    BY <2>6 DEF vars, TypeOK, ownerVars, sendVars
  <2>7. QED
    BY <2>1, <2>2, <2>3, <2>4, <2>5, <2>6 DEF Next
<1>3. QED
  BY <1>1, <1>2 DEF TypeOK

(* The state of a session always has its types; the batch never outgrows    *)
(* its limit.                                                               *)
THEOREM TypeCorrect == Spec => []TypeOK
<1>1. Init => TypeOK
  <2>1. SUFFICES ASSUME Init PROVE TypeOK
    OBVIOUS
  <2>2. MessageTypes
    BY <2>1, InitInv DEF IInv
  <2>3. sent \in 0 .. MaxSends
    BY <2>1, SessionAssumption DEF Init
  <2>4. QED
    BY <2>1, <2>2, <2>3 DEF Init, MessageTypes, TypeOK
<1>2. TypeOK /\ IInv' /\ [Next]_vars => TypeOK'
  BY TypeStep
<1>3. QED
  BY <1>1, <1>2, Invariance, PTL DEF Spec

(* Messages reach the stream in the order they were sent, none twice, and   *)
(* without a failed write none is missing in between; however often writes  *)
(* fail, what the peer misses among the messages it gets is at most one     *)
(* batch, in one place.                                                     *)
THEOREM WireAlwaysInOrder == Spec => []WireInOrder
<1>1. IInv => WireInOrder
  <2>1. SUFFICES ASSUME IInv PROVE WireInOrder
    OBVIOUS
  <2>2. PICK from \in 0 .. Len(wire), missing \in MayMiss :
          MessageTypes /\ LineUpTo(from, missing)
    BY <2>1, Line
  <2>3. DOMAIN wire = 1 .. Len(wire)
    BY <2>2 DEF MessageTypes
  <2>4. QED
    BY <2>2, <2>3 DEF LineUpTo, WireMisses, MayMiss, WireInOrder
<1>2. QED
  BY <1>1, Invariance, PTL

(* The drain's last look finds the batch and the queue empty, so that       *)
(* whatever has been sent by then is on the wire.                           *)
THEOREM NothingEverLostOnClose == Spec => NothingLostOnClose
<1>1. ASSUME IInv, Next, sending # "flush", sending' = "flush", ~ failed'
      PROVE  Len(wire') = sent'
  <2>1. Drain
    BY <1>1 DEF Next, SendLoop, Send, Close, DropSession, ShardStops, Abandon, TakeBatch, LeaveLoop,
                Written, WriteFails, Flush, CloseWriter, ReceiveChunk, StreamEnds, ReceiveStops,
                ownerVars, sendVars
  <2>2. /\ sending = "drain" /\ batch' = Filled /\ egress' = Unfilled /\ Filled = <<>>
        /\ UNCHANGED <<sent, wire, failed>>
    BY <1>1, <2>1 DEF Drain
  <2>3. MessageTypes /\ GoesOn(0)
    BY <1>1, <2>2, Line DEF LineUpTo, Writing
  <2>4. MessageTypes' /\ GoesOn(0)' /\ (Len(batch') = 0 => Len(egress') = 0)
    BY <2>2, <2>3, FillLine
  <2>5. Len(batch') = 0 /\ Len(egress') = 0
    <3>1. Len(batch') = 0
      BY <2>2
    <3>2. QED
      BY <2>4, <3>1
  <2>6. sent' = Len(wire') + 0 + Len(batch') + Len(egress') /\ Len(wire') \in Nat
    BY <2>4 DEF GoesOn, MessageTypes
  <2>7. QED
    BY <2>5, <2>6
<1>2. IInv /\ [Next]_vars => [sending # "flush" /\ sending' = "flush" /\ ~ failed'
                                => Len(wire') = sent']_vars
  BY <1>1
<1>3. QED
  BY <1>2, Invariance, PTL DEF Spec, NothingLostOnClose

-----------------------------------------------------------------------------
(* Every set of numbers that is not empty has a least one.  It stands in    *)
(* for induction: a claim that fails somewhere fails somewhere first.       *)
LEMMA LeastNumber ==
  ASSUME NEW S \in SUBSET Nat, S # {}
  PROVE  \E x \in S : \A y \in S : x <= y
<1>1. \E x \in S : \A y \in S : ~ <<y, x>> \in OpToRel(<, Nat)
  BY WFMin, NatLessThanWellFounded
<1>2. PICK x \in S : \A y \in S : ~ y < x
  BY <1>1 DEF OpToRel
<1>3. \A y \in S : x <= y
  BY <1>2
<1>4. QED
  BY <1>3

(* Concatenation is associative. *)
LEMMA ConcatThree ==
  ASSUME NEW T, NEW s \in Seq(T), NEW t \in Seq(T), NEW u \in Seq(T)
  PROVE  (s \o t) \o u = s \o (t \o u)
OBVIOUS

(* Appending to the second of two sequences appends to both. *)
LEMMA ConcatAppend ==
  ASSUME NEW T, NEW s \in Seq(T), NEW t \in Seq(T), NEW x \in T
  PROVE  s \o t \in Seq(T) /\ s \o Append(t, x) = Append(s \o t, x)
OBVIOUS

(* The recursion of FlattenSeq over the first n sequences. *)
FlattenStep(seqs, f, i) == IF i = 1 THEN seqs[i] ELSE f[i - 1] \o seqs[i]
Flattens(seqs, f, n) == f = [i \in 1 .. n |-> FlattenStep(seqs, f, i)]

(* There is a function that recurs as FlattenSeq does. *)
LEMMA FlattenExists ==
  ASSUME NEW seqs, NEW n \in Nat
  PROVE  \E f : Flattens(seqs, f, n)
<1> DEFINE Bad == {m \in Nat : ~ \E f : Flattens(seqs, f, m)}
<1>1. SUFFICES ASSUME Bad # {} PROVE FALSE
  OBVIOUS
<1>2. PICK m \in Bad : \A k \in Bad : m <= k
  BY <1>1, LeastNumber
<1>3. m # 0
  <2>1. Flattens(seqs, [i \in 1 .. 0 |-> 0], 0)
    BY DEF Flattens
  <2>2. QED
    BY <1>2, <2>1
<1>4. m - 1 \in Nat /\ m - 1 \notin Bad
  BY <1>2, <1>3
<1>5. PICK g : Flattens(seqs, g, m - 1)
  BY <1>4
<1> DEFINE f == [i \in 1 .. m |-> FlattenStep(seqs, g, i)]
<1>6. \A i \in 1 .. m - 1 : f[i] = g[i]
  BY <1>2, <1>3, <1>5 DEF Flattens
<1>7. \A i \in 1 .. m : FlattenStep(seqs, f, i) = FlattenStep(seqs, g, i)
  <2>1. SUFFICES ASSUME NEW i \in 1 .. m
                 PROVE  FlattenStep(seqs, f, i) = FlattenStep(seqs, g, i)
    OBVIOUS
  <2>2. CASE i = 1
    BY <2>2 DEF FlattenStep
  <2>3. CASE i # 1
    <3>1. i - 1 \in 1 .. m - 1
      BY <1>2, <2>3
    <3>2. f[i - 1] = g[i - 1]
      BY <1>6, <3>1
    <3> HIDE DEF f
    <3>3. QED
      BY <2>3, <3>2 DEF FlattenStep
  <2>4. QED
    BY <2>2, <2>3
<1>8. Flattens(seqs, f, m)
  <2>1. f = [i \in 1 .. m |-> FlattenStep(seqs, g, i)]
    OBVIOUS
  <2> HIDE DEF f
  <2>2. QED
    BY <1>7, <2>1 DEF Flattens
<1>9. QED
  BY <1>2, <1>8

(* And only one, as far as two of them go. *)
LEMMA FlattenUnique ==
  ASSUME NEW seqs, NEW more, NEW n \in Nat, NEW m \in Nat, n <= m,
         \A i \in 1 .. n : seqs[i] = more[i],
         NEW f, Flattens(seqs, f, n), NEW g, Flattens(more, g, m)
  PROVE  \A i \in 1 .. n : f[i] = g[i]
<1> DEFINE Bad == {i \in 1 .. n : f[i] # g[i]}
<1>1. SUFFICES ASSUME Bad # {} PROVE FALSE
  OBVIOUS
<1>2. PICK i \in Bad : \A k \in Bad : i <= k
  <2>1. Bad \in SUBSET Nat
    OBVIOUS
  <2>2. QED
    BY <1>1, <2>1, LeastNumber
<1>3. i \in 1 .. n /\ i \in 1 .. m /\ seqs[i] = more[i]
  BY <1>2
<1>4. f[i] = FlattenStep(seqs, f, i) /\ g[i] = FlattenStep(more, g, i)
  BY <1>3 DEF Flattens
<1>5. i # 1 => f[i - 1] = g[i - 1]
  <2>1. i # 1 => i - 1 \in 1 .. n /\ ~ i <= i - 1
    BY <1>3
  <2>2. QED
    BY <1>2, <2>1
<1>6. f[i] = g[i]
  BY <1>3, <1>4, <1>5 DEF FlattenStep
<1>7. QED
  BY <1>2, <1>6

(* FlattenSeq is the last value of such a function. *)
LEMMA FlattenIs ==
  ASSUME NEW S, NEW seqs \in Seq(Seq(S)), NEW f, Flattens(seqs, f, Len(seqs))
  PROVE  FlattenSeq(seqs) = IF seqs = <<>> THEN <<>> ELSE f[Len(seqs)]
<1>1. Len(seqs) \in Nat /\ (Len(seqs) = 0 <=> seqs = <<>>)
  OBVIOUS
<1>2. CASE seqs = <<>>
  BY <1>2 DEF FlattenSeq
<1>3. CASE seqs # <<>>
  <2> DEFINE c == CHOOSE g : g = [i \in 1 .. Len(seqs) |->
                                    IF i = 1 THEN seqs[i] ELSE g[i - 1] \o seqs[i]]
  <2>1. Flattens(seqs, c, Len(seqs))
    <3>1. f = [i \in 1 .. Len(seqs) |-> IF i = 1 THEN seqs[i] ELSE f[i - 1] \o seqs[i]]
      BY DEF Flattens, FlattenStep
    <3>2. QED
      BY <3>1 DEF Flattens, FlattenStep
  <2>2. FlattenSeq(seqs) = c[Len(seqs)]
    BY <1>1, <1>3 DEF FlattenSeq
  <2> HIDE DEF c
  <2>3. Len(seqs) \in 1 .. Len(seqs)
    BY <1>1, <1>3
  <2>4. f[Len(seqs)] = c[Len(seqs)]
    BY <1>1, <2>1, <2>3, FlattenUnique
  <2>5. FlattenSeq(seqs) = f[Len(seqs)]
    BY <2>2, <2>4
  <2>6. QED
    BY <1>3, <2>5, Zenon
<1>4. QED
  BY <1>2, <1>3

(* One more sequence at the end adds its elements at the end. *)
LEMMA FlattenAppend ==
  ASSUME NEW S, NEW seqs \in Seq(Seq(S)), NEW x \in Seq(S)
  PROVE  FlattenSeq(Append(seqs, x)) = IF seqs = <<>> THEN x ELSE FlattenSeq(seqs) \o x
<1>1. PICK n \in Nat : n = Len(seqs) /\ (n = 0 <=> seqs = <<>>)
  OBVIOUS
<1>2. PICK longer : longer = Append(seqs, x)
  OBVIOUS
<1>a. longer \in Seq(Seq(S)) /\ Len(longer) = n + 1 /\ longer # <<>> /\ longer[n + 1] = x
  <2>1. Append(seqs, x) \in Seq(Seq(S)) /\ Len(Append(seqs, x)) = Len(seqs) + 1
        /\ Append(seqs, x)[Len(seqs) + 1] = x
    BY AppendProperties
  <2>2. longer \in Seq(Seq(S)) /\ Len(longer) = n + 1 /\ longer[n + 1] = x
    BY <1>1, <1>2, <2>1
  <2>3. QED
    BY <2>2
<1>b. \A i \in 1 .. n : seqs[i] = longer[i]
  <2>1. \A i \in 1 .. Len(seqs) : Append(seqs, x)[i] = seqs[i]
    BY AppendProperties
  <2>2. QED
    BY <1>1, <1>2, <2>1
<1>3. PICK m \in Nat : m = n + 1 /\ n <= m
  OBVIOUS
<1>4. PICK f : Flattens(seqs, f, n)
  BY FlattenExists
<1>5. PICK g : Flattens(longer, g, m)
  BY FlattenExists
<1>6. FlattenSeq(longer) = g[m]
  BY <1>a, <1>3, <1>5, FlattenIs
<1>7. g[m] = IF n = 0 THEN x ELSE g[n] \o x
  <2>1. m \in 1 .. m /\ m - 1 = n /\ (m = 1 <=> n = 0)
    BY <1>3
  <2>2. g[m] = FlattenStep(longer, g, m)
    BY <1>5, <2>1 DEF Flattens
  <2>3. QED
    BY <1>a, <1>3, <2>1, <2>2 DEF FlattenStep
<1>8. n # 0 => g[n] = FlattenSeq(seqs)
  <2>1. \A i \in 1 .. n : f[i] = g[i]
    <3>1. \A i \in 1 .. n : seqs[i] = longer[i]
      BY <1>b
    <3>2. n <= m
      BY <1>3
    <3>3. QED
      BY <1>4, <1>5, <3>1, <3>2, FlattenUnique, SMTT(20)
  <2>2. n # 0 => n \in 1 .. n
    OBVIOUS
  <2>3. FlattenSeq(seqs) = IF seqs = <<>> THEN <<>> ELSE f[n]
    BY <1>1, <1>4, FlattenIs
  <2>4. QED
    BY <1>1, <2>1, <2>2, <2>3
<1>9. QED
  BY <1>1, <1>2, <1>6, <1>7, <1>8

(* Flattening gives a sequence of the elements. *)
LEMMA FlattenType ==
  ASSUME NEW S, NEW seqs \in Seq(Seq(S))
  PROVE  FlattenSeq(seqs) \in Seq(S)
<1>1. Len(seqs) \in Nat /\ (seqs # <<>> => Len(seqs) \in 1 .. Len(seqs))
  OBVIOUS
<1>2. PICK f : Flattens(seqs, f, Len(seqs))
  BY <1>1, FlattenExists
<1> DEFINE Bad == {i \in 1 .. Len(seqs) : f[i] \notin Seq(S)}
<1>3. ASSUME Bad # {} PROVE FALSE
  <2>1. PICK i \in Bad : \A k \in Bad : i <= k
    <3>1. Bad \in SUBSET Nat
      OBVIOUS
    <3>2. QED
      BY <1>3, <3>1, LeastNumber
  <2>2. i \in 1 .. Len(seqs) /\ seqs[i] \in Seq(S)
    BY <2>1
  <2>3. f[i] = FlattenStep(seqs, f, i)
    BY <1>2, <2>2 DEF Flattens
  <2>4. i # 1 => f[i - 1] \in Seq(S)
    <3>1. i # 1 => i - 1 \in 1 .. Len(seqs) /\ ~ i <= i - 1
      BY <2>2
    <3>2. QED
      BY <2>1, <3>1
  <2>5. f[i] \in Seq(S)
    BY <2>2, <2>3, <2>4 DEF FlattenStep
  <2>6. QED
    BY <2>1, <2>5
<1>4. FlattenSeq(seqs) = IF seqs = <<>> THEN <<>> ELSE f[Len(seqs)]
  BY <1>2, FlattenIs
<1>5. CASE seqs = <<>>
  <2>1. <<>> \in Seq(S)
    OBVIOUS
  <2>2. QED
    BY <1>4, <1>5, <2>1
<1>6. CASE seqs # <<>>
  <2>1. Bad = {}
    <3> HIDE DEF Bad
    <3>1. QED
      BY <1>3, Zenon
  <2>2. \A i \in 1 .. Len(seqs) : f[i] \in Seq(S)
    BY <2>1, Zenon
  <2>3. Len(seqs) \in 1 .. Len(seqs)
    BY <1>1, <1>6
  <2>4. QED
    BY <1>4, <1>6, <2>2, <2>3
<1>7. QED
  BY <1>5, <1>6

(* One more sequence leaves a concatenation flattened piece by piece. *)
LEMMA FlattenConcatStep ==
  ASSUME NEW S, NEW a \in Seq(Seq(S)), NEW t \in Seq(Seq(S)), NEW x \in Seq(S),
         FlattenSeq(a \o t) = FlattenSeq(a) \o FlattenSeq(t)
  PROVE  FlattenSeq(a \o Append(t, x)) = FlattenSeq(a) \o FlattenSeq(Append(t, x))
<1>1. FlattenSeq(<<>>) = <<>> /\ <<>> \o x = x
  <2>1. FlattenSeq(<<>>) = <<>>
    BY DEF FlattenSeq
  <2>2. <<>> \o x = x
    BY ConcatEmptySeq
  <2>3. QED
    BY <2>1, <2>2
<1>2. a \o t \in Seq(Seq(S)) /\ a \o Append(t, x) = Append(a \o t, x)
  BY ConcatAppend
<1>3. FlattenSeq(Append(t, x)) = FlattenSeq(t) \o x
  BY <1>1, FlattenAppend
<1>4. FlattenSeq(Append(a \o t, x)) = FlattenSeq(a \o t) \o x
  <2>1. PICK at \in Seq(Seq(S)) : at = a \o t
    BY <1>2
  <2>2. FlattenSeq(Append(at, x)) = FlattenSeq(at) \o x
    BY <1>1, FlattenAppend
  <2>3. QED
    BY <2>1, <2>2
<1>5. PICK u \in Seq(S) : u = FlattenSeq(a)
  BY FlattenType
<1>6. PICK v \in Seq(S) : v = FlattenSeq(t)
  BY FlattenType
<1>7. (u \o v) \o x = u \o (v \o x)
  BY ConcatThree, SMTT(40)
<1>8. QED
  BY <1>2, <1>3, <1>4, <1>5, <1>6, <1>7

(* Flattening a concatenation is concatenating what is flattened. *)
LEMMA FlattenConcat ==
  ASSUME NEW S, NEW a \in Seq(Seq(S)), NEW b \in Seq(Seq(S))
  PROVE  FlattenSeq(a \o b) = FlattenSeq(a) \o FlattenSeq(b)
<1> DEFINE First(n) == SubSeq(b, 1, n)
           Bad == {n \in 0 .. Len(b) :
                     FlattenSeq(a \o First(n)) # FlattenSeq(a) \o FlattenSeq(First(n))}
<1>1. ASSUME Bad # {} PROVE FALSE
  <2>1. PICK n \in Bad : \A k \in Bad : n <= k
    <3>1. Bad \in SUBSET Nat
      OBVIOUS
    <3>2. QED
      BY <1>1, <3>1, LeastNumber
  <2>2. n # 0
    <3>1. First(0) = <<>> /\ a \o <<>> = a /\ FlattenSeq(a) \o <<>> = FlattenSeq(a)
      BY FlattenType, ConcatEmptySeq
    <3>2. FlattenSeq(<<>>) = <<>>
      BY DEF FlattenSeq
    <3>3. 0 \notin Bad
      BY <3>1, <3>2
    <3>4. QED
      BY <2>1, <3>3
  <2>3. /\ n \in 1 .. Len(b) /\ n - 1 \in 0 .. Len(b) /\ ~ n <= n - 1
        /\ b[n] \in Seq(S) /\ First(n - 1) \in Seq(Seq(S))
        /\ First(n) = Append(First(n - 1), b[n])
    BY <2>1, <2>2
  <2>4. FlattenSeq(a \o First(n - 1)) = FlattenSeq(a) \o FlattenSeq(First(n - 1))
    BY <2>1, <2>3
  <2>5. FlattenSeq(a \o First(n)) = FlattenSeq(a) \o FlattenSeq(First(n))
    <3> HIDE DEF First
    <3>1. PICK before \in Seq(Seq(S)) : before = First(n - 1)
      BY <2>3
    <3>2. PICK last \in Seq(S) : last = b[n]
      BY <2>3
    <3>3. FlattenSeq(a \o before) = FlattenSeq(a) \o FlattenSeq(before)
      BY <2>4, <3>1
    <3>4. FlattenSeq(a \o Append(before, last)) = FlattenSeq(a) \o FlattenSeq(Append(before, last))
      BY <3>3, FlattenConcatStep
    <3>5. QED
      BY <2>3, <3>1, <3>2, <3>4
  <2>6. QED
    BY <2>1, <2>5
<1>2. First(Len(b)) = b /\ Len(b) \in 0 .. Len(b)
  BY SubSeqFull
<1>3. QED
  BY <1>1, <1>2

-----------------------------------------------------------------------------
(* The recursion of Drained over the positions from low to the end. *)
DrainStep(buf, f, start) ==
  IF Complete(buf, start)
  THEN [frames |-> <<SubSeq(buf, start + 1, FrameEnd(buf, start))>>
                     \o f[FrameEnd(buf, start)].frames,
        consumed |-> f[FrameEnd(buf, start)].consumed]
  ELSE [frames |-> <<>>, consumed |-> start]
Drains(buf, f, low) == f = [start \in low .. Len(buf) |-> DrainStep(buf, f, start)]

(* A complete frame ends beyond where it starts and within the buffer. *)
LEMMA FrameEndsBeyond ==
  ASSUME NEW buf \in Seq(Bytes), NEW start \in 0 .. Len(buf), Complete(buf, start)
  PROVE  /\ buf[start + 1] \in Nat
         /\ FrameEnd(buf, start) \in start + 1 .. Len(buf)
         /\ FrameEnd(buf, start) = start + HeaderSize + buf[start + 1]
         /\ start + 1 \in 1 .. Len(buf)
<1>1. start + 1 \in 1 .. Len(buf)
  BY FramingAssumption DEF Complete
<1>2. buf[start + 1] \in Nat
  <2>1. buf[start + 1] \in Bytes
    BY <1>1
  <2>2. QED
    BY <2>1, FramingAssumption
<1>3. QED
  BY <1>1, <1>2, FramingAssumption DEF Complete, FrameEnd

(* There is a function that recurs as Drained does, from every position. *)
LEMMA DrainExists ==
  ASSUME NEW buf \in Seq(Bytes)
  PROVE  \E f : Drains(buf, f, 0)
<1> DEFINE Bad == {m \in 0 .. Len(buf) : ~ \E f : Drains(buf, f, Len(buf) - m)}
<1>1. ASSUME Bad # {} PROVE FALSE
  <2>1. PICK m \in Bad : \A k \in Bad : m <= k
    <3>1. Bad \in SUBSET Nat
      OBVIOUS
    <3>2. QED
      BY <1>1, <3>1, LeastNumber
  <2>2. PICK low \in 0 .. Len(buf) : low = Len(buf) - m
    BY <2>1
  <2>3. PICK g : m # 0 => Drains(buf, g, low + 1)
    <3>1. m # 0 => m - 1 \in 0 .. Len(buf) /\ ~ m <= m - 1 /\ Len(buf) - (m - 1) = low + 1
      BY <2>1, <2>2
    <3>2. QED
      BY <2>1, <3>1
  <2>4. PICK f : f = [start \in low .. Len(buf) |-> DrainStep(buf, g, start)]
    OBVIOUS
  <2>5. ASSUME NEW start \in low .. Len(buf)
        PROVE  DrainStep(buf, f, start) = DrainStep(buf, g, start)
    <3>1. CASE Complete(buf, start)
      <4>1. PICK end \in start + 1 .. Len(buf) : end = FrameEnd(buf, start)
        BY <2>2, <3>1, FrameEndsBeyond
      <4>2. m # 0 /\ end \in low .. Len(buf) /\ end \in low + 1 .. Len(buf)
        BY <2>1, <2>2, <4>1
      <4>3. f[end] = DrainStep(buf, g, end)
        BY <2>4, <4>2
      <4>4. g[end] = DrainStep(buf, g, end)
        BY <2>3, <4>2 DEF Drains
      <4>5. QED
        BY <4>1, <4>3, <4>4 DEF DrainStep
    <3>2. CASE ~ Complete(buf, start)
      BY <3>2 DEF DrainStep
    <3>3. QED
      BY <3>1, <3>2
  <2>6. Drains(buf, f, low)
    BY <2>4, <2>5 DEF Drains
  <2>7. QED
    BY <2>1, <2>2, <2>6
<1>2. Len(buf) \in 0 .. Len(buf) /\ Len(buf) - Len(buf) = 0
  OBVIOUS
<1>3. QED
  BY <1>1, <1>2

(* Drained is the first value of such a function. *)
LEMMA DrainedIs ==
  ASSUME NEW buf \in Seq(Bytes)
  PROVE  \E f : Drains(buf, f, 0) /\ Drained(buf) = f[0]
<1> DEFINE c == CHOOSE g : g = [start \in 0 .. Len(buf) |->
                  IF Complete(buf, start)
                  THEN LET end == FrameEnd(buf, start)
                       IN  [frames |-> <<SubSeq(buf, start + 1, end)>> \o g[end].frames,
                            consumed |-> g[end].consumed]
                  ELSE [frames |-> <<>>, consumed |-> start]]
<1>1. PICK f : Drains(buf, f, 0)
  BY DrainExists
<1>2. Drains(buf, c, 0)
  <2>1. f = [start \in 0 .. Len(buf) |->
                  IF Complete(buf, start)
                  THEN LET end == FrameEnd(buf, start)
                       IN  [frames |-> <<SubSeq(buf, start + 1, end)>> \o f[end].frames,
                            consumed |-> f[end].consumed]
                  ELSE [frames |-> <<>>, consumed |-> start]]
    BY <1>1 DEF Drains, DrainStep
  <2>2. QED
    BY <2>1 DEF Drains, DrainStep
<1>3. Drained(buf) = c[0]
  BY DEF Drained
<1>4. QED
  BY <1>2, <1>3

(* What draining from a position returns: the frames up to where it stops, *)
(* whole and unchanged, and nothing complete left there.                   *)
WellDrained(buf, start, r) ==
  /\ r.consumed \in start .. Len(buf)
  /\ r.frames \in Seq(Seq(Bytes))
  /\ FlattenSeq(r.frames) = SubSeq(buf, start + 1, r.consumed)
  /\ \A k \in DOMAIN r.frames :
       r.frames[k] # <<>> /\ Len(r.frames[k]) = HeaderSize + r.frames[k][1]
  /\ ~ Complete(buf, r.consumed)

(* Nothing flattens to nothing, one sequence to itself. *)
LEMMA FlattenOne ==
  ASSUME NEW S, NEW x \in Seq(S)
  PROVE  FlattenSeq(<<>>) = <<>> /\ FlattenSeq(<<x>>) = x
<1>1. FlattenSeq(<<>>) = <<>>
  BY DEF FlattenSeq
<1>2. <<>> \in Seq(Seq(S)) /\ Append(<<>>, x) = <<x>>
  OBVIOUS
<1>3. FlattenSeq(Append(<<>>, x)) = x
  BY <1>2, FlattenAppend
<1>4. QED
  BY <1>1, <1>2, <1>3

(* One complete frame in front of what is drained behind it. *)
LEMMA DrainOne ==
  ASSUME NEW buf \in Seq(Bytes), NEW start \in 0 .. Len(buf), Complete(buf, start),
         NEW end, end = FrameEnd(buf, start), NEW r, WellDrained(buf, end, r)
  PROVE  WellDrained(buf, start,
                     [frames |-> <<SubSeq(buf, start + 1, end)>> \o r.frames,
                      consumed |-> r.consumed])
<1>1. /\ end \in start + 1 .. Len(buf) /\ end \in Nat
      /\ end = start + HeaderSize + buf[start + 1] /\ start + 1 \in 1 .. Len(buf)
      /\ buf[start + 1] \in Nat
  BY FrameEndsBeyond
<1>2. PICK first : first = SubSeq(buf, start + 1, end)
  OBVIOUS
<1>3. first \in Seq(Bytes) /\ Len(first) = end - start /\ first[1] = buf[start + 1]
  BY <1>1, <1>2
<1>4. PICK rest \in Seq(Seq(Bytes)) : rest = r.frames
  BY DEF WellDrained
<1>5. PICK c \in end .. Len(buf) : c = r.consumed
  BY DEF WellDrained
<1>6. <<first>> \o rest \in Seq(Seq(Bytes))
  BY <1>3
<1>7. FlattenSeq(<<first>> \o rest) = SubSeq(buf, start + 1, c)
  <2>1. FlattenSeq(<<first>> \o rest) = FlattenSeq(<<first>>) \o FlattenSeq(rest)
    <3>1. <<first>> \in Seq(Seq(Bytes))
      BY <1>3
    <3>2. QED
      BY <3>1, FlattenConcat
  <2>2. FlattenSeq(<<first>>) = first
    BY <1>3, FlattenOne
  <2>3. FlattenSeq(rest) = SubSeq(buf, end + 1, c)
    BY <1>4, <1>5 DEF WellDrained
  <2>4. SubSeq(buf, start + 1, end) \o SubSeq(buf, end + 1, c) = SubSeq(buf, start + 1, c)
    <3>1. start + 1 \in 1 .. Len(buf) + 1 /\ end \in (start + 1) - 1 .. Len(buf)
      BY <1>1
    <3>2. QED
      BY <1>5, <3>1, ConcatAdjacentSubSeq
  <2>5. QED
    BY <1>2, <2>1, <2>2, <2>3, <2>4
<1>8. ASSUME NEW k \in DOMAIN (<<first>> \o rest)
      PROVE  /\ (<<first>> \o rest)[k] # <<>>
             /\ Len((<<first>> \o rest)[k]) = HeaderSize + (<<first>> \o rest)[k][1]
  <2>1. CASE k = 1
    <3>1. (<<first>> \o rest)[k] = first
      BY <1>3, <2>1
    <3>2. first # <<>> /\ Len(first) = HeaderSize + first[1]
      BY <1>1, <1>3, FramingAssumption
    <3>3. QED
      BY <3>1, <3>2
  <2>2. CASE k # 1
    <3>1. k - 1 \in DOMAIN rest /\ (<<first>> \o rest)[k] = rest[k - 1]
      BY <1>3, <2>2
    <3>2. QED
      BY <1>4, <3>1 DEF WellDrained
  <2>3. QED
    BY <2>1, <2>2
<1>9. c \in start .. Len(buf) /\ ~ Complete(buf, c)
  BY <1>1, <1>5 DEF WellDrained
<1>10. QED
  BY <1>2, <1>4, <1>5, <1>6, <1>7, <1>8, <1>9 DEF WellDrained

(* Draining a buffer takes its complete frames off the front, and all of them. *)
LEMMA DrainedWell ==
  ASSUME NEW buf \in Seq(Bytes)
  PROVE  WellDrained(buf, 0, Drained(buf))
<1>1. PICK f : Drains(buf, f, 0) /\ Drained(buf) = f[0]
  BY DrainedIs
<1> DEFINE Bad == {d \in 0 .. Len(buf) : ~ WellDrained(buf, Len(buf) - d, f[Len(buf) - d])}
<1>2. ASSUME Bad # {} PROVE FALSE
  <2>1. PICK d \in Bad : \A k \in Bad : d <= k
    <3>1. Bad \in SUBSET Nat
      OBVIOUS
    <3>2. QED
      BY <1>2, <3>1, LeastNumber
  <2>2. PICK start \in 0 .. Len(buf) : start = Len(buf) - d
    BY <2>1
  <2>3. f[start] = DrainStep(buf, f, start)
    BY <1>1 DEF Drains
  <2>4. CASE Complete(buf, start)
    <3>1. PICK end \in start + 1 .. Len(buf) : end = FrameEnd(buf, start)
      BY <2>4, FrameEndsBeyond
    <3>2. WellDrained(buf, end, f[end])
      <4>1. /\ Len(buf) - end \in 0 .. Len(buf) /\ Len(buf) - (Len(buf) - end) = end
            /\ ~ d <= Len(buf) - end
        BY <2>1, <2>2, <3>1
      <4>2. QED
        BY <2>1, <4>1
    <3>3. f[start] = [frames |-> <<SubSeq(buf, start + 1, end)>> \o f[end].frames,
                      consumed |-> f[end].consumed]
      BY <2>3, <2>4, <3>1 DEF DrainStep
    <3>4. WellDrained(buf, start, f[start])
      BY <2>4, <3>1, <3>2, <3>3, DrainOne
    <3>5. QED
      BY <2>1, <2>2, <3>4
  <2>5. CASE ~ Complete(buf, start)
    <3>1. f[start] = [frames |-> <<>>, consumed |-> start]
      BY <2>3, <2>5 DEF DrainStep
    <3>2. FlattenSeq(<<>>) = <<>>
      BY DEF FlattenSeq
    <3>3. SubSeq(buf, start + 1, start) = <<>>
      OBVIOUS
    <3>4. /\ f[start].consumed = start /\ f[start].frames = <<>>
          /\ start \in start .. Len(buf) /\ <<>> \in Seq(Seq(Bytes)) /\ DOMAIN <<>> = {}
      BY <3>1
    <3>5. WellDrained(buf, start, f[start])
      BY <2>5, <3>2, <3>3, <3>4 DEF WellDrained
    <3>6. QED
      BY <2>1, <2>2, <3>5
  <2>6. QED
    BY <2>4, <2>5
<1>3. Len(buf) \in 0 .. Len(buf) /\ Len(buf) - Len(buf) = 0
  OBVIOUS
<1>4. QED
  BY <1>1, <1>2, <1>3

-----------------------------------------------------------------------------
(* A sequence cut in two. *)
LEMMA CutInTwo ==
  ASSUME NEW T, NEW s \in Seq(T), NEW c \in 0 .. Len(s)
  PROVE  /\ SubSeq(s, 1, c) \in Seq(T) /\ SubSeq(s, c + 1, Len(s)) \in Seq(T)
         /\ SubSeq(s, 1, c) \o SubSeq(s, c + 1, Len(s)) = s
         /\ Len(SubSeq(s, c + 1, Len(s))) = Len(s) - c
         /\ c < Len(s) => SubSeq(s, c + 1, Len(s))[1] = s[c + 1] /\ s[c + 1] \in T
<1>1. SubSeq(s, 1, c) \in Seq(T) /\ SubSeq(s, c + 1, Len(s)) \in Seq(T)
  OBVIOUS
<1>2. SubSeq(s, 1, c) \o SubSeq(s, c + 1, Len(s)) = SubSeq(s, 1, Len(s))
  <2>1. 1 \in 1 .. Len(s) + 1 /\ c \in 1 - 1 .. Len(s) /\ Len(s) \in c .. Len(s)
    OBVIOUS
  <2>2. QED
    BY <2>1, ConcatAdjacentSubSeq
<1>3. Len(SubSeq(s, c + 1, Len(s))) = Len(s) - c
  OBVIOUS
<1>4. c < Len(s) => SubSeq(s, c + 1, Len(s))[1] = s[c + 1] /\ s[c + 1] \in T
  OBVIOUS
<1>5. QED
  BY <1>1, <1>2, <1>3, <1>4, SubSeqFull

FramingInv ==
  /\ arrived \in Seq(Bytes)
  /\ carry \in Seq(Bytes)
  /\ frames \in Seq(Seq(Bytes))
  /\ FramesAreTheStream

LEMMA FramingInitInv == FramingInit => FramingInv
<1>1. SUFFICES ASSUME FramingInit PROVE FramingInv
  OBVIOUS
<1>2. FlattenSeq(frames) \o carry = arrived
  <2>1. FlattenSeq(<<>>) = <<>>
    BY DEF FlattenSeq
  <2>2. QED
    BY <1>1, <2>1 DEF FramingInit
<1>3. QED
  BY <1>1, <1>2, FramingAssumption DEF FramingInit, FramingInv, FramesAreTheStream

(* Concatenation of bytes is associative, as one formula. *)
LEMMA BytesConcat ==
  \A x, y, z \in Seq(Bytes) : (x \o y) \o z = x \o (y \o z)
OBVIOUS

(* A chunk of any size leaves the frames and the carry the bytes received. *)
LEMMA ReceiveInv ==
  ASSUME FramingInv, NEW chunk \in Seq(Bytes), Receive(chunk)
  PROVE  FramingInv'
<1>1. PICK buf \in Seq(Bytes) : buf = carry \o chunk
  <2>1. carry \in Seq(Bytes)
    BY DEF FramingInv
  <2>2. carry \o chunk \in Seq(Bytes)
    BY <2>1
  <2>3. QED
    BY <2>2
<1>2. PICK d : d = Drained(buf) /\ WellDrained(buf, 0, d)
  BY DrainedWell
<1>3. PICK c \in 0 .. Len(buf) : c = d.consumed
  BY <1>2 DEF WellDrained
<1>4. PICK new \in Seq(Seq(Bytes)) : new = d.frames
  BY <1>2 DEF WellDrained
<1>5. /\ frames' = frames \o new
      /\ carry' = SubSeq(buf, c + 1, Len(buf))
      /\ arrived' = arrived \o chunk
  BY <1>1, <1>2, <1>3, <1>4 DEF Receive, Suffix
<1>6. frames' \in Seq(Seq(Bytes)) /\ carry' \in Seq(Bytes) /\ arrived' \in Seq(Bytes)
  <2>1. carry' \in Seq(Bytes)
    BY <1>5, CutInTwo
  <2>2. QED
    BY <1>5, <2>1 DEF FramingInv
<1>7. FlattenSeq(frames') \o carry' = arrived'
  <2>1. PICK old \in Seq(Bytes) : old = FlattenSeq(frames)
    BY FlattenType DEF FramingInv
  <2>2. PICK head \in Seq(Bytes) : head = SubSeq(buf, 1, c)
    BY CutInTwo
  <2>3. PICK tail \in Seq(Bytes) : tail = SubSeq(buf, c + 1, Len(buf))
    BY CutInTwo
  <2>4. FlattenSeq(frames \o new) = old \o head
    <3>1. FlattenSeq(frames \o new) = FlattenSeq(frames) \o FlattenSeq(new)
      BY FlattenConcat DEF FramingInv
    <3>2. FlattenSeq(new) = head
      BY <1>2, <1>3, <1>4, <2>2 DEF WellDrained
    <3>3. QED
      BY <2>1, <3>1, <3>2
  <2>5. head \o tail = buf
    BY <2>2, <2>3, CutInTwo
  <2>6. (old \o head) \o tail = old \o buf
    <3>1. (old \o head) \o tail = old \o (head \o tail)
      <4>1. \A x, y \in Seq(Bytes) : (old \o x) \o y = old \o (x \o y)
        BY BytesConcat, Zenon
      <4>2. \A y \in Seq(Bytes) : (old \o head) \o y = old \o (head \o y)
        BY <4>1, Zenon
      <4>3. QED
        BY <4>2, Zenon
    <3>2. QED
      BY <2>5, <3>1
  <2>7. old \o buf = (old \o carry) \o chunk
    <3>1. PICK u \in Seq(Bytes) : u = carry
      BY DEF FramingInv
    <3>2. \A x, y \in Seq(Bytes) : (old \o x) \o y = old \o (x \o y)
      BY BytesConcat, Zenon
    <3>3. (old \o u) \o chunk = old \o (u \o chunk)
      <4>1. \A y \in Seq(Bytes) : (old \o u) \o y = old \o (u \o y)
        BY <3>2, Zenon
      <4>2. QED
        BY <4>1, Zenon
    <3>4. QED
      BY <1>1, <3>1, <3>3
  <2>8. old \o carry = arrived
    BY <2>1 DEF FramingInv, FramesAreTheStream
  <2>9. QED
    BY <1>5, <2>3, <2>4, <2>6, <2>7, <2>8
<1>8. ASSUME NEW k \in DOMAIN (frames \o new)
      PROVE  /\ (frames \o new)[k] # <<>>
             /\ Len((frames \o new)[k]) = HeaderSize + (frames \o new)[k][1]
  <2>1. CASE k <= Len(frames)
    <3>1. k \in DOMAIN frames /\ (frames \o new)[k] = frames[k]
      BY <2>1 DEF FramingInv
    <3>2. QED
      BY <3>1 DEF FramingInv, FramesAreTheStream
  <2>2. CASE ~ k <= Len(frames)
    <3>1. k - Len(frames) \in DOMAIN new /\ (frames \o new)[k] = new[k - Len(frames)]
      BY <2>2 DEF FramingInv
    <3>2. QED
      BY <1>2, <1>4, <3>1 DEF WellDrained
  <2>3. QED
    BY <2>1, <2>2
<1>9. Len(carry') >= HeaderSize => Len(carry') < HeaderSize + carry'[1]
  <2>1. SUFFICES ASSUME Len(carry') >= HeaderSize
                 PROVE  Len(carry') < HeaderSize + carry'[1]
    OBVIOUS
  <2>2. Len(carry') = Len(buf) - c
    BY <1>5, CutInTwo
  <2>3. c + 1 \in 1 .. Len(buf) /\ c + HeaderSize <= Len(buf)
    BY <1>3, <2>1, <2>2, FramingAssumption
  <2>4. carry'[1] = buf[c + 1] /\ buf[c + 1] \in Nat
    <3>1. c < Len(buf)
      BY <2>3
    <3>2. SubSeq(buf, c + 1, Len(buf))[1] = buf[c + 1] /\ buf[c + 1] \in Bytes
      BY <3>1, CutInTwo
    <3>3. QED
      BY <1>5, <3>2, FramingAssumption
  <2>5. ~ FrameEnd(buf, c) <= Len(buf)
    BY <1>2, <1>3, <2>3 DEF WellDrained, Complete
  <2>6. QED
    BY <1>3, <2>2, <2>4, <2>5, FramingAssumption DEF FrameEnd
<1>10. QED
  BY <1>5, <1>6, <1>7, <1>8, <1>9 DEF FramingInv, FramesAreTheStream


(* Frames as they stand in the stream: each as long as its header says. *)
WellFramed(seqs) ==
  /\ seqs \in Seq(Seq(Bytes))
  /\ \A k \in DOMAIN seqs : seqs[k] # <<>> /\ Len(seqs[k]) = HeaderSize + seqs[k][1]

(* A part of a sequence that is written as three others. *)
LEMMA MiddlePart ==
  ASSUME NEW T, NEW a \in Seq(T), NEW x \in Seq(T), NEW r \in Seq(T),
         NEW whole, whole = a \o (x \o r)
  PROVE  /\ whole \in Seq(T)
         /\ Len(whole) \in Nat /\ Len(a) + Len(x) <= Len(whole)
         /\ SubSeq(whole, Len(a) + 1, Len(a) + Len(x)) = x
         /\ Len(x) > 0 => whole[Len(a) + 1] = x[1] /\ x[1] \in T
<1>1. whole \in Seq(T)
  <2>1. x \o r \in Seq(T)
    OBVIOUS
  <2>2. QED
    BY <2>1
<1>2. Len(whole) = Len(a) + Len(x) + Len(r)
  OBVIOUS
<1>3. \A i \in 1 .. Len(x) : whole[Len(a) + i] = x[i]
  BY SMTT(20)
<1>4. SubSeq(whole, Len(a) + 1, Len(a) + Len(x)) = x
  BY <1>1, <1>2, <1>3
<1>5. Len(x) > 0 => whole[Len(a) + 1] = x[1] /\ x[1] \in T
  <2>1. Len(x) > 0 => 1 \in 1 .. Len(x)
    OBVIOUS
  <2>2. QED
    BY <1>3, <2>1
<1>6. QED
  BY <1>1, <1>2, <1>4, <1>5, SMTT(20)

(* A sequence and its first elements, written around one of them. *)
LEMMA AroundOne ==
  ASSUME NEW T, NEW s \in Seq(T), NEW k \in 0 .. Len(s) - 1
  PROVE  /\ s[k + 1] \in T /\ k + 1 \in DOMAIN s
         /\ SubSeq(s, 1, k) \in Seq(T) /\ SubSeq(s, k + 2, Len(s)) \in Seq(T)
         /\ SubSeq(s, 1, k + 1) = SubSeq(s, 1, k) \o <<s[k + 1]>>
         /\ s = SubSeq(s, 1, k) \o (<<s[k + 1]>> \o SubSeq(s, k + 2, Len(s)))
<1>1. s[k + 1] \in T /\ k + 1 \in DOMAIN s
  OBVIOUS
<1>2. PICK a \in Seq(T) : a = SubSeq(s, 1, k)
  <2>1. SubSeq(s, 1, k) \in Seq(T)
    OBVIOUS
  <2>2. QED
    BY <2>1
<1>3. PICK b \in Seq(T) : b = SubSeq(s, k + 2, Len(s))
  <2>1. SubSeq(s, k + 2, Len(s)) \in Seq(T)
    OBVIOUS
  <2>2. QED
    BY <2>1
<1>4. PICK x \in T : x = s[k + 1]
  BY <1>1
<1>5. SubSeq(s, 1, k + 1) = a \o <<x>>
  BY <1>2, <1>4
<1>6. s = a \o (<<x>> \o b)
  <2>1. PICK y \in Seq(T) : y = <<x>> \o b
    <3>1. <<x>> \o b \in Seq(T)
      OBVIOUS
    <3>2. QED
      BY <3>1
  <2>2. Len(a) = k /\ Len(b) = Len(s) - k - 1 /\ Len(y) = Len(s) - k
    BY <1>2, <1>3, <2>1
  <2>3. a \o y \in Seq(T) /\ Len(a \o y) = Len(s)
    <3>1. a \o y \in Seq(T) /\ Len(a \o y) = Len(a) + Len(y)
      BY ConcatProperties
    <3>2. Len(s) \in Nat /\ k \in Nat
      OBVIOUS
    <3>3. QED
      BY <2>2, <3>1, <3>2
  <2>4. ASSUME NEW i \in 1 .. Len(s) PROVE s[i] = (a \o y)[i]
    <3>1. CASE i <= k
      BY <1>2, <2>2, <3>1
    <3>2. CASE i = k + 1
      <4>1. y[1] = x
        BY <2>1
      <4>2. QED
        BY <1>4, <2>2, <3>2, <4>1
    <3>3. CASE i >= k + 2
      <4>1. PICK j \in 1 .. Len(b) : i = j + k + 1
        BY <2>2, <3>3
      <4>2. b[j] = s[i]
        BY <1>3, <2>2, <4>1
      <4>3. y[j + 1] = b[j]
        BY <2>1, <4>1
      <4>4. (a \o y)[i] = y[j + 1]
        BY <2>2, <4>1
      <4>5. QED
        BY <4>2, <4>3, <4>4
    <3>4. i \in Int /\ k \in Int
      OBVIOUS
    <3>5. i <= k \/ i = k + 1 \/ i >= k + 2
      BY <3>4
    <3>6. QED
      BY <3>1, <3>2, <3>3, <3>5
  <2>5. s = a \o y
    BY <2>3, <2>4, SeqEqual
  <2>6. QED
    BY <2>1, <2>5
<1>7. QED
  BY <1>1, <1>2, <1>3, <1>4, <1>5, <1>6

(* Four parts of the bytes, the last two taken together. *)
Recut(a, x, c, d) == \E r \in Seq(Bytes) : (a \o (x \o c)) \o d = a \o (x \o r)

(* Any four parts can be. *)
LEMMA FourParts == \A a, x, c, d \in Seq(Bytes) : Recut(a, x, c, d)
<1> TAKE a, x, c, d \in Seq(Bytes)
<1>1. \A u \in Seq(Bytes) : (a \o u) \o d = a \o (u \o d)
  <2>1. \A u, v \in Seq(Bytes) : (a \o u) \o v = a \o (u \o v)
    BY BytesConcat, Zenon
  <2>2. QED
    BY <2>1, Zenon
<1>2. x \o c \in Seq(Bytes) /\ c \o d \in Seq(Bytes)
  BY ConcatProperties
<1>3. (x \o c) \o d = x \o (c \o d)
  BY BytesConcat, Zenon
<1>4. (a \o (x \o c)) \o d = a \o ((x \o c) \o d)
  BY <1>1, <1>2, Zenon
<1>5. QED
  BY <1>2, <1>3, <1>4, Zenon DEF Recut

(* A frame stands in the bytes, complete, behind some others. *)
StandsBehind(x, a, bytes) ==
  /\ Len(a) \in 0 .. Len(bytes)
  /\ Complete(bytes, Len(a))
  /\ x = SubSeq(bytes, Len(a) + 1, FrameEnd(bytes, Len(a)))
  /\ FrameEnd(bytes, Len(a)) = Len(a \o x)

(* A frame that stands among other bytes is complete there. *)
LEMMA FrameAmongBytes ==
  \A a, x, r \in Seq(Bytes) :
     x # <<>> /\ Len(x) = HeaderSize + x[1] => StandsBehind(x, a, a \o (x \o r))
<1> SUFFICES ASSUME NEW a \in Seq(Bytes), NEW x \in Seq(Bytes), NEW r \in Seq(Bytes),
                    x # <<>>, Len(x) = HeaderSize + x[1],
                    NEW bytes, bytes = a \o (x \o r)
             PROVE  StandsBehind(x, a, bytes)
  OBVIOUS
<1>1. Len(a) \in Nat /\ Len(x) \in Nat /\ Len(x) > 0
  OBVIOUS
<1>3. /\ bytes \in Seq(Bytes) /\ Len(bytes) \in Nat /\ Len(a) + Len(x) <= Len(bytes)
      /\ SubSeq(bytes, Len(a) + 1, Len(a) + Len(x)) = x
      /\ bytes[Len(a) + 1] = x[1] /\ x[1] \in Bytes
  BY <1>1, MiddlePart
<1>4. x[1] \in Nat /\ HeaderSize \in Nat
  BY <1>3, FramingAssumption
<1>5. PICK p \in Nat : p = Len(a)
  BY <1>1
<1>6. PICK size \in Nat : size = Len(x) /\ size = HeaderSize + x[1]
  BY <1>1
<1>7. FrameEnd(bytes, p) = p + size
  <2>1. FrameEnd(bytes, p) = p + HeaderSize + x[1]
    BY <1>3, <1>5 DEF FrameEnd
  <2>2. QED
    BY <1>4, <1>6, <2>1
<1>8. Complete(bytes, p)
  BY <1>1, <1>3, <1>4, <1>5, <1>6, <1>7 DEF Complete
<1>9. Len(a \o x) = p + size
  BY <1>5, <1>6, ConcatProperties
<1>10. p \in 0 .. Len(bytes)
  BY <1>1, <1>3, <1>5
<1>11. x = SubSeq(bytes, p + 1, p + size)
  BY <1>3, <1>5, <1>6
<1>12. QED
  <2>1. x = SubSeq(bytes, p + 1, FrameEnd(bytes, p)) /\ FrameEnd(bytes, p) = Len(a \o x)
    BY <1>7, <1>9, <1>11
  <2>2. QED
    BY <1>5, <1>8, <1>10, <2>1 DEF StandsBehind

(* Some bytes, cut into frames and a rest. *)
Cuts(seqs, rest, bytes) ==
  WellFramed(seqs) /\ rest \in Seq(Bytes) /\ bytes = FlattenSeq(seqs) \o rest

(* The frame behind the first k is what the bytes hold behind these. *)
NextAt(seqs, k, bytes) ==
  LET p == Len(FlattenSeq(SubSeq(seqs, 1, k)))
  IN  Complete(bytes, p) /\ seqs[k + 1] = SubSeq(bytes, p + 1, FrameEnd(bytes, p))

(* Where the next of some frames stands in the bytes they flatten to. *)
LEMMA NextFrame ==
  ASSUME NEW seqs, NEW rest, NEW bytes, Cuts(seqs, rest, bytes),
         NEW k \in 0 .. Len(seqs) - 1
  PROVE  NextAt(seqs, k, bytes)
<1> DEFINE front == SubSeq(seqs, 1, k)
           back == SubSeq(seqs, k + 2, Len(seqs))
<1>1. /\ seqs[k + 1] \in Seq(Bytes) /\ k + 1 \in DOMAIN seqs
      /\ front \in Seq(Seq(Bytes)) /\ back \in Seq(Seq(Bytes))
      /\ SubSeq(seqs, 1, k + 1) = front \o <<seqs[k + 1]>>
      /\ seqs = front \o (<<seqs[k + 1]>> \o back)
  BY AroundOne DEF Cuts, WellFramed
<1>2. PICK x \in Seq(Bytes) : x = seqs[k + 1] /\ x # <<>> /\ Len(x) = HeaderSize + x[1]
  BY <1>1 DEF Cuts, WellFramed
<1>3. front \in Seq(Seq(Bytes)) /\ back \in Seq(Seq(Bytes)) /\ <<x>> \in Seq(Seq(Bytes))
  <2>1. <<x>> \in Seq(Seq(Bytes))
    OBVIOUS
  <2>2. QED
    BY <1>1, <2>1
<1>4. seqs = front \o (<<x>> \o back) /\ SubSeq(seqs, 1, k + 1) = front \o <<x>>
  BY <1>1, <1>2
<1> HIDE DEF front, back
<1>5. PICK a \in Seq(Bytes) : a = FlattenSeq(front)
  BY <1>3, FlattenType
<1>6. PICK c \in Seq(Bytes) : c = FlattenSeq(back)
  BY <1>3, FlattenType
<1>7. FlattenSeq(<<x>>) = x
  BY FlattenOne
<1>8. PICK more \in Seq(Seq(Bytes)) : more = <<x>> \o back
  <2>1. PICK u \in Seq(Seq(Bytes)) : u = <<x>>
    BY <1>3
  <2>2. u \o back \in Seq(Seq(Bytes))
    BY <1>3
  <2>3. QED
    BY <2>1, <2>2
<1>9. FlattenSeq(seqs) = a \o (x \o c)
  <2>1. FlattenSeq(<<x>> \o back) = FlattenSeq(<<x>>) \o FlattenSeq(back)
    BY <1>3, FlattenConcat
  <2>2. FlattenSeq(front \o more) = FlattenSeq(front) \o FlattenSeq(more)
    BY <1>3, FlattenConcat
  <2>3. QED
    BY <1>4, <1>5, <1>6, <1>7, <1>8, <2>1, <2>2
<1>10. PICK r \in Seq(Bytes) : bytes = a \o (x \o r)
  <2>1. PICK d \in Seq(Bytes) : d = rest /\ bytes = FlattenSeq(seqs) \o d
    BY DEF Cuts
  <2>2. Recut(a, x, c, d)
    BY FourParts
  <2>3. \E r \in Seq(Bytes) : (a \o (x \o c)) \o d = a \o (x \o r)
    BY <2>2 DEF Recut
  <2>4. QED
    BY <1>9, <2>1, <2>3
<1>11. Len(FlattenSeq(SubSeq(seqs, 1, k))) = Len(a)
  BY <1>5 DEF front
<1>12. StandsBehind(x, a, bytes)
  BY <1>2, <1>10, FrameAmongBytes
<1>13. QED
  BY <1>2, <1>11, <1>12 DEF StandsBehind, NextAt

(* Bytes behind some others are complete where they start if they are     *)
(* complete there alone, and only then.                                     *)
LEMMA CompleteBehind ==
  ASSUME NEW a \in Seq(Bytes), NEW rest \in Seq(Bytes), Complete(a \o rest, Len(a))
  PROVE  Complete(rest, 0)
<1>1. PICK bytes \in Seq(Bytes) : bytes = a \o rest
  <2>1. a \o rest \in Seq(Bytes)
    BY ConcatProperties
  <2>2. QED
    BY <2>1
<1>2. Len(bytes) = Len(a) + Len(rest) /\ Len(a) \in Nat /\ Len(rest) \in Nat
  BY <1>1
<1>3. PICK p \in Nat : p = Len(a)
  BY <1>2
<1>4. PICK size \in Nat : size = Len(rest)
  BY <1>2
<1>5. p + HeaderSize <= p + size /\ FrameEnd(bytes, p) <= p + size
  BY <1>1, <1>2, <1>3, <1>4 DEF Complete
<1>6. HeaderSize \in Nat \ {0}
  BY FramingAssumption
<1>7. size >= HeaderSize /\ 1 \in 1 .. size
  BY <1>5, <1>6
<1>8. bytes[p + 1] = rest[1] /\ rest[1] \in Bytes
  BY <1>1, <1>3, <1>4, <1>7
<1>9. PICK n \in Nat : n = rest[1]
  BY <1>8, FramingAssumption
<1>10. FrameEnd(bytes, p) = p + HeaderSize + n /\ FrameEnd(rest, 0) = 0 + HeaderSize + n
  BY <1>8, <1>9 DEF FrameEnd
<1>11. 0 + HeaderSize <= size /\ FrameEnd(rest, 0) <= size
  BY <1>5, <1>6, <1>7, <1>10
<1>12. QED
  BY <1>4, <1>11 DEF Complete

(* What stands behind the same bytes is the same. *)
LEMMA ConcatCancel ==
  ASSUME NEW T, NEW a \in Seq(T), NEW s \in Seq(T), NEW t \in Seq(T), a \o s = a \o t
  PROVE  s = t
<1>1. PICK whole \in Seq(T) : whole = a \o s /\ whole = a \o t
  <2>1. a \o s \in Seq(T)
    BY ConcatProperties
  <2>2. QED
    BY <2>1
<1>2. Len(whole) = Len(a) + Len(s) /\ \A i \in 1 .. Len(s) : whole[Len(a) + i] = s[i]
  BY <1>1
<1>3. Len(whole) = Len(a) + Len(t) /\ \A i \in 1 .. Len(t) : whole[Len(a) + i] = t[i]
  BY <1>1
<1>4. Len(s) = Len(t)
  BY <1>2, <1>3
<1>5. \A i \in 1 .. Len(s) : s[i] = t[i]
  BY <1>2, <1>3, <1>4
<1>6. QED
  BY <1>4, <1>5, SeqEqual

(* Frames that stand in the same bytes agree as far as both go. *)
LEMMA SameFrames ==
  ASSUME NEW one, NEW rest1, NEW two, NEW rest2, NEW bytes,
         Cuts(one, rest1, bytes), Cuts(two, rest2, bytes),
         NEW n \in Nat, n <= Len(one), n <= Len(two)
  PROVE  SubSeq(one, 1, n) = SubSeq(two, 1, n)
<1> DEFINE Bad == {k \in 0 .. n : SubSeq(one, 1, k) # SubSeq(two, 1, k)}
<1>1. ASSUME Bad # {} PROVE FALSE
  <2>1. PICK k \in Bad : \A j \in Bad : k <= j
    <3>1. Bad \in SUBSET Nat
      OBVIOUS
    <3>2. QED
      BY <1>1, <3>1, LeastNumber
  <2>2. k # 0
    <3>1. SubSeq(one, 1, 0) = <<>> /\ SubSeq(two, 1, 0) = <<>>
      BY DEF Cuts, WellFramed
    <3>2. QED
      BY <2>1, <3>1
  <2>3. PICK m \in Nat : m = k - 1 /\ m + 1 = k /\ m \in 0 .. n /\ ~ k <= m
    BY <2>1, <2>2
  <2>4. m \in 0 .. Len(one) - 1 /\ m \in 0 .. Len(two) - 1
    <3>1. Len(one) \in Nat /\ Len(two) \in Nat /\ k \in 0 .. n
      BY <2>1 DEF Cuts, WellFramed
    <3>2. QED
      BY <2>3, <3>1
  <2>5. SubSeq(one, 1, m) = SubSeq(two, 1, m)
    BY <2>1, <2>3
  <2>6. PICK p : p = Len(FlattenSeq(SubSeq(one, 1, m)))
    OBVIOUS
  <2>8. one[m + 1] = SubSeq(bytes, p + 1, FrameEnd(bytes, p))
    <3>1. NextAt(one, m, bytes)
      BY <2>4, NextFrame
    <3>2. QED
      BY <2>6, <3>1 DEF NextAt
  <2>9. two[m + 1] = SubSeq(bytes, p + 1, FrameEnd(bytes, p))
    <3>1. NextAt(two, m, bytes)
      BY <2>4, NextFrame
    <3>2. QED
      BY <2>5, <2>6, <3>1 DEF NextAt
  <2>10. SubSeq(one, 1, m + 1) = SubSeq(one, 1, m) \o <<one[m + 1]>>
    BY <2>4, AroundOne DEF Cuts, WellFramed
  <2>11. SubSeq(two, 1, m + 1) = SubSeq(two, 1, m) \o <<two[m + 1]>>
    BY <2>4, AroundOne DEF Cuts, WellFramed
  <2>12. SubSeq(one, 1, k) = SubSeq(two, 1, k)
    BY <2>3, <2>5, <2>8, <2>9, <2>10, <2>11
  <2>13. QED
    BY <2>1, <2>12
<1>2. n \in 0 .. n
  OBVIOUS
<1>3. QED
  BY <1>1, <1>2

(* No frame more stands in the bytes than the ones before a leftover. *)
LEMMA NoMoreFrames ==
  ASSUME NEW one, NEW rest1, NEW two, NEW rest2, NEW bytes,
         Cuts(one, rest1, bytes), ~ Complete(rest1, 0), Cuts(two, rest2, bytes)
  PROVE  Len(two) <= Len(one)
<1>1. SUFFICES ASSUME ~ Len(two) <= Len(one) PROVE FALSE
  OBVIOUS
<1>2. PICK k \in Nat : k = Len(one) /\ k \in 0 .. Len(two) - 1 /\ k <= Len(two)
  <2>1. Len(one) \in Nat /\ Len(two) \in Nat
    BY DEF Cuts, WellFramed
  <2>2. QED
    BY <1>1, <2>1
<1>3. SubSeq(two, 1, k) = one
  <2>1. SubSeq(one, 1, k) = one
    BY <1>2, SubSeqFull DEF Cuts, WellFramed
  <2>2. k <= Len(one)
    BY <1>2
  <2>3. SubSeq(one, 1, k) = SubSeq(two, 1, k)
    BY <1>2, <2>2, SameFrames
  <2>4. QED
    BY <2>1, <2>3
<1>4. PICK a \in Seq(Bytes) : a = FlattenSeq(one)
  <2>1. FlattenSeq(one) \in Seq(Bytes)
    BY FlattenType DEF Cuts, WellFramed
  <2>2. QED
    BY <2>1
<1>5. Complete(bytes, Len(a))
  <2>1. NextAt(two, k, bytes)
    BY <1>2, NextFrame
  <2>2. QED
    BY <1>3, <1>4, <2>1 DEF NextAt
<1>6. Complete(a \o rest1, Len(a)) /\ rest1 \in Seq(Bytes)
  BY <1>4, <1>5 DEF Cuts
<1>7. Complete(rest1, 0)
  BY <1>6, CompleteBehind
<1>8. QED
  BY <1>7

(* The frames that stand in some bytes, and what is left over, are given by *)
(* the bytes.                                                               *)
LEMMA OneFraming ==
  ASSUME NEW one, NEW rest1, NEW two, NEW rest2, NEW bytes,
         Cuts(one, rest1, bytes), ~ Complete(rest1, 0),
         Cuts(two, rest2, bytes), ~ Complete(rest2, 0)
  PROVE  one = two /\ rest1 = rest2
<1>1. Len(one) \in Nat /\ Len(two) \in Nat
  BY DEF Cuts, WellFramed
<1>2. Len(two) <= Len(one)
  BY NoMoreFrames
<1>3. Len(one) <= Len(two)
  BY NoMoreFrames
<1>4. PICK n \in Nat : n = Len(one) /\ n = Len(two) /\ n <= Len(one) /\ n <= Len(two)
  BY <1>1, <1>2, <1>3
<1>5. one = two
  <2>1. SubSeq(one, 1, n) = SubSeq(two, 1, n)
    BY <1>4, SameFrames
  <2>2. SubSeq(one, 1, n) = one /\ SubSeq(two, 1, n) = two
    BY <1>4, SubSeqFull DEF Cuts, WellFramed
  <2>3. QED
    BY <2>1, <2>2
<1>6. PICK a \in Seq(Bytes) : a = FlattenSeq(one)
  <2>1. FlattenSeq(one) \in Seq(Bytes)
    BY FlattenType DEF Cuts, WellFramed
  <2>2. QED
    BY <2>1
<1>7. a \o rest1 = a \o rest2 /\ rest1 \in Seq(Bytes) /\ rest2 \in Seq(Bytes)
  BY <1>5, <1>6 DEF Cuts
<1>8. QED
  BY <1>5, <1>7, ConcatCancel

(* What is complete at the start of a suffix is complete in the whole. *)
LEMMA CompleteInSuffix ==
  ASSUME NEW buf \in Seq(Bytes), NEW c \in 0 .. Len(buf), NEW rest \in Seq(Bytes),
         Len(rest) = Len(buf) - c, c < Len(buf) => rest[1] = buf[c + 1],
         Complete(rest, 0)
  PROVE  Complete(buf, c)
<1>1. PICK size \in Nat : size = Len(buf)
  OBVIOUS
<1>2. Len(rest) = size - c /\ c \in Nat /\ 0 \in 0 .. Len(rest) /\ Len(rest) \in Nat
  BY <1>1
<1>3. HeaderSize \in Nat \ {0}
  BY FramingAssumption
<1>4. /\ rest[0 + 1] \in Nat
      /\ FrameEnd(rest, 0) = 0 + HeaderSize + rest[0 + 1]
  BY <1>2, FrameEndsBeyond
<1>5. HeaderSize <= size - c /\ FrameEnd(rest, 0) <= size - c
  BY <1>2, <1>3 DEF Complete
<1>6. PICK n \in Nat : n = rest[0 + 1] /\ n = buf[c + 1]
  BY <1>1, <1>2, <1>3, <1>4, <1>5
<1>7. FrameEnd(rest, 0) = HeaderSize + n
  BY <1>3, <1>4, <1>6
<1>8. FrameEnd(buf, c) = c + HeaderSize + n
  BY <1>6 DEF FrameEnd
<1>9. c + HeaderSize <= size /\ FrameEnd(buf, c) <= size
  BY <1>2, <1>3, <1>5, <1>7, <1>8
<1>10. QED
  BY <1>1, <1>9 DEF Complete

(* What the invariant says of the bytes received: they are cut into frames  *)
(* and a carry that holds no complete one.                                  *)
LEMMA FramingCuts ==
  ASSUME FramingInv
  PROVE  Cuts(frames, carry, arrived) /\ ~ Complete(carry, 0)
<1>1. Cuts(frames, carry, arrived)
  BY DEF FramingInv, FramesAreTheStream, Cuts, WellFramed
<1>2. SUFFICES ASSUME Complete(carry, 0) PROVE FALSE
  BY <1>1
<1>3. PICK c \in Seq(Bytes) : c = carry
  BY DEF FramingInv
<1>4. Complete(c, 0) /\ 0 \in 0 .. Len(c) /\ Len(c) \in Nat
  BY <1>2, <1>3
<1>5. /\ c[0 + 1] \in Nat
      /\ FrameEnd(c, 0) \in 0 + 1 .. Len(c)
      /\ FrameEnd(c, 0) = 0 + HeaderSize + c[0 + 1]
  BY <1>4, FrameEndsBeyond
<1>6. Len(c) >= HeaderSize => Len(c) < HeaderSize + c[1]
  BY <1>3 DEF FramingInv, FramesAreTheStream
<1>7. 0 + HeaderSize <= Len(c)
  BY <1>4 DEF Complete
<1>8. QED
  BY <1>4, <1>5, <1>6, <1>7, FramingAssumption

(* What draining all bytes at once cuts off and leaves is such a cut too. *)
LEMMA DrainedCuts ==
  ASSUME NEW buf \in Seq(Bytes)
  PROVE  /\ Cuts(Drained(buf).frames, Suffix(buf, Drained(buf).consumed), buf)
         /\ ~ Complete(Suffix(buf, Drained(buf).consumed), 0)
<1>1. PICK d : d = Drained(buf) /\ WellDrained(buf, 0, d)
  BY DrainedWell
<1>2. PICK c \in 0 .. Len(buf) : c = d.consumed
  BY <1>1 DEF WellDrained
<1>3. PICK head \in Seq(Bytes) : head = SubSeq(buf, 1, c)
  BY CutInTwo
<1>4. PICK rest \in Seq(Bytes) : rest = SubSeq(buf, c + 1, Len(buf)) /\ rest = Suffix(buf, d.consumed)
  BY <1>2, CutInTwo DEF Suffix
<1>5. head \o rest = buf
  BY <1>3, <1>4, CutInTwo
<1>6. FlattenSeq(d.frames) = head
  BY <1>1, <1>2, <1>3 DEF WellDrained
<1>7. Cuts(d.frames, rest, buf)
  BY <1>1, <1>4, <1>5, <1>6 DEF Cuts, WellFramed, WellDrained
<1>8. ~ Complete(rest, 0)
  <2>1. SUFFICES ASSUME Complete(rest, 0) PROVE FALSE
    OBVIOUS
  <2>2. Len(rest) = Len(buf) - c /\ (c < Len(buf) => rest[1] = buf[c + 1])
    BY <1>4, CutInTwo
  <2>3. Complete(buf, c)
    BY <2>1, <2>2, CompleteInSuffix
  <2>4. QED
    BY <1>1, <1>2, <2>3 DEF WellDrained
<1>9. QED
  BY <1>1, <1>4, <1>7, <1>8

(* Every step of a session keeps the invariant of the bytes received. *)
LEMMA FramingStep == FramingInv /\ [Next]_vars => FramingInv'
<1>1. SUFFICES ASSUME FramingInv, [Next]_vars PROVE FramingInv'
  OBVIOUS
<1>2. CASE UNCHANGED framingVars
  BY <1>1, <1>2 DEF framingVars, FramingInv, FramesAreTheStream
<1>3. CASE ReceiveChunk
  <2>1. PICK n \in 1 .. MaxBytes - Len(arrived) : \E chunk \in [1 .. n -> Bytes] : Receive(chunk)
    BY <1>3 DEF ReceiveChunk
  <2>2. PICK chunk \in [1 .. n -> Bytes] : Receive(chunk)
    BY <2>1
  <2>3. n \in Nat
    OBVIOUS
  <2>4. chunk \in Seq(Bytes)
    BY <2>3
  <2>5. QED
    BY <1>1, <2>2, <2>4, ReceiveInv
<1>4. CASE Send \/ Close \/ DropSession \/ ShardStops \/ Abandon
  BY <1>2, <1>4 DEF Send, Close, DropSession, ShardStops, Abandon
<1>5. CASE SendLoop
  BY <1>2, <1>5 DEF SendLoop, TakeBatch, LeaveLoop, Written, WriteFails, Drain, Flush, CloseWriter
<1>6. CASE StreamEnds \/ ReceiveStops \/ UNCHANGED vars
  BY <1>2, <1>6 DEF StreamEnds, ReceiveStops, vars
<1>7. QED
  BY <1>1, <1>3, <1>4, <1>5, <1>6 DEF Next

(* However the bytes are chunked, the frames cut off so far and the carry   *)
(* are exactly the bytes received, every frame has the length its header    *)
(* says, and none that is complete waits in the carry.                      *)
THEOREM FramesAlwaysTheStream == Spec => []FramesAreTheStream
<1>1. Init => FramingInv
  BY FramingInitInv DEF Init
<1>2. FramingInv => FramesAreTheStream
  BY DEF FramingInv
<1>3. QED
  BY <1>1, <1>2, FramingStep, PTL DEF Spec

(* The frames and the carry are those that draining all bytes received at   *)
(* once would give.                                                         *)
AsIfReceivedAtOnce ==
  LET drained == Drained(arrived)
  IN  frames = drained.frames /\ carry = Suffix(arrived, drained.consumed)

(* How the bytes are chunked never matters: what a session has cut off and  *)
(* what it carries depend on the bytes received and on nothing else, as     *)
(* there is only one way to cut bytes into frames that leaves none behind.  *)
THEOREM ChunksNeverMatter == Spec => []AsIfReceivedAtOnce
<1>1. Init => FramingInv
  BY FramingInitInv DEF Init
<1>2. FramingInv => AsIfReceivedAtOnce
  <2>1. SUFFICES ASSUME FramingInv PROVE AsIfReceivedAtOnce
    OBVIOUS
  <2>2. Cuts(frames, carry, arrived) /\ ~ Complete(carry, 0)
    BY <2>1, FramingCuts
  <2>3. PICK buf \in Seq(Bytes) : buf = arrived
    BY <2>1 DEF FramingInv
  <2>4. PICK seqs : seqs = Drained(buf).frames
    OBVIOUS
  <2>5. PICK rest : rest = Suffix(buf, Drained(buf).consumed)
    OBVIOUS
  <2>6. Cuts(seqs, rest, buf) /\ ~ Complete(rest, 0)
    BY <2>4, <2>5, DrainedCuts
  <2>7. frames = seqs /\ carry = rest
    BY <2>2, <2>3, <2>6, OneFraming
  <2>8. QED
    BY <2>3, <2>4, <2>5, <2>7 DEF AsIfReceivedAtOnce
<1>3. QED
  BY <1>1, <1>2, FramingStep, PTL DEF Spec
=============================================================================
