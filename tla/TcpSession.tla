----------------------------- MODULE TcpSession -----------------------------
(***************************************************************************)
(* One TCP session (net/transport/tcp/session.rs): the handle its owner    *)
(* holds, the task that sends what the owner queued, the task that         *)
(* receives, and the stop token that both listen to - requested when the   *)
(* owner closes or drops the session, or when the shard stops.             *)
(*                                                                         *)
(* The tasks run on one thread and change hands at each await: waiting for *)
(* the queue or for a chunk, writing a batch, flushing, closing.  A write  *)
(* may fail at any time, after some of its batch went out.  Messages are   *)
(* numbered in the order they are sent.                                    *)
(***************************************************************************)
EXTENDS Framing

CONSTANTS
  Batch,            \* BATCH: the messages of one write, 64 in the code.
  MaxSends,         \* Bound: the messages the owner sends.
  MaxBytes          \* Bound: the bytes the peer sends.

ASSUME SessionAssumption ==
  Batch \in Nat \ {0} /\ MaxSends \in Nat /\ MaxBytes \in Nat

VARIABLES
  owner,            \* The session is "held", "closed" by its owner or "dropped".
  stopping,         \* The shard's own stop has been requested.
  sent,             \* How many messages have been sent.
  egress,           \* The unbounded queue from the owner to the send loop.
  batch,            \* The send loop's batch.
  sending,          \* Where the send loop is.
  wire,             \* The messages written to the stream.
  failed,           \* A write has failed.
  receiving         \* Where the receive loop is.

ownerVars == <<owner, stopping>>
sendVars == <<egress, batch, sending, wire, failed>>
vars == <<ownerVars, sent, sendVars, receiving, framingVars>>

-----------------------------------------------------------------------------
(* token.is_requested: one of the token's two links. *)
Requested == owner # "held" \/ stopping

Init ==
  /\ owner = "held"
  /\ stopping = FALSE
  /\ sent = 0
  /\ egress = <<>>
  /\ batch = <<>>
  /\ sending = "idle"
  /\ wire = <<>>
  /\ failed = FALSE
  /\ receiving = "reading"
  /\ FramingInit

(* Session::send: queued as long as the send loop has its end of the queue; *)
(* afterwards the message is lost and nobody is told.                       *)
Send ==
  /\ owner # "dropped"
  /\ sent < MaxSends
  /\ sent' = sent + 1
  /\ egress' = IF sending \in {"done", "abandoned"} THEN egress
               ELSE Append(egress, sent + 1)
  /\ UNCHANGED <<ownerVars, batch, sending, wire, failed, receiving, framingVars>>

(* Session::close. *)
Close ==
  /\ owner = "held"
  /\ owner' = "closed"
  /\ UNCHANGED <<stopping, sent, sendVars, receiving, framingVars>>

(* The owner drops the session: the stop source and the queue's sender go.  *)
(* The listener does so right after it has opened a session.                *)
DropSession ==
  /\ owner # "dropped"
  /\ owner' = "dropped"
  /\ UNCHANGED <<stopping, sent, sendVars, receiving, framingVars>>

(* Shard::run requests the shard's stop. *)
ShardStops ==
  /\ ~ stopping
  /\ stopping' = TRUE
  /\ UNCHANGED <<owner, sent, sendVars, receiving, framingVars>>

(* The shard's runtime goes away with the detached tasks in it, wherever    *)
(* they are.                                                                *)
Abandon ==
  /\ stopping
  /\ sending \notin {"done", "abandoned"}
  /\ sending' = "abandoned"
  /\ receiving' = "done"
  /\ egress' = <<>>
  /\ batch' = <<>>
  /\ UNCHANGED <<ownerVars, sent, wire, failed, framingVars>>

-----------------------------------------------------------------------------
(* fill_batch: up to Batch messages in all, those of the queue behind those *)
(* the batch has.                                                           *)
Room == IF Len(egress) < Batch - Len(batch) THEN Len(egress)
        ELSE Batch - Len(batch)

(* fill_batch without its limit. *)
FilledAll == batch \o egress

Filled == batch \o SubSeq(egress, 1, Room)

Unfilled == SubSeq(egress, Room + 1, Len(egress))

(* The select! of the main loop takes a message: it and what else is there  *)
(* becomes a batch.  (The head alone fills the batch if Batch is 1.)        *)
TakeBatch ==
  /\ sending = "idle"
  /\ egress # <<>>
  /\ batch' = Filled
  /\ egress' = Unfilled
  /\ sending' = "writing"
  /\ UNCHANGED <<ownerVars, sent, wire, failed, receiving, framingVars>>

(* The select! sees the token, or a queue that is empty and has no sender   *)
(* any more.  With a message in the queue it may take either branch.        *)
LeaveLoop ==
  /\ sending = "idle"
  /\ Requested
  /\ sending' = "drain"
  /\ UNCHANGED <<ownerVars, sent, egress, batch, wire, failed, receiving, framingVars>>

(* flush_batch that gets its batch back and does not clear it. *)
WrittenAgain ==
  /\ sending \in {"writing", "draining"}
  /\ wire' = wire \o batch
  /\ sending' = IF sending = "writing" THEN "idle" ELSE "drain"
  /\ UNCHANGED <<ownerVars, sent, egress, batch, failed, receiving, framingVars>>

(* flush_batch: the whole batch is written. *)
Written ==
  /\ sending \in {"writing", "draining"}
  /\ wire' = wire \o batch
  /\ batch' = <<>>
  /\ sending' = IF sending = "writing" THEN "idle" ELSE "drain"
  /\ UNCHANGED <<ownerVars, sent, egress, failed, receiving, framingVars>>

(* A main loop that goes on after a failed write. *)
WriteFailsGoesOn ==
  /\ sending \in {"writing", "draining"}
  /\ \E n \in 0 .. Len(batch) - 1 : wire' = wire \o SubSeq(batch, 1, n)
  /\ batch' = <<>>
  /\ failed' = TRUE
  /\ sending' = IF sending = "writing" THEN "idle" ELSE "flush"
  /\ UNCHANGED <<ownerVars, sent, egress, receiving, framingVars>>

(* flush_batch fails after a part of the batch; the rest is dropped with it *)
(* (a message cut in half counts as dropped).  The main loop goes on with   *)
(* the drain all the same; the drain gives up.                              *)
WriteFails ==
  /\ sending \in {"writing", "draining"}
  /\ \E n \in 0 .. Len(batch) - 1 : wire' = wire \o SubSeq(batch, 1, n)
  /\ batch' = <<>>
  /\ failed' = TRUE
  /\ sending' = IF sending = "writing" THEN "drain" ELSE "flush"
  /\ UNCHANGED <<ownerVars, sent, egress, receiving, framingVars>>

(* A drain that writes what is queued once and does not look again. *)
DrainOnce ==
  /\ sending = "drain"
  /\ batch' = <<>>
  /\ egress' = Unfilled
  /\ wire' = wire \o Filled
  /\ sending' = "flush"
  /\ UNCHANGED <<ownerVars, sent, failed, receiving, framingVars>>

(* One turn of the drain loop: until the queue is empty. *)
Drain ==
  /\ sending = "drain"
  /\ batch' = Filled
  /\ egress' = Unfilled
  /\ sending' = IF Filled = <<>> THEN "flush" ELSE "draining"
  /\ UNCHANGED <<ownerVars, sent, wire, failed, receiving, framingVars>>

(* writer.flush, whether it fails or not. *)
Flush ==
  /\ sending = "flush"
  /\ sending' = "closing"
  /\ UNCHANGED <<ownerVars, sent, egress, batch, wire, failed, receiving, framingVars>>

(* writer.close waits until the other half of the stream has been dropped;  *)
(* then the loop returns and drops its end of the queue.                    *)
CloseWriter ==
  /\ sending = "closing"
  /\ receiving = "done"
  /\ sending' = "done"
  /\ egress' = <<>>
  /\ UNCHANGED <<ownerVars, sent, batch, wire, failed, receiving, framingVars>>

-----------------------------------------------------------------------------
(* The select! of the receive loop: a chunk, or the end of the stream, an   *)
(* error or the token.                                                      *)
ReceiveChunk ==
  /\ receiving = "reading"
  /\ \E n \in 1 .. MaxBytes - Len(arrived) :
       \E chunk \in [1 .. n -> Bytes] : Receive(chunk)
  /\ UNCHANGED <<ownerVars, sent, sendVars, receiving>>

StreamEnds ==
  /\ receiving = "reading"
  /\ receiving' = "done"
  /\ UNCHANGED <<ownerVars, sent, sendVars, framingVars>>

(* A receive loop that listens to the shard's token, not the session's. *)
ReceiveStopsLate ==
  /\ receiving = "reading"
  /\ stopping
  /\ receiving' = "done"
  /\ UNCHANGED <<ownerVars, sent, sendVars, framingVars>>

ReceiveStops ==
  /\ receiving = "reading"
  /\ Requested
  /\ receiving' = "done"
  /\ UNCHANGED <<ownerVars, sent, sendVars, framingVars>>

SendLoop ==
  TakeBatch \/ LeaveLoop \/ Written \/ WriteFails \/ Drain \/ Flush \/ CloseWriter

Next ==
  \/ Send \/ Close \/ DropSession \/ ShardStops \/ Abandon
  \/ SendLoop
  \/ ReceiveChunk \/ StreamEnds \/ ReceiveStops

(* The runtime polls a task that can go on; a write ends, well or not, once *)
(* the peer reads or the connection breaks.                                 *)
Fairness == WF_vars(SendLoop) /\ WF_vars(ReceiveStops)

Spec == Init /\ [][Next]_vars /\ Fairness

-----------------------------------------------------------------------------
(* The types of the session's state. *)
TypeOK ==
  /\ owner \in {"held", "closed", "dropped"}
  /\ stopping \in BOOLEAN
  /\ sent \in 0 .. MaxSends
  /\ egress \in Seq(Nat)
  /\ batch \in Seq(Nat) /\ Len(batch) <= Batch
  /\ sending \in {"idle", "writing", "drain", "draining", "flush", "closing",
                  "done", "abandoned"}
  /\ wire \in Seq(Nat)
  /\ failed \in BOOLEAN
  /\ receiving \in {"reading", "done"}

(* Messages go out in the order they were sent and none goes out twice.     *)
(* After a failed write the drain goes on with those behind its batch: what *)
(* the peer misses among the messages it gets stood in one place and is no  *)
(* more than a batch, whatever is sent and whatever fails after; and it     *)
(* misses none as long as no write has failed.                              *)
WireInOrder ==
  \E from \in 0 .. Len(wire), missing \in 0 .. IF failed THEN Batch ELSE 0 :
    \A k \in DOMAIN wire : wire[k] = IF k <= from THEN k ELSE k + missing

(* The drain ends with every message on the wire that has been sent by then,*)
(* before the stop, after it and during the drain's own writes, unless a    *)
(* write failed or the shard went away: only what is sent after its last    *)
(* look at the queue is lost.                                               *)
NothingLostOnClose ==
  [][sending # "flush" /\ sending' = "flush" /\ ~ failed' => Len(wire') = sent']_vars

(* A session that is asked to stop is taken down, although each loop may be *)
(* busy and the writer waits for the reader; and so is one that can neither *)
(* write nor read any more, without being asked.                            *)
SessionEnds ==
  Requested \/ (failed /\ receiving = "done")
    ~> sending \in {"done", "abandoned"} /\ receiving = "done"
=============================================================================
