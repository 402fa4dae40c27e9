------------------------------- MODULE StopTree -------------------------------
(***************************************************************************)
(* Stop sources and tokens (util/stop.rs).  A token is the set of sources  *)
(* it is linked to: its own and those of its ancestors.  A source is       *)
(* requested by its owner, once, or by being dropped; the flag and the     *)
(* closing of the channel are one step, since both happen on one thread.   *)
(***************************************************************************)
EXTENDS FiniteSets, Naturals

CONSTANT Sources    \* The stop sources of the run.

VARIABLE requested  \* The sources that were requested or dropped.

StopInit == requested = {}

(* StopSource::request, and Drop for StopSource. *)
Request(sources) == requested' = requested \cup sources

(* StopToken::is_requested: any link. *)
IsRequested(token) == \E source \in token : source \in requested

(* StopToken::child: the parent's links and a source of its own. *)
Child(token, source) == token \cup {source}

(* StopToken::wait returns as soon as one link's channel is closed. *)
WaitReturns(token) == IsRequested(token)

(* What wait_for says when its sleep is over: whether the full time passed  *)
(* without a stop.                                                          *)
SleptThrough(token) == ~ IsRequested(token)

StopTypeOK == requested \subseteq Sources
=============================================================================
