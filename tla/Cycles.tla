-------------------------------- MODULE Cycles --------------------------------
(***************************************************************************)
(* The search for declarations that contain themselves (uju-protoc/src/ir/ *)
(* lower.rs: check_cycles and visit): depth first, over what each          *)
(* declaration refers to.  The recursion is the stack of the declarations  *)
(* whose visit has begun.                                                  *)
(*                                                                         *)
(* A visit goes into what is still white in any order, where the code      *)
(* follows the fields.  What it meets grey is reported at its end: grey    *)
(* declarations are the ones on the stack, and the stack below a visit     *)
(* does not change while it lasts.                                         *)
(***************************************************************************)
EXTENDS Naturals, Sequences

VARIABLES graph,      \* What each declaration refers to, collections included.
          marks,      \* Mark: white unseen, grey being visited, black done.
          stack,      \* The calls of visit that have not returned.
          recursive   \* The declarations reported.

searchVars == <<graph, marks, stack, recursive>>

(* All that may be searched: declarations are known by their index. *)
Graphs == UNION {[ids -> SUBSET ids] : ids \in SUBSET Nat}

Unmarked(refs) == [id \in DOMAIN refs |-> "white"]

NoSearch == graph = <<>> /\ marks = <<>> /\ stack = <<>> /\ recursive = {}

StartSearch(refs) ==
  /\ graph' = refs
  /\ marks' = Unmarked(refs)
  /\ stack' = <<>>
  /\ recursive' = {}

Top == stack[Len(stack)]

(* A call of visit. *)
Visit(id) ==
  /\ marks[id] = "white"
  /\ marks' = [marks EXCEPT ![id] = "grey"]
  /\ stack' = Append(stack, id)
  /\ UNCHANGED <<graph, recursive>>

(* The loop of check_cycles: the first declaration no visit has reached. *)
VisitNext(id) ==
  /\ stack = <<>>
  /\ \A before \in DOMAIN graph : before < id => marks[before] # "white"
  /\ Visit(id)

(* A visit that goes into something white it refers to. *)
VisitTarget(id) ==
  /\ stack # <<>>
  /\ id \in graph[Top]
  /\ Visit(id)

(* visit that does not tell what it is in the middle of from what is done. *)
ReturnGrey ==
  /\ stack # <<>>
  /\ \A id \in graph[Top] : marks[id] # "white"
  /\ recursive' = recursive \cup {id \in graph[Top] : marks[id] = "grey"}
  /\ stack' = SubSeq(stack, 1, Len(stack) - 1)
  /\ UNCHANGED <<graph, marks>>

(* The end of a visit: what it met grey refers to itself. *)
Return ==
  /\ stack # <<>>
  /\ \A id \in graph[Top] : marks[id] # "white"
  /\ recursive' = recursive \cup {id \in graph[Top] : marks[id] = "grey"}
  /\ marks' = [marks EXCEPT ![Top] = "black"]
  /\ stack' = SubSeq(stack, 1, Len(stack) - 1)
  /\ UNCHANGED graph

Search ==
  \/ \E id \in DOMAIN graph : VisitNext(id) \/ VisitTarget(id)
  \/ Return

Searched == stack = <<>> /\ \A id \in DOMAIN graph : marks[id] # "white"

SearchNext == (\E refs \in Graphs : StartSearch(refs)) \/ Search

SearchSpec == NoSearch /\ [][SearchNext]_searchVars

-----------------------------------------------------------------------------
(* Some declarations of which each refers to one of them: following the     *)
(* references from any of them never ends, so that, as there are finitely   *)
(* many, one contains itself, at some distance.                             *)
Ring(refs, ids) == ids # {} /\ \A id \in ids : refs[id] \cap ids # {}

HasRing(refs) == \E ids \in SUBSET DOMAIN refs : Ring(refs, ids)

(* A schema is rejected for recursion exactly when some declaration         *)
(* contains itself, through however many others (check_cycles): neither a   *)
(* declaration that is reached twice nor the order in which they are        *)
(* written makes a difference.                                              *)
CyclesExactly ==
  Searched => (recursive # {} <=> HasRing(graph))
=============================================================================
