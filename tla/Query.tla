-------------------------------- MODULE Query --------------------------------
(***************************************************************************)
(* One query over the component tables (ecs/query.rs and                   *)
(* ecs/storage/join.rs): check out the views, choose the shortest term to  *)
(* drive the iteration, and probe every term for each of its entities.     *)
(*                                                                         *)
(* A query is a tuple of groups of terms, written as all its terms in      *)
(* order and the places at which its groups end.  A term stands for the    *)
(* tuple of itself, which behaves the same, and deeper nesting adds        *)
(* nothing: a tuple's length, driver and probe are those of its elements.  *)
(* A table is its dense vector of handles (SparseSet!PositionsAgree: at    *)
(* most one per slot); no table changes while the query is alive           *)
(* (World!ViewsAreStable).                                                 *)
(***************************************************************************)
EXTENDS Integers, Sequences, FiniteSets, SequencesExt

CONSTANTS
  Components,       \* The component types.
  Dense,            \* The dense vectors a table may have.
  Endless,          \* usize::MAX: longer than any table.
  MaxTerms          \* Terms of a query, bounded: 12 per tuple in the code.

Handle == [index : Nat, generation : Nat]

ASSUME QueryAssumption ==
  /\ MaxTerms \in Nat
  /\ Endless \in Nat
  /\ \A dense \in Dense :
       /\ dense \in Seq(Handle)
       /\ Len(dense) < Endless
       /\ \A j, k \in DOMAIN dense : dense[j].index = dense[k].index => j = k

Kinds == {"read", "mut", "with", "without"}
Term == [kind : Kinds, component : Components]

Queries ==
  UNION {[terms : [1 .. n -> Term], ends : {ends \in SUBSET (1 .. n) : n \in ends}] :
         n \in 1 .. MaxTerms}

VARIABLES
  tables,           \* The handles of each table.
  query,            \* The query that runs.
  status,           \* "new", "running", "done" or how it panicked.
  remaining,        \* Join: the driver's handles not yet tried.
  probes,           \* Per term, the handles it was probed for, in order.
  yielded           \* The handles yielded, in order.

vars == <<tables, query, status, remaining, probes, yielded>>

-----------------------------------------------------------------------------
Terms == query.terms

TermLen(term) ==
  IF term.kind = "without" THEN Endless ELSE Len(tables[term.component])

(* The places of the terms of the group that ends at the given one. *)
Group(end) == {k \in 1 .. end : \A other \in query.ends : other < end => other < k}

TermLens == [k \in DOMAIN Terms |-> TermLen(Terms[k])]

(* Joinable::len of a tuple: the least of its elements'. *)
GroupLens ==
  [end \in query.ends |-> Min({Endless} \cup {TermLens[k] : k \in Group(end)})]

(* The head drives, however long it is. *)
DriverHead(elements, lens) == Min(elements)

(* The element of a tuple that is iterated: the first of the shortest. *)
Driver(elements, lens) ==
  CHOOSE k \in elements :
    \A j \in elements : IF j < k THEN lens[k] < lens[j] ELSE lens[k] <= lens[j]

(* The elements whose entities() is called on the way: the head, and every  *)
(* later one that is shorter than all before it.                            *)
Tried(elements, lens) == {k \in elements : \A j \in elements : j < k => lens[k] < lens[j]}

(* Without::entities panics. *)
GroupPanics(end) == \E k \in Tried(Group(end), TermLens) : Terms[k].kind = "without"

Panics == \E end \in Tried(query.ends, GroupLens) : GroupPanics(end)

(* The handles the query iterates. *)
Entities ==
  LET k == Driver(Group(Driver(query.ends, GroupLens)), TermLens)
  IN  tables[Terms[k].component]

(* Query::new that only sees two Mut terms of one component. *)
BorrowsConflictMut ==
  \E j, k \in DOMAIN Terms :
    /\ j < k
    /\ Terms[j].component = Terms[k].component
    /\ Terms[j].kind = "mut" /\ Terms[k].kind = "mut"

(* Query::new borrows the tables term by term: mutably for Mut, else shared.*)
BorrowsConflict ==
  \E j, k \in DOMAIN Terms :
    /\ j < k
    /\ Terms[j].component = Terms[k].component
    /\ "mut" \in {Terms[j].kind, Terms[k].kind}

(* contains that looks at the slot only. *)
MatchesSlot(term, entity) ==
  (\E other \in ToSet(tables[term.component]) : other.index = entity.index)
    = (term.kind # "without")

(* SparseSet::contains (and get), negated for Without. *)
Matches(term, entity) ==
  (entity \in ToSet(tables[term.component])) = (term.kind # "without")

(* get of a tuple: term by term, up to the first that does not match. *)
Probed(entity) ==
  {k \in DOMAIN Terms : \A j \in 1 .. k - 1 : Matches(Terms[j], entity)}

-----------------------------------------------------------------------------
Init ==
  /\ tables \in [Components -> Dense]
  /\ query \in Queries
  /\ status = "new"
  /\ remaining = <<>>
  /\ probes = [k \in DOMAIN Terms |-> <<>>]
  /\ yielded = <<>>

(* Query::new. *)
FetchPanics ==
  /\ status = "new"
  /\ BorrowsConflict
  /\ status' = "conflict"
  /\ UNCHANGED <<tables, query, remaining, probes, yielded>>

(* Query::iter: join(..), which asks the terms for the driver. *)
IterPanics ==
  /\ status = "new"
  /\ ~ BorrowsConflict
  /\ Panics
  /\ status' = "panicked"
  /\ UNCHANGED <<tables, query, remaining, probes, yielded>>

Iter ==
  /\ status = "new"
  /\ ~ BorrowsConflict
  /\ ~ Panics
  /\ status' = "running"
  /\ remaining' = Entities
  /\ UNCHANGED <<tables, query, probes, yielded>>

(* Join::next, one handle of the driver. *)
Step ==
  /\ status = "running"
  /\ remaining # <<>>
  /\ LET entity == Head(remaining)
     IN  /\ probes' = [k \in DOMAIN Terms |->
                         IF k \in Probed(entity) THEN Append(probes[k], entity)
                         ELSE probes[k]]
         /\ yielded' = IF \A k \in DOMAIN Terms : Matches(Terms[k], entity)
                       THEN Append(yielded, entity) ELSE yielded
  /\ remaining' = Tail(remaining)
  /\ UNCHANGED <<tables, query, status>>

(* Join::next returns None. *)
Finish ==
  /\ status = "running"
  /\ remaining = <<>>
  /\ status' = "done"
  /\ UNCHANGED <<tables, query, remaining, probes, yielded>>

Next == FetchPanics \/ IterPanics \/ Iter \/ Step \/ Finish

Spec == Init /\ [][Next]_vars

-----------------------------------------------------------------------------
(* The entities that carry every component asked for and none excluded. *)
Matching ==
  {entity \in UNION {ToSet(tables[c]) : c \in Components} :
     \A k \in DOMAIN Terms :
       IF Terms[k].kind = "without"
       THEN \A n \in DOMAIN tables[Terms[k].component] :
              tables[Terms[k].component][n] # entity
       ELSE \E n \in DOMAIN tables[Terms[k].component] :
              tables[Terms[k].component][n] = entity}

(* A query that runs to its end yields exactly the matching entities, each  *)
(* once, whichever term drives it and however the terms are nested.         *)
YieldsMatching ==
  status = "done" => /\ ToSet(yielded) = Matching
                     /\ Len(yielded) = Cardinality(Matching)

(* The contract that makes Joinable::get of a Mut term sound: for one       *)
(* component no entity's data is borrowed mutably twice, neither by two     *)
(* probes of one term nor by two terms.                                     *)
NoAliasing ==
  \A j, k \in DOMAIN Terms :
    Terms[j].kind = "mut" /\ Terms[j].component = Terms[k].component =>
      /\ IsInjective(probes[j])
      /\ j # k => ToSet(probes[j]) \cap ToSet(probes[k]) = {}

(* The query examines no more candidates than the shortest table among its  *)
(* non-Without terms has entries.                                           *)
ShortestDrives ==
  \A k \in DOMAIN Terms :
    Terms[k].kind # "without" => Len(probes[1]) <= Len(tables[Terms[k].component])

(* What query.rs says of Without: it can never drive iteration, and "a      *)
(* query needs at least one non-Without term" - a query that has one, and   *)
(* whose borrows do not conflict, does not panic.                           *)
DataTermSuffices ==
  (\E k \in DOMAIN Terms : Terms[k].kind # "without") => status # "panicked"
=============================================================================
