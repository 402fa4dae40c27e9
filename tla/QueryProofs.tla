----------------------------- MODULE QueryProofs -----------------------------
(***************************************************************************)
(* What a query yields, what it borrows and what drives it, for any tables *)
(* and any number of terms and groups.                                     *)
(***************************************************************************)
EXTENDS Query, FiniteSetTheorems, WellFoundedInduction, TLAPS

-----------------------------------------------------------------------------
(* Every set of numbers that is not empty has a least one, Min. *)
LEMMA MinOfNumbers ==
  ASSUME NEW S \in SUBSET Nat, S # {}
  PROVE  Min(S) \in S /\ \A s \in S : Min(S) <= s
<1>1. \E x \in S : \A y \in S : ~ <<y, x>> \in OpToRel(<, Nat)
  BY WFMin, NatLessThanWellFounded
<1>2. PICK x \in S : \A y \in S : ~ y < x
  BY <1>1 DEF OpToRel
<1>3. \A y \in S : x <= y
  BY <1>2
<1>4. QED
  BY <1>3 DEF Min

(* The driver of a tuple is one of its elements, none is shorter, and those *)
(* before it are longer.                                                    *)
LEMMA DriverIsShortest ==
  ASSUME NEW elements \in SUBSET Nat, elements # {},
         NEW lens, \A k \in elements : lens[k] \in Nat
  PROVE  /\ Driver(elements, lens) \in elements
         /\ \A j \in elements : lens[Driver(elements, lens)] <= lens[j]
         /\ Driver(elements, lens) \in Tried(elements, lens)
<1> DEFINE Best == {k \in elements : lens[k] = Min({lens[j] : j \in elements})}
           d == Min(Best)
<1>1. /\ Min({lens[j] : j \in elements}) \in {lens[j] : j \in elements}
      /\ \A j \in elements : Min({lens[i] : i \in elements}) <= lens[j]
  <2> DEFINE S == {lens[j] : j \in elements}
  <2>1. S \in SUBSET Nat /\ S # {}
    OBVIOUS
  <2>2. Min(S) \in S /\ \A s \in S : Min(S) <= s
    BY <2>1, MinOfNumbers
  <2>3. QED
    BY <2>2
<1>2. Best \in SUBSET Nat /\ Best # {}
  BY <1>1
<1>3. d \in Best /\ \A k \in Best : d <= k
  BY <1>2, MinOfNumbers
<1>4. ASSUME NEW j \in elements
      PROVE  IF j < d THEN lens[d] < lens[j] ELSE lens[d] <= lens[j]
  <2>1. lens[d] <= lens[j]
    BY <1>1, <1>3
  <2>2. ASSUME j < d PROVE lens[j] # lens[d]
    <3>1. j \in Nat /\ d \in Nat /\ (j \in Best => d <= j)
      BY <1>2, <1>3
    <3> HIDE DEF d
    <3>2. j \notin Best
      BY <2>2, <3>1
    <3>3. QED
      BY <1>3, <3>2 DEF d
  <2>3. lens[d] \in Nat /\ lens[j] \in Nat
    BY <1>3
  <2>4. QED
    BY <2>1, <2>2, <2>3
<1>5. d \in elements
  BY <1>3
<1> DEFINE k == Driver(elements, lens)
<1>6. /\ k \in elements
      /\ \A j \in elements : IF j < k THEN lens[k] < lens[j] ELSE lens[k] <= lens[j]
  <2> HIDE DEF d
  <2>1. QED
    BY <1>4, <1>5 DEF Driver
<1> HIDE DEF k
<1>7. ASSUME NEW j \in elements PROVE lens[k] <= lens[j]
  BY <1>6
<1>8. k \in Tried(elements, lens)
  BY <1>6 DEF Tried
<1>9. QED
  BY <1>6, <1>7, <1>8 DEF k

-----------------------------------------------------------------------------
(* The tables and the query, which no step changes. *)
Inputs == tables \in [Components -> Dense] /\ query \in Queries

(* A query has terms; its groups end at some of them and at the last. *)
LEMMA QueryShape ==
  ASSUME Inputs
  PROVE  /\ Len(Terms) \in Nat \ {0} /\ DOMAIN Terms = 1 .. Len(Terms)
         /\ \A k \in DOMAIN Terms : Terms[k] \in Term
         /\ query.ends \in SUBSET (1 .. Len(Terms))
         /\ Len(Terms) \in query.ends
<1>1. PICK n \in 1 .. MaxTerms :
        query \in [terms : [1 .. n -> Term], ends : {ends \in SUBSET (1 .. n) : n \in ends}]
  BY DEF Inputs, Queries
<1>2. Terms \in [1 .. n -> Term] /\ query.ends \in SUBSET (1 .. n) /\ n \in query.ends
  BY <1>1 DEF Terms
<1>3. n \in Nat \ {0}
  BY QueryAssumption
<1>4. Len(Terms) = n
  BY <1>2, <1>3
<1>5. QED
  BY <1>2, <1>3, <1>4

(* What a table holds: handles, one per slot, fewer than Endless. *)
LEMMA TableShape ==
  ASSUME Inputs, NEW k \in DOMAIN Terms
  PROVE  LET table == tables[Terms[k].component]
         IN  /\ Terms[k].component \in Components
             /\ table \in Seq(Handle)
             /\ Len(table) \in Nat /\ Len(table) < Endless
             /\ DOMAIN table = 1 .. Len(table)
             /\ \A i, j \in DOMAIN table : table[i].index = table[j].index => i = j
             /\ IsInjective(table)
<1>1. Terms[k].component \in Components
  BY QueryShape DEF Term
<1>2. tables[Terms[k].component] \in Dense
  BY <1>1 DEF Inputs
<1>3. QED
  BY <1>1, <1>2, QueryAssumption DEF IsInjective

(* The length of a term is that of its table, or Endless for Without. *)
LEMMA TermLensShape ==
  ASSUME Inputs, NEW k \in DOMAIN Terms
  PROVE  /\ TermLens[k] \in Nat /\ TermLens[k] <= Endless
         /\ Terms[k].kind # "without" => TermLens[k] = Len(tables[Terms[k].component])
<1>1. TermLens[k] = TermLen(Terms[k])
  BY DEF TermLens
<1>2. QED
  BY <1>1, TableShape, QueryAssumption DEF TermLen

(* A group has terms of the query, its end among them. *)
LEMMA GroupShape ==
  ASSUME Inputs, NEW end \in query.ends
  PROVE  /\ Group(end) \subseteq DOMAIN Terms
         /\ Group(end) \in SUBSET Nat
         /\ end \in Group(end)
<1>1. end \in 1 .. Len(Terms) /\ Len(Terms) \in Nat
  BY QueryShape
<1>2. Group(end) \subseteq 1 .. end /\ end \in Group(end)
  BY <1>1 DEF Group
<1>3. QED
  BY <1>1, <1>2, QueryShape

(* Every term is in a group. *)
LEMMA GroupsCover ==
  ASSUME Inputs, NEW k \in DOMAIN Terms
  PROVE  \E end \in query.ends : k \in Group(end)
<1> DEFINE Later == {end \in query.ends : k <= end}
<1>1. /\ k \in 1 .. Len(Terms) /\ Len(Terms) \in Nat
      /\ query.ends \in SUBSET (1 .. Len(Terms)) /\ Len(Terms) \in query.ends
  BY QueryShape
<1>2. Later \in SUBSET Nat /\ Later # {}
  BY <1>1
<1>3. Min(Later) \in Later /\ \A end \in Later : Min(Later) <= end
  BY <1>2, MinOfNumbers
<1>4. ASSUME NEW other \in query.ends, other < Min(Later) PROVE other < k
  <2>1. other \in Nat /\ k \in Nat /\ Min(Later) \in Nat
    BY <1>1, <1>3
  <2>2. k <= other => Min(Later) <= other
    BY <1>3
  <2>3. QED
    BY <1>4, <2>1, <2>2
<1>5. QED
  BY <1>1, <1>3, <1>4 DEF Group

(* The length of a group is that of its shortest term. *)
LEMMA GroupLensShape ==
  ASSUME Inputs, NEW end \in query.ends
  PROVE  /\ GroupLens[end] \in Nat
         /\ GroupLens[end] = TermLens[Driver(Group(end), TermLens)]
         /\ \A k \in Group(end) : GroupLens[end] <= TermLens[k]
<1> DEFINE S == {Endless} \cup {TermLens[k] : k \in Group(end)}
           d == Driver(Group(end), TermLens)
<1>1. \A k \in Group(end) : TermLens[k] \in Nat /\ TermLens[k] <= Endless
  BY GroupShape, TermLensShape
<1>2. S \in SUBSET Nat /\ S # {}
  BY <1>1, QueryAssumption
<1>3. Min(S) \in S /\ \A s \in S : Min(S) <= s
  BY <1>2, MinOfNumbers
<1>4. GroupLens[end] = Min(S)
  BY DEF GroupLens
<1>5. d \in Group(end) /\ \A k \in Group(end) : TermLens[d] <= TermLens[k]
  <2>1. Group(end) \in SUBSET Nat /\ Group(end) # {}
    BY GroupShape
  <2>2. QED
    BY <1>1, <2>1, DriverIsShortest
<1>6. TermLens[d] \in Nat /\ TermLens[d] <= Endless
  BY <1>1, <1>5
<1>7. \A s \in S : TermLens[d] <= s
  BY <1>5, <1>6
<1>8. Min(S) = TermLens[d]
  <2>1. TermLens[d] \in S /\ Min(S) \in Nat
    BY <1>2, <1>3, <1>5
  <2>2. Min(S) <= TermLens[d] /\ TermLens[d] <= Min(S)
    BY <1>3, <1>7, <2>1
  <2>3. QED
    BY <1>6, <2>1, <2>2
<1>9. QED
  BY <1>4, <1>5, <1>6, <1>8

(* What drives a query that does not panic: the table of a term that is not *)
(* Without, and no such table is shorter.                                   *)
LEMMA DriverTerm ==
  ASSUME Inputs, ~ Panics
  PROVE  \E d \in DOMAIN Terms :
           /\ Terms[d].kind # "without"
           /\ Entities = tables[Terms[d].component]
           /\ \A k \in DOMAIN Terms :
                Terms[k].kind # "without" =>
                  Len(Entities) <= Len(tables[Terms[k].component])
<1> DEFINE e == Driver(query.ends, GroupLens)
           d == Driver(Group(e), TermLens)
<1>1. /\ e \in query.ends
      /\ \A end \in query.ends : GroupLens[e] <= GroupLens[end]
      /\ e \in Tried(query.ends, GroupLens)
  <2>1. query.ends \in SUBSET Nat /\ query.ends # {}
    BY QueryShape
  <2>2. \A end \in query.ends : GroupLens[end] \in Nat
    BY GroupLensShape
  <2>3. QED
    BY <2>1, <2>2, DriverIsShortest
<1> HIDE DEF e
<1>2. d \in Group(e) /\ d \in Tried(Group(e), TermLens)
  <2>1. Group(e) \in SUBSET Nat /\ Group(e) # {}
    BY <1>1, GroupShape
  <2>2. \A k \in Group(e) : TermLens[k] \in Nat
    BY <1>1, GroupShape, TermLensShape
  <2>3. QED
    BY <2>1, <2>2, DriverIsShortest
<1>3. GroupLens[e] = TermLens[d]
  BY <1>1, GroupLensShape
<1>4. Entities = tables[Terms[d].component]
  BY DEF Entities, e
<1> HIDE DEF d
<1>5. d \in DOMAIN Terms
  BY <1>1, <1>2, GroupShape
<1>6. Terms[d].kind # "without"
  BY <1>1, <1>2 DEF Panics, GroupPanics
<1>7. ASSUME NEW k \in DOMAIN Terms, Terms[k].kind # "without"
      PROVE  Len(Entities) <= Len(tables[Terms[k].component])
  <2>1. PICK end \in query.ends : k \in Group(end)
    BY GroupsCover
  <2>2. GroupLens[e] <= GroupLens[end] /\ GroupLens[end] <= TermLens[k]
    BY <1>1, <2>1, GroupLensShape
  <2>3. GroupLens[e] = Len(Entities)
    BY <1>3, <1>4, <1>5, <1>6, TermLensShape
  <2>4. /\ GroupLens[e] \in Nat /\ GroupLens[end] \in Nat
        /\ TermLens[k] = Len(tables[Terms[k].component]) /\ TermLens[k] \in Nat
    BY <1>1, <1>7, GroupLensShape, TermLensShape
  <2>5. QED
    BY <2>2, <2>3, <2>4
<1>8. QED
  BY <1>4, <1>5, <1>6, <1>7

-----------------------------------------------------------------------------
(* A sequence that holds what stands at some places of another, in whatever *)
(* order but each once.                                                     *)
Collects(seq, from, places) ==
  /\ seq \in Seq(Handle)
  /\ ToSet(seq) = {from[i] : i \in places}
  /\ IsInjective(seq)

(* The places among the first n of the driver at which a term is probed,    *)
(* and those at which all terms match.                                      *)
ProbedAt(k, n) == {i \in 1 .. n : k \in Probed(Entities[i])}
MatchedAt(n) == {i \in 1 .. n : \A k \in DOMAIN Terms : Matches(Terms[k], Entities[i])}

(* The first n handles of the driver have been tried. *)
TriedFirst(n) ==
  /\ remaining = SubSeq(Entities, n + 1, Len(Entities))
  /\ \A k \in DOMAIN Terms : Collects(probes[k], Entities, ProbedAt(k, n))
  /\ Len(probes[1]) = n
  /\ Collects(yielded, Entities, MatchedAt(n))

(* A group whose first term is a Without. *)
StartsWithout(end) == Terms[Min(Group(end))].kind = "without"

(* A query over tables whose borrows do not conflict panics exactly when a  *)
(* group that is asked for its entities starts with a Without: the head, or *)
(* one that is shorter than all groups before it.  A Without behind another *)
(* term of its group does no harm.                                          *)
PanicsOnLeadingWithout ==
  LET leading == \E end \in Tried(query.ends, GroupLens) : StartsWithout(end)
  IN  /\ status = "panicked" => leading
      /\ status \in {"running", "done"} => ~ leading

(* The inductive invariant: a query that runs has tried a prefix of its     *)
(* driver's table, and has probed and yielded according to it.              *)
IInv ==
  /\ Inputs
  /\ status \in {"new", "conflict", "panicked", "running", "done"}
  /\ DOMAIN probes = DOMAIN Terms
  /\ IF status \in {"running", "done"}
     THEN /\ ~ BorrowsConflict /\ ~ Panics
          /\ \E n \in 0 .. Len(Entities) :
               TriedFirst(n) /\ (status = "done" => n = Len(Entities))
     ELSE yielded = <<>> /\ \A k \in DOMAIN Terms : probes[k] = <<>>
  /\ status = "panicked" => Panics

(* A collection grows by one more place. *)
LEMMA CollectOne ==
  ASSUME NEW from \in Seq(Handle), IsInjective(from),
         NEW n \in 0 .. Len(from) - 1, NEW places \in SUBSET (1 .. n),
         NEW seq, Collects(seq, from, places)
  PROVE  /\ Collects(Append(seq, from[n + 1]), from, places \cup {n + 1})
         /\ Len(Append(seq, from[n + 1])) = Len(seq) + 1
<1> DEFINE e == from[n + 1]
           longer == Append(seq, e)
<1>1. /\ seq \in Seq(Handle) /\ ToSet(seq) = {from[i] : i \in places}
      /\ IsInjective(seq)
  BY DEF Collects
<1>2. n + 1 \in 1 .. Len(from) /\ e \in Handle
  OBVIOUS
<1>3. /\ longer \in Seq(Handle) /\ Len(longer) = Len(seq) + 1
      /\ longer[Len(seq) + 1] = e
      /\ \A j \in 1 .. Len(seq) : longer[j] = seq[j]
      /\ DOMAIN seq = 1 .. Len(seq) /\ DOMAIN longer = 1 .. Len(seq) + 1
      /\ Len(seq) \in Nat
  BY <1>1, <1>2
<1>4. e \notin ToSet(seq)
  <2>1. ASSUME NEW i \in places PROVE from[i] # e
    <3>1. i \in DOMAIN from /\ n + 1 \in DOMAIN from /\ i # n + 1
      BY <1>2
    <3>2. QED
      BY <3>1 DEF IsInjective
  <2>2. QED
    BY <1>1, <2>1
<1> HIDE DEF longer, e
<1>5. ToSet(longer) = ToSet(seq) \cup {e}
  BY <1>3 DEF ToSet
<1>6. ToSet(longer) = {from[i] : i \in places \cup {n + 1}}
  BY <1>1, <1>5 DEF e
<1>7. IsInjective(longer)
  <2>1. ASSUME NEW a \in DOMAIN longer, NEW b \in DOMAIN longer, longer[a] = longer[b]
        PROVE  a = b
    <3>1. \A j \in 1 .. Len(seq) : longer[j] \in ToSet(seq)
      BY <1>3 DEF ToSet
    <3>2. CASE a \in 1 .. Len(seq) /\ b \in 1 .. Len(seq)
      BY <1>1, <1>3, <2>1, <3>2 DEF IsInjective
    <3>3. CASE a = Len(seq) + 1 \/ b = Len(seq) + 1
      BY <1>3, <1>4, <2>1, <3>1, <3>3
    <3>4. QED
      BY <1>3, <3>2, <3>3
  <2>2. QED
    BY <2>1 DEF IsInjective
<1>8. QED
  BY <1>3, <1>6, <1>7 DEF Collects, longer, e

(* As the tables and the query stay, so does all that is read from them. *)
LEMMA InputsStay ==
  ASSUME UNCHANGED <<tables, query>>
  PROVE  /\ Inputs => Inputs'
         /\ Terms' = Terms /\ Entities' = Entities
         /\ BorrowsConflict' = BorrowsConflict /\ Panics' = Panics
         /\ \A k, n : ProbedAt(k, n)' = ProbedAt(k, n) /\ MatchedAt(n)' = MatchedAt(n)
<1>1. Terms' = Terms /\ (Inputs => Inputs')
  BY DEF Terms, Inputs
<1>2. TermLens' = TermLens
  BY <1>1 DEF TermLens, TermLen
<1>3. \A end : Group(end)' = Group(end)
  BY DEF Group
<1>4. GroupLens' = GroupLens
  BY <1>2, <1>3 DEF GroupLens
<1>5. Entities' = Entities
  BY <1>1, <1>2, <1>3, <1>4 DEF Entities
<1>6. BorrowsConflict' = BorrowsConflict
  BY <1>1 DEF BorrowsConflict
<1>7. Panics' = Panics
  BY <1>1, <1>2, <1>3, <1>4 DEF Panics, GroupPanics
<1>8. \A term, entity : Matches(term, entity)' = Matches(term, entity)
  BY DEF Matches
<1>9. \A entity : Probed(entity)' = Probed(entity)
  BY <1>1, <1>8 DEF Probed
<1>10. \A k, n : ProbedAt(k, n)' = ProbedAt(k, n) /\ MatchedAt(n)' = MatchedAt(n)
  BY <1>1, <1>5, <1>8, <1>9 DEF ProbedAt, MatchedAt
<1>11. QED
  BY <1>1, <1>5, <1>6, <1>7, <1>10

-----------------------------------------------------------------------------
(* A new query satisfies the invariant. *)
LEMMA InitInv == Init => IInv
<1>1. SUFFICES ASSUME Init PROVE IInv
  OBVIOUS
<1>2. Inputs /\ status = "new" /\ yielded = <<>>
  BY <1>1 DEF Init, Inputs
<1>3. DOMAIN probes = DOMAIN Terms /\ \A k \in DOMAIN Terms : probes[k] = <<>>
  BY <1>1 DEF Init
<1>4. QED
  BY <1>2, <1>3 DEF IInv

(* Iterating starts with the driver's whole table and nothing tried. *)
LEMMA IterInv == IInv /\ Iter => IInv'
<1>1. SUFFICES ASSUME IInv, Iter PROVE IInv'
  OBVIOUS
<1>2. /\ Inputs' /\ Terms' = Terms /\ Entities' = Entities
      /\ BorrowsConflict' = BorrowsConflict /\ Panics' = Panics
      /\ \A k, n : ProbedAt(k, n)' = ProbedAt(k, n) /\ MatchedAt(n)' = MatchedAt(n)
  BY <1>1, InputsStay DEF IInv, Iter
<1>3. /\ ~ BorrowsConflict /\ ~ Panics /\ status' = "running"
      /\ remaining' = Entities /\ probes' = probes /\ yielded' = yielded
      /\ yielded = <<>> /\ \A k \in DOMAIN Terms : probes[k] = <<>>
      /\ DOMAIN probes = DOMAIN Terms
  BY <1>1 DEF IInv, Iter
<1>4. Entities \in Seq(Handle) /\ Len(Entities) \in Nat
  BY <1>1, <1>3, DriverTerm, TableShape DEF IInv
<1>5. \A k : ProbedAt(k, 0) = {} /\ MatchedAt(0) = {}
  BY DEF ProbedAt, MatchedAt
<1>6. Collects(<<>>, Entities, {})
  BY DEF Collects, ToSet, IsInjective
<1>7. 1 \in DOMAIN Terms
  BY <1>1, QueryShape DEF IInv
<1>8. TriedFirst(0)'
  <2>1. Entities = SubSeq(Entities, 0 + 1, Len(Entities))
    BY <1>4
  <2>2. \A k \in DOMAIN Terms : Collects(probes[k], Entities, ProbedAt(k, 0))
    BY <1>3, <1>5, <1>6
  <2>3. Len(probes[1]) = 0
    BY <1>3, <1>7
  <2>4. Collects(yielded, Entities, MatchedAt(0))
    BY <1>3, <1>5, <1>6
  <2>5. QED
    BY <1>2, <1>3, <2>1, <2>2, <2>3, <2>4 DEF TriedFirst
<1>9. 0 \in 0 .. Len(Entities')
  BY <1>2, <1>4
<1>10. QED
  BY <1>2, <1>3, <1>8, <1>9 DEF IInv

(* The first term is probed with every handle of the driver. *)
LEMMA FirstAlwaysProbed ==
  ASSUME Inputs, NEW entity
  PROVE  1 \in Probed(entity)
BY QueryShape DEF Probed

(* A step tries the next handle of the driver. *)
LEMMA StepInv == IInv /\ Step => IInv'
<1>1. SUFFICES ASSUME IInv, Step PROVE IInv'
  OBVIOUS
<1>2. /\ Inputs /\ Inputs' /\ Terms' = Terms /\ Entities' = Entities
      /\ BorrowsConflict' = BorrowsConflict /\ Panics' = Panics
      /\ \A k, n : ProbedAt(k, n)' = ProbedAt(k, n) /\ MatchedAt(n)' = MatchedAt(n)
  BY <1>1, InputsStay DEF IInv, Step
<1>3. /\ ~ BorrowsConflict /\ ~ Panics
      /\ status = "running" /\ status' = "running" /\ remaining # <<>>
      /\ remaining' = Tail(remaining)
  BY <1>1 DEF IInv, Step
<1>4. PICK n \in 0 .. Len(Entities) : TriedFirst(n)
  BY <1>1, <1>3 DEF IInv
<1>5. /\ Entities \in Seq(Handle) /\ Len(Entities) \in Nat
      /\ IsInjective(Entities)
  BY <1>2, <1>3, DriverTerm, TableShape
<1>6. remaining = SubSeq(Entities, n + 1, Len(Entities))
  BY <1>4 DEF TriedFirst
<1>7. n \in 0 .. Len(Entities) - 1
  BY <1>3, <1>5, <1>6
<1>8. /\ Head(remaining) = Entities[n + 1]
      /\ Tail(remaining) = SubSeq(Entities, n + 1 + 1, Len(Entities))
  BY <1>5, <1>6, <1>7
<1> DEFINE entity == Entities[n + 1]
<1>9. /\ probes' = [k \in DOMAIN Terms |->
                      IF k \in Probed(entity) THEN Append(probes[k], entity)
                      ELSE probes[k]]
      /\ yielded' = IF \A k \in DOMAIN Terms : Matches(Terms[k], entity)
                    THEN Append(yielded, entity) ELSE yielded
  BY <1>1, <1>8 DEF Step
<1>10. ASSUME NEW k \in DOMAIN Terms
       PROVE  /\ Collects(probes'[k], Entities, ProbedAt(k, n + 1))
              /\ k \in Probed(entity) => Len(probes'[k]) = Len(probes[k]) + 1
  <2>1. Collects(probes[k], Entities, ProbedAt(k, n))
    BY <1>4 DEF TriedFirst
  <2>2. ProbedAt(k, n) \in SUBSET (1 .. n)
    BY DEF ProbedAt
  <2>3. ProbedAt(k, n + 1) =
          IF k \in Probed(entity) THEN ProbedAt(k, n) \cup {n + 1} ELSE ProbedAt(k, n)
    BY <1>7 DEF ProbedAt
  <2>4. CASE k \in Probed(entity)
    <3>1. probes'[k] = Append(probes[k], entity)
      BY <1>9, <2>4
    <3>2. /\ Collects(Append(probes[k], entity), Entities, ProbedAt(k, n) \cup {n + 1})
          /\ Len(Append(probes[k], entity)) = Len(probes[k]) + 1
      BY <1>5, <1>7, <2>1, <2>2, CollectOne
    <3>3. QED
      BY <2>3, <2>4, <3>1, <3>2
  <2>5. CASE k \notin Probed(entity)
    BY <1>9, <2>1, <2>3, <2>5
  <2>6. QED
    BY <2>4, <2>5
<1>11. Collects(yielded', Entities, MatchedAt(n + 1))
  <2>1. Collects(yielded, Entities, MatchedAt(n))
    BY <1>4 DEF TriedFirst
  <2>2. MatchedAt(n) \in SUBSET (1 .. n)
    BY DEF MatchedAt
  <2> DEFINE matched == \A k \in DOMAIN Terms : Matches(Terms[k], entity)
  <2>3. MatchedAt(n + 1) = IF matched THEN MatchedAt(n) \cup {n + 1} ELSE MatchedAt(n)
    BY <1>7 DEF MatchedAt
  <2>4. yielded' = IF matched THEN Append(yielded, entity) ELSE yielded
    BY <1>9
  <2> HIDE DEF matched
  <2>5. CASE matched
    <3>1. Collects(Append(yielded, entity), Entities, MatchedAt(n) \cup {n + 1})
      BY <1>5, <1>7, <2>1, <2>2, CollectOne
    <3>2. QED
      BY <2>3, <2>4, <2>5, <3>1
  <2>6. CASE ~ matched
    BY <2>1, <2>3, <2>4, <2>6
  <2>7. QED
    BY <2>5, <2>6
<1>12. Len(probes'[1]) = n + 1
  <2>1. 1 \in DOMAIN Terms /\ 1 \in Probed(entity)
    BY <1>2, QueryShape, FirstAlwaysProbed
  <2>2. Len(probes[1]) = n
    BY <1>4 DEF TriedFirst
  <2>3. QED
    BY <1>10, <2>1, <2>2
<1>13. TriedFirst(n + 1)'
  BY <1>2, <1>3, <1>8, <1>10, <1>11, <1>12 DEF TriedFirst
<1>14. n + 1 \in 0 .. Len(Entities') /\ DOMAIN probes' = DOMAIN Terms'
  BY <1>2, <1>5, <1>7, <1>9
<1>15. QED
  BY <1>2, <1>3, <1>13, <1>14 DEF IInv

(* A query ends when its driver has no more handles. *)
LEMMA FinishInv == IInv /\ Finish => IInv'
<1>1. SUFFICES ASSUME IInv, Finish PROVE IInv'
  OBVIOUS
<1>2. /\ Inputs /\ Inputs' /\ Terms' = Terms /\ Entities' = Entities
      /\ BorrowsConflict' = BorrowsConflict /\ Panics' = Panics
      /\ \A k, n : ProbedAt(k, n)' = ProbedAt(k, n) /\ MatchedAt(n)' = MatchedAt(n)
  BY <1>1, InputsStay DEF IInv, Finish
<1>3. /\ ~ BorrowsConflict /\ ~ Panics /\ status' = "done" /\ remaining = <<>>
      /\ UNCHANGED <<remaining, probes, yielded>> /\ DOMAIN probes = DOMAIN Terms
  BY <1>1 DEF IInv, Finish
<1>4. PICK n \in 0 .. Len(Entities) : TriedFirst(n)
  BY <1>1 DEF IInv, Finish
<1>5. Entities \in Seq(Handle) /\ Len(Entities) \in Nat
  BY <1>2, <1>3, DriverTerm, TableShape
<1>6. n = Len(Entities)
  <2>1. remaining = SubSeq(Entities, n + 1, Len(Entities))
    BY <1>4 DEF TriedFirst
  <2>2. n < Len(Entities) => Len(remaining) = Len(Entities) - n
    BY <1>4, <1>5, <2>1
  <2>3. QED
    BY <1>3, <1>4, <1>5, <2>2
<1>7. TriedFirst(n)'
  BY <1>2, <1>3, <1>4 DEF TriedFirst
<1>8. QED
  BY <1>2, <1>3, <1>5, <1>6, <1>7 DEF IInv

(* Every step keeps the invariant. *)
LEMMA NextInv == IInv /\ [Next]_vars => IInv'
<1>1. SUFFICES ASSUME IInv, [Next]_vars PROVE IInv'
  OBVIOUS
<1>2. ASSUME FetchPanics \/ IterPanics PROVE IInv'
  <2>1. /\ status = "new" /\ status' \in {"conflict", "panicked"}
        /\ status' = "panicked" => Panics
        /\ UNCHANGED <<tables, query, probes, yielded>>
    BY <1>2 DEF FetchPanics, IterPanics
  <2>2. Inputs' /\ Terms' = Terms /\ Panics' = Panics
    BY <1>1, <2>1, InputsStay DEF IInv
  <2>3. QED
    BY <1>1, <2>1, <2>2 DEF IInv
<1>3. CASE Iter
  BY <1>1, <1>3, IterInv
<1>4. CASE Step
  BY <1>1, <1>4, StepInv
<1>5. CASE Finish
  BY <1>1, <1>5, FinishInv
<1>6. CASE UNCHANGED vars
  <2>1. UNCHANGED <<tables, query, status, remaining, probes, yielded>>
    BY <1>6 DEF vars
  <2>2. /\ Inputs' /\ Terms' = Terms /\ Entities' = Entities
        /\ BorrowsConflict' = BorrowsConflict /\ Panics' = Panics
        /\ \A k, n : ProbedAt(k, n)' = ProbedAt(k, n) /\ MatchedAt(n)' = MatchedAt(n)
    BY <1>1, <2>1, InputsStay DEF IInv
  <2>3. \A n : TriedFirst(n)' = TriedFirst(n)
    BY <2>1, <2>2 DEF TriedFirst
  <2>4. QED
    BY <1>1, <2>1, <2>2, <2>3 DEF IInv
<1>7. QED
  BY <1>1, <1>2, <1>3, <1>4, <1>5, <1>6 DEF Next

-----------------------------------------------------------------------------
(* The elements of a sequence without repetitions are as many as it is long.*)
LEMMA InjectiveSeqCardinality ==
  ASSUME NEW S, NEW seq \in Seq(S), IsInjective(seq)
  PROVE  Cardinality(ToSet(seq)) = Len(seq)
<1>1. Len(seq) \in Nat /\ DOMAIN seq = 1 .. Len(seq) /\ seq = [i \in 1 .. Len(seq) |-> seq[i]]
  OBVIOUS
<1>2. seq \in [1 .. Len(seq) -> ToSet(seq)]
  BY <1>1 DEF ToSet
<1>3. \A e \in ToSet(seq) : \E i \in 1 .. Len(seq) : seq[i] = e
  BY <1>1 DEF ToSet
<1>4. \A i, j \in 1 .. Len(seq) : seq[i] = seq[j] => i = j
  BY <1>1 DEF IsInjective
<1>5. seq \in Bijection(1 .. Len(seq), ToSet(seq))
  BY <1>2, <1>3, <1>4 DEF Bijection, Injection, Surjection, IsInjective
<1>6. ExistsBijection(1 .. Len(seq), ToSet(seq))
  BY <1>5 DEF ExistsBijection
<1>7. IsFiniteSet(1 .. Len(seq)) /\ Cardinality(1 .. Len(seq)) = Len(seq)
  <2>1. PICK n \in Nat : n = Len(seq)
    BY <1>1
  <2>2. 1 \in Int /\ n \in Int
    BY <2>1
  <2>3. IsFiniteSet(1 .. n) /\ Cardinality(1 .. n) = IF 1 > n THEN 0 ELSE n - 1 + 1
    BY <2>2, FS_Interval
  <2>4. (IF 1 > n THEN 0 ELSE n - 1 + 1) = n
    BY <2>1
  <2>5. QED
    BY <2>1, <2>3, <2>4
<1>8. QED
  BY <1>6, <1>7, FS_Bijection

(* An entity matches when every term does. *)
LEMMA MatchingIsMatches ==
  ASSUME Inputs, NEW entity
  PROVE  entity \in Matching <=>
           /\ \E c \in Components : entity \in ToSet(tables[c])
           /\ \A k \in DOMAIN Terms : Matches(Terms[k], entity)
<1>1. ASSUME NEW k \in DOMAIN Terms
      PROVE  Matches(Terms[k], entity) <=>
               IF Terms[k].kind = "without"
               THEN \A n \in DOMAIN tables[Terms[k].component] :
                      tables[Terms[k].component][n] # entity
               ELSE \E n \in DOMAIN tables[Terms[k].component] :
                      tables[Terms[k].component][n] = entity
  BY DEF Matches, ToSet
<1>2. entity \in UNION {ToSet(tables[c]) : c \in Components} <=>
        \E c \in Components : entity \in ToSet(tables[c])
  OBVIOUS
<1>3. QED
  BY <1>1, <1>2 DEF Matching

(* What the invariant says of a query that has ended. *)
LEMMA InvYields == IInv => YieldsMatching
<1>1. SUFFICES ASSUME IInv, status = "done"
               PROVE  ToSet(yielded) = Matching /\ Len(yielded) = Cardinality(Matching)
  BY DEF YieldsMatching
<1>2. Inputs /\ ~ Panics /\ TriedFirst(Len(Entities))
  BY <1>1 DEF IInv
<1>3. PICK d \in DOMAIN Terms :
        Terms[d].kind # "without" /\ Entities = tables[Terms[d].component]
  BY <1>2, DriverTerm
<1>4. /\ Entities \in Seq(Handle) /\ DOMAIN Entities = 1 .. Len(Entities)
      /\ Terms[d].component \in Components
  BY <1>2, <1>3, TableShape
<1>5. /\ ToSet(yielded) = {Entities[i] : i \in MatchedAt(Len(Entities))}
      /\ IsInjective(yielded) /\ yielded \in Seq(Handle)
  BY <1>2 DEF TriedFirst, Collects
<1>6. ASSUME NEW entity PROVE entity \in ToSet(yielded) <=> entity \in Matching
  <2>1. ASSUME NEW i \in MatchedAt(Len(Entities)), entity = Entities[i]
        PROVE  entity \in Matching
    <3>1. i \in DOMAIN Entities /\ \A k \in DOMAIN Terms : Matches(Terms[k], entity)
      BY <1>4, <2>1 DEF MatchedAt
    <3>2. entity \in ToSet(tables[Terms[d].component])
      BY <1>3, <2>1, <3>1 DEF ToSet
    <3>3. QED
      BY <1>2, <1>4, <3>1, <3>2, MatchingIsMatches
  <2>2. ASSUME entity \in Matching
        PROVE  \E i \in MatchedAt(Len(Entities)) : entity = Entities[i]
    <3>1. \A k \in DOMAIN Terms : Matches(Terms[k], entity)
      BY <1>2, <2>2, MatchingIsMatches
    <3>2. entity \in ToSet(Entities)
      BY <1>3, <3>1 DEF Matches
    <3>3. PICK i \in DOMAIN Entities : entity = Entities[i]
      BY <3>2 DEF ToSet
    <3>4. i \in MatchedAt(Len(Entities))
      BY <1>4, <3>1, <3>3 DEF MatchedAt
    <3>5. QED
      BY <3>3, <3>4
  <2>3. QED
    BY <1>5, <2>1, <2>2
<1>7. QED
  BY <1>5, <1>6, InjectiveSeqCardinality

(* Two terms of one component, one of them Mut, would have conflicted; and  *)
(* the driver names no handle twice.                                        *)
LEMMA InvNoAliasing == IInv => NoAliasing
<1>1. SUFFICES ASSUME IInv, NEW j \in DOMAIN Terms, NEW k \in DOMAIN Terms,
                      Terms[j].kind = "mut", Terms[j].component = Terms[k].component
               PROVE  /\ IsInjective(probes[j])
                      /\ j # k => ToSet(probes[j]) \cap ToSet(probes[k]) = {}
  BY DEF NoAliasing
<1>2. CASE status \in {"running", "done"}
  <2>1. PICK n \in 0 .. Len(Entities) : TriedFirst(n)
    BY <1>1, <1>2 DEF IInv
  <2>2. IsInjective(probes[j])
    BY <2>1 DEF TriedFirst, Collects
  <2>3. j = k
    <3>1. ~ BorrowsConflict
      BY <1>1, <1>2 DEF IInv
    <3>2. ~ j < k /\ ~ k < j
      BY <1>1, <3>1 DEF BorrowsConflict
    <3>3. j \in Nat /\ k \in Nat
      BY <1>1, QueryShape DEF IInv
    <3>4. QED
      BY <3>2, <3>3
  <2>4. QED
    BY <2>2, <2>3
<1>3. CASE status \notin {"running", "done"}
  BY <1>1, <1>3 DEF IInv, IsInjective, ToSet
<1>4. QED
  BY <1>2, <1>3

(* The first term is probed as often as the driver has been advanced. *)
LEMMA InvShortestDrives == IInv => ShortestDrives
<1>1. SUFFICES ASSUME IInv, NEW k \in DOMAIN Terms, Terms[k].kind # "without"
               PROVE  Len(probes[1]) <= Len(tables[Terms[k].component])
  BY DEF ShortestDrives
<1>2. Inputs /\ 1 \in DOMAIN Terms /\ Len(tables[Terms[k].component]) \in Nat
  BY <1>1, QueryShape, TableShape DEF IInv
<1>3. CASE status \in {"running", "done"}
  <2>1. PICK n \in 0 .. Len(Entities) : Len(probes[1]) = n
    BY <1>1, <1>3 DEF IInv, TriedFirst
  <2>2. Len(Entities) <= Len(tables[Terms[k].component])
    BY <1>1, <1>2, <1>3, DriverTerm DEF IInv
  <2>3. Len(Entities) \in Nat
    BY <1>1, <1>2, <1>3, DriverTerm, TableShape DEF IInv
  <2>4. QED
    BY <1>2, <2>1, <2>2, <2>3
<1>4. CASE status \notin {"running", "done"}
  BY <1>1, <1>2, <1>4 DEF IInv
<1>5. QED
  BY <1>3, <1>4

(* A group that is asked for its entities panics when it starts with a      *)
(* Without: behind another term, a Without is never the shorter one.        *)
LEMMA LeadingPanics ==
  ASSUME Inputs, NEW end \in query.ends
  PROVE  GroupPanics(end) <=> StartsWithout(end)
<1>1. Group(end) \in SUBSET Nat /\ Group(end) # {} /\ Group(end) \subseteq DOMAIN Terms
  BY GroupShape
<1>2. PICK first \in Group(end) : first = Min(Group(end)) /\ \A k \in Group(end) : first <= k
  BY <1>1, MinOfNumbers
<1>3. first \in Tried(Group(end), TermLens)
  BY <1>1, <1>2 DEF Tried
<1>4. ASSUME NEW k \in Tried(Group(end), TermLens), Terms[k].kind = "without"
      PROVE  k = first
  <2>1. k \in Group(end) /\ k \in Nat /\ first \in Nat /\ first <= k
    BY <1>1, <1>2 DEF Tried
  <2>2. first < k => TermLens[k] < TermLens[first]
    BY <1>2, <1>4 DEF Tried
  <2>3. TermLens[k] = Endless
    BY <1>1, <1>4, <2>1 DEF TermLens, TermLen
  <2>4. TermLens[first] \in Nat /\ TermLens[first] <= Endless /\ Endless \in Nat
    BY <1>1, TermLensShape, QueryAssumption
  <2>5. QED
    BY <2>1, <2>2, <2>3, <2>4
<1>5. QED
  BY <1>2, <1>3, <1>4 DEF GroupPanics, StartsWithout

(* What the invariant says of a query that has panicked or has not. *)
LEMMA InvPanics == IInv => PanicsOnLeadingWithout
<1>1. SUFFICES ASSUME IInv PROVE PanicsOnLeadingWithout
  OBVIOUS
<1>2. Panics <=> \E end \in Tried(query.ends, GroupLens) : StartsWithout(end)
  <2>1. Tried(query.ends, GroupLens) \subseteq query.ends
    BY DEF Tried
  <2>2. QED
    BY <1>1, <2>1, LeadingPanics DEF IInv, Panics
<1>3. QED
  BY <1>1, <1>2 DEF IInv, PanicsOnLeadingWithout

-----------------------------------------------------------------------------
(* The invariant holds in every state of a query. *)
THEOREM Invariance == Spec => []IInv
<1>1. QED
  BY InitInv, NextInv, PTL DEF Spec

(* A query that ends has yielded the entities that have all components it   *)
(* asks for and none it excludes, each once: whichever term drives it.      *)
THEOREM AlwaysYieldsMatching == Spec => []YieldsMatching
<1>1. QED
  BY Invariance, InvYields, PTL

(* The safety contract of Joinable::get: no query borrows the data of one   *)
(* entity mutably twice.                                                    *)
THEOREM NeverAliases == Spec => []NoAliasing
<1>1. QED
  BY Invariance, InvNoAliasing, PTL

(* A query never examines more candidates than its shortest table has.      *)
THEOREM ShortestAlwaysDrives == Spec => []ShortestDrives
<1>1. QED
  BY Invariance, InvShortestDrives, PTL

(* What is true of "a query needs at least one non-Without term": it is the *)
(* first term of each group that must not be a Without.                     *)
THEOREM PanicsOnlyOnLeadingWithout == Spec => []PanicsOnLeadingWithout
<1>1. QED
  BY Invariance, InvPanics, PTL
=============================================================================
