------------------------------ MODULE LowerProofs ------------------------------
EXTENDS Generate, SequenceTheorems, FiniteSetTheorems, WellFoundedInduction, TLAPS

(* The types of the search's state. *)
SearchTypeOK ==
  /\ DOMAIN graph \in SUBSET Nat
  /\ graph \in [DOMAIN graph -> SUBSET DOMAIN graph]
  /\ marks \in [DOMAIN graph -> {"white", "grey", "black"}]
  /\ stack \in Seq(DOMAIN graph)
  /\ recursive \in SUBSET DOMAIN graph

(* The grey declarations are those on the stack, each there once. *)
GreyIsOnStack ==
  /\ \A k \in 1 .. Len(stack) : marks[stack[k]] = "grey"
  /\ \A id \in DOMAIN graph : marks[id] = "grey" => \E k \in 1 .. Len(stack) : stack[k] = id
  /\ \A j, k \in 1 .. Len(stack) : stack[j] = stack[k] => j = k

(* Each call of visit was made for a reference of the one below it. *)
StackIsPath ==
  \A k \in 1 .. Len(stack) : k # Len(stack) => stack[k + 1] \in graph[stack[k]]

(* What is done. *)
Black == {id \in DOMAIN graph : marks[id] = "black"}

(* As long as nothing is reported, what is done is done for good: it leads  *)
(* to nothing that is not, and it holds no ring.                            *)
BlackIsClean ==
  recursive = {} =>
    /\ \A id \in Black : graph[id] \subseteq Black
    /\ \A ids \in SUBSET Black : ~ Ring(graph, ids)

(* The inductive invariant of the search. *)
SearchInv ==
  /\ SearchTypeOK
  /\ GreyIsOnStack
  /\ StackIsPath
  /\ recursive # {} => HasRing(graph)
  /\ BlackIsClean

-----------------------------------------------------------------------------
(* A search that begins. *)
LEMMA StartInv ==
  ASSUME NEW refs \in Graphs, StartSearch(refs) PROVE SearchInv'
<1>1. PICK ids \in SUBSET Nat : refs \in [ids -> SUBSET ids]
  BY DEF Graphs
<1>2. /\ graph' = refs /\ DOMAIN graph' = ids /\ DOMAIN refs = ids
      /\ marks' = [id \in ids |-> "white"]
      /\ stack' = <<>> /\ recursive' = {}
      /\ Len(stack') = 0
  BY <1>1 DEF StartSearch, Unmarked
<1>3. SearchTypeOK'
  BY <1>1, <1>2 DEF SearchTypeOK
<1>4. GreyIsOnStack' /\ StackIsPath'
  BY <1>2 DEF GreyIsOnStack, StackIsPath
<1>5. Black' = {}
  BY <1>2 DEF Black
<1>6. BlackIsClean'
  BY <1>5 DEF BlackIsClean, Ring
<1>7. QED
  BY <1>2, <1>3, <1>4, <1>6 DEF SearchInv

(* Before any search. *)
LEMMA NoSearchInv == NoSearch => SearchInv
<1>1. SUFFICES ASSUME NoSearch PROVE SearchInv
  OBVIOUS
<1>2. /\ graph = <<>> /\ marks = <<>> /\ stack = <<>> /\ recursive = {}
      /\ DOMAIN graph = {} /\ Len(stack) = 0
  BY <1>1 DEF NoSearch
<1>3. graph \in [{} -> SUBSET {}] /\ marks \in [{} -> {"white", "grey", "black"}]
  BY <1>2
<1>4. SearchTypeOK
  BY <1>2, <1>3 DEF SearchTypeOK
<1>5. GreyIsOnStack /\ StackIsPath
  BY <1>2 DEF GreyIsOnStack, StackIsPath
<1>6. Black = {}
  BY <1>2 DEF Black
<1>7. BlackIsClean
  BY <1>6 DEF BlackIsClean, Ring
<1>8. QED
  BY <1>2, <1>4, <1>5, <1>7 DEF SearchInv

(* The topmost call, if there is one. *)
LEMMA TopOnStack ==
  ASSUME SearchInv, stack # <<>>
  PROVE  /\ Len(stack) \in Nat \ {0}
         /\ Top \in DOMAIN graph
         /\ marks[Top] = "grey"
<1>1. Len(stack) \in Nat \ {0} /\ stack[Len(stack)] \in DOMAIN graph
  BY EmptySeq, LenProperties, ElementOfSeq DEF SearchInv, SearchTypeOK
<1>2. QED
  BY <1>1 DEF Top, SearchInv, GreyIsOnStack

(* A call of visit, from check_cycles or from the visit on top. *)
LEMMA VisitInv ==
  ASSUME SearchInv, NEW id \in DOMAIN graph, Visit(id),
         stack = <<>> \/ id \in graph[Top]
  PROVE  SearchInv'
<1>1. PICK len \in Nat : len = Len(stack)
  BY LenProperties DEF SearchInv, SearchTypeOK
<1>2. /\ marks[id] = "white"
      /\ marks' = [marks EXCEPT ![id] = "grey"]
      /\ graph' = graph /\ recursive' = recursive
  BY DEF Visit
<1>3. /\ stack' \in Seq(DOMAIN graph)
      /\ Len(stack') = len + 1
      /\ \A k \in 1 .. len : stack'[k] = stack[k]
      /\ stack'[len + 1] = id
  <2>1. stack' = Append(stack, id) /\ stack \in Seq(DOMAIN graph)
    BY DEF Visit, SearchInv, SearchTypeOK
  <2>2. QED
    BY <1>1, <2>1, AppendProperties
<1>4. SearchTypeOK'
  BY <1>2, <1>3 DEF SearchInv, SearchTypeOK
<1>5. \A k \in 1 .. len : stack[k] # id /\ stack[k] \in DOMAIN graph /\ marks[stack[k]] = "grey"
  BY <1>1, <1>2, ElementOfSeq DEF SearchInv, SearchTypeOK, GreyIsOnStack
<1>6. GreyIsOnStack'
  <2>1. \A k \in 1 .. len + 1 : marks'[stack'[k]] = "grey"
    <3>1. DOMAIN marks = DOMAIN graph
      BY DEF SearchInv, SearchTypeOK
    <3>2. \A k \in 1 .. len : marks'[stack'[k]] = "grey"
      BY <1>2, <1>3, <1>5, <3>1
    <3>3. marks'[stack'[len + 1]] = "grey"
      BY <1>2, <1>3, <3>1
    <3>4. \A k \in 1 .. len + 1 : k \in 1 .. len \/ k = len + 1
      BY <1>1
    <3>5. QED
      BY <3>2, <3>3, <3>4
  <2>2. ASSUME NEW other \in DOMAIN graph, marks'[other] = "grey"
        PROVE  \E k \in 1 .. len + 1 : stack'[k] = other
    <3>1. CASE other = id
      BY <1>3, <3>1
    <3>2. CASE other # id
      <4>1. marks[other] = "grey"
        BY <1>2, <2>2, <3>2 DEF SearchInv, SearchTypeOK
      <4>2. PICK k \in 1 .. len : stack[k] = other
        BY <1>1, <4>1 DEF SearchInv, GreyIsOnStack
      <4>3. k \in 1 .. len + 1 /\ stack'[k] = other
        BY <1>3, <4>2
      <4>4. QED
        BY <4>3
    <3>3. QED
      BY <3>1, <3>2
  <2>3. ASSUME NEW j \in 1 .. len + 1, NEW k \in 1 .. len + 1, stack'[j] = stack'[k]
        PROVE  j = k
    <3>1. CASE j \in 1 .. len /\ k \in 1 .. len
      BY <1>1, <1>3, <2>3, <3>1 DEF SearchInv, GreyIsOnStack
    <3>2. CASE j = len + 1 \/ k = len + 1
      BY <1>3, <1>5, <2>3, <3>2
    <3>3. QED
      BY <3>1, <3>2
  <2>4. QED
    BY <1>2, <1>3, <2>1, <2>2, <2>3 DEF GreyIsOnStack
<1>7. StackIsPath'
  <2>1. SUFFICES ASSUME NEW k \in 1 .. len PROVE stack'[k + 1] \in graph[stack'[k]]
    BY <1>2, <1>3 DEF StackIsPath
  <2>2. CASE k # len
    <3>1. stack[k + 1] \in graph[stack[k]]
      BY <1>1, <2>1, <2>2 DEF SearchInv, StackIsPath
    <3>2. k + 1 \in 1 .. len
      BY <2>1, <2>2
    <3>3. QED
      BY <1>3, <2>1, <3>1, <3>2
  <2>3. CASE k = len
    <3>1. stack # <<>>
      BY <1>1, <2>1, EmptySeq
    <3>2. id \in graph[stack[len]]
      BY <1>1, <3>1 DEF Top
    <3>3. QED
      BY <1>3, <2>1, <2>3, <3>2
  <2>4. QED
    BY <2>2, <2>3
<1>8. Black' = Black
  BY <1>2 DEF Black, SearchInv, SearchTypeOK
<1>9. BlackIsClean' /\ (recursive' # {} => HasRing(graph)')
  BY <1>2, <1>8 DEF SearchInv, BlackIsClean, HasRing, Ring
<1>10. QED
  BY <1>4, <1>6, <1>7, <1>9 DEF SearchInv

(* A reference from the top of the stack to something on it closes a ring:  *)
(* the part of the stack from there on.                                     *)
LEMMA GreyClosesRing ==
  ASSUME SearchInv, stack # <<>>, NEW id \in graph[Top], marks[id] = "grey"
  PROVE  HasRing(graph)
<1>1. PICK len \in Nat \ {0} : len = Len(stack)
  BY TopOnStack
<1>2. Top = stack[len] /\ \A k \in 1 .. len : stack[k] \in DOMAIN graph
  BY <1>1, ElementOfSeq DEF Top, SearchInv, SearchTypeOK
<1>3. id \in DOMAIN graph
  BY TopOnStack DEF SearchInv, SearchTypeOK
<1>4. PICK from \in 1 .. len : stack[from] = id
  BY <1>1, <1>3 DEF SearchInv, GreyIsOnStack
<1>5. PICK ids : ids = {stack[k] : k \in from .. len}
  OBVIOUS
<1>6. ids \in SUBSET DOMAIN graph /\ id \in ids
  BY <1>2, <1>4, <1>5
<1>7. ASSUME NEW member \in ids PROVE graph[member] \cap ids # {}
  <2>1. PICK k \in from .. len : member = stack[k]
    BY <1>5
  <2>2. CASE k = len
    BY <1>2, <1>6, <2>1, <2>2
  <2>3. CASE k # len
    <3>1. stack[k + 1] \in graph[member]
      BY <1>1, <2>1, <2>3 DEF SearchInv, StackIsPath
    <3>2. k + 1 \in from .. len
      BY <2>1, <2>3
    <3>3. stack[k + 1] \in ids
      BY <1>5, <3>2
    <3>4. QED
      BY <3>1, <3>3
  <2>4. QED
    BY <2>2, <2>3
<1>8. Ring(graph, ids)
  BY <1>6, <1>7 DEF Ring
<1>9. QED
  BY <1>6, <1>8 DEF HasRing

(* A declaration that refers to done ones only is in no ring of done ones:  *)
(* without it, the ring would still be one.                                 *)
LEMMA OneMoreClean ==
  ASSUME NEW ids, NEW done, NEW id, id \notin done, graph[id] \subseteq done,
         \A other \in done : graph[other] \subseteq done,
         \A ring \in SUBSET done : ~ Ring(graph, ring),
         ids \subseteq done \cup {id}
  PROVE  ~ Ring(graph, ids)
<1>1. SUFFICES ASSUME Ring(graph, ids) PROVE FALSE
  OBVIOUS
<1>2. PICK rest : rest = ids \ {id}
  OBVIOUS
<1>3. rest \in SUBSET done
  BY <1>2
<1>4. \A other \in rest : graph[other] \cap rest # {}
  <2>1. SUFFICES ASSUME NEW other \in rest PROVE graph[other] \cap rest # {}
    OBVIOUS
  <2>2. PICK next : next \in graph[other] /\ next \in ids
    BY <1>1, <1>2, <2>1 DEF Ring
  <2>3. next \in done
    BY <1>3, <2>1, <2>2
  <2>4. QED
    BY <1>2, <2>2, <2>3
<1>5. rest # {}
  <2>1. PICK member : member \in ids
    BY <1>1 DEF Ring
  <2>2. CASE member # id
    BY <1>2, <2>1, <2>2
  <2>3. CASE member = id
    <3>1. PICK next : next \in graph[id] /\ next \in ids
      BY <1>1, <2>1, <2>3 DEF Ring
    <3>2. next \in rest
      BY <1>2, <3>1
    <3>3. QED
      BY <3>2
  <2>4. QED
    BY <2>2, <2>3
<1>6. Ring(graph, rest)
  BY <1>4, <1>5 DEF Ring
<1>7. QED
  BY <1>3, <1>6

(* The end of a visit. *)
LEMMA ReturnInv == ASSUME SearchInv, Return PROVE SearchInv'
<1>1. PICK len \in Nat \ {0} : len = Len(stack)
  BY TopOnStack DEF Return
<1>2. PICK top \in DOMAIN graph : top = Top
  BY TopOnStack DEF Return
<1>3. /\ top = stack[len] /\ marks[top] = "grey"
      /\ \A k \in 1 .. len : stack[k] \in DOMAIN graph
      /\ stack # <<>>
  BY <1>1, <1>2, TopOnStack, ElementOfSeq DEF Top, Return, SearchInv, SearchTypeOK
<1>4. /\ \A id \in graph[top] : marks[id] # "white"
      /\ recursive' = recursive \cup {id \in graph[top] : marks[id] = "grey"}
      /\ marks' = [marks EXCEPT ![top] = "black"]
      /\ graph' = graph
  BY <1>2 DEF Return
<1>5. /\ graph[top] \in SUBSET DOMAIN graph
      /\ marks \in [DOMAIN graph -> {"white", "grey", "black"}]
  BY <1>2 DEF SearchInv, SearchTypeOK
<1>6. PICK last \in Nat : last = len - 1
  BY <1>1
<1>7. /\ stack' \in Seq(DOMAIN graph)
      /\ Len(stack') = last
      /\ \A k \in 1 .. last : stack'[k] = stack[k]
  <2>1. stack' = SubSeq(stack, 1, last)
    BY <1>1, <1>6 DEF Return
  <2>2. \A k \in 1 .. last : stack[k] \in DOMAIN graph
    BY <1>3, <1>6
  <2>3. QED
    BY <2>1, <2>2, SubSeqProperties
<1>8. SearchTypeOK'
  BY <1>4, <1>5, <1>7 DEF SearchInv, SearchTypeOK
<1>9. GreyIsOnStack'
  <2>1. \A j, k \in 1 .. len : stack[j] = stack[k] => j = k
    BY <1>1 DEF SearchInv, GreyIsOnStack
  <2>2. \A k \in 1 .. last : stack[k] # top /\ marks[stack[k]] = "grey" /\ stack[k] \in DOMAIN graph
    BY <1>1, <1>3, <1>6, <2>1 DEF SearchInv, GreyIsOnStack
  <2>3. \A k \in 1 .. last : marks'[stack'[k]] = "grey"
    BY <1>4, <1>5, <1>7, <2>2
  <2>4. ASSUME NEW id \in DOMAIN graph, marks'[id] = "grey"
        PROVE  \E k \in 1 .. last : stack'[k] = id
    <3>1. id # top /\ marks[id] = "grey"
      BY <1>4, <1>5, <2>4
    <3>2. PICK k \in 1 .. len : stack[k] = id
      BY <1>1, <3>1 DEF SearchInv, GreyIsOnStack
    <3>3. k \in 1 .. last
      BY <1>3, <1>6, <3>1, <3>2
    <3>4. QED
      BY <1>7, <3>2, <3>3
  <2>5. \A j, k \in 1 .. last : stack'[j] = stack'[k] => j = k
    BY <1>6, <1>7, <2>1
  <2>6. QED
    BY <1>4, <1>7, <2>3, <2>4, <2>5 DEF GreyIsOnStack
<1>10. StackIsPath'
  <2>1. SUFFICES ASSUME NEW k \in 1 .. last, k # last PROVE stack'[k + 1] \in graph[stack'[k]]
    BY <1>4, <1>7 DEF StackIsPath
  <2>2. stack[k + 1] \in graph[stack[k]] /\ k + 1 \in 1 .. last
    BY <1>1, <1>6, <2>1 DEF SearchInv, StackIsPath
  <2>3. QED
    BY <1>7, <2>1, <2>2
<1>11. recursive' # {} => HasRing(graph)'
  <2>1. recursive' # {} => HasRing(graph)
    BY <1>2, <1>3, <1>4, GreyClosesRing DEF SearchInv
  <2>2. HasRing(graph) => HasRing(graph)'
    BY <1>4 DEF HasRing, Ring
  <2>3. QED
    BY <2>1, <2>2
<1>12. BlackIsClean'
  <2>1. SUFFICES ASSUME recursive' = {}
                 PROVE  /\ \A id \in Black' : graph[id] \subseteq Black'
                        /\ \A ids \in SUBSET Black' : ~ Ring(graph, ids)
    BY <1>4 DEF BlackIsClean, Ring
  <2>2. PICK done : done = Black
    OBVIOUS
  <2>3. Black' = done \cup {top} /\ top \notin done
    BY <1>3, <1>4, <1>5, <2>2 DEF Black
  <2>4. graph[top] \subseteq done
    BY <1>4, <1>5, <2>1, <2>2 DEF Black
  <2>5. /\ \A id \in done : graph[id] \subseteq done
        /\ \A ids \in SUBSET done : ~ Ring(graph, ids)
    BY <1>4, <2>1, <2>2 DEF SearchInv, BlackIsClean
  <2>6. QED
    BY <2>3, <2>4, <2>5, OneMoreClean
<1>13. QED
  BY <1>8, <1>9, <1>10, <1>11, <1>12 DEF SearchInv

(* Every step keeps the invariant. *)
LEMMA SearchNextInv == SearchInv /\ [SearchNext]_searchVars => SearchInv'
<1>1. SUFFICES ASSUME SearchInv, [SearchNext]_searchVars PROVE SearchInv'
  OBVIOUS
<1>2. ASSUME NEW refs \in Graphs, StartSearch(refs) PROVE SearchInv'
  BY <1>2, StartInv
<1>3. ASSUME NEW id \in DOMAIN graph, VisitNext(id) \/ VisitTarget(id) PROVE SearchInv'
  BY <1>1, <1>3, VisitInv DEF VisitNext, VisitTarget
<1>4. CASE Return
  BY <1>1, <1>4, ReturnInv
<1>5. CASE UNCHANGED searchVars
  BY <1>1, <1>5 DEF searchVars, SearchInv, SearchTypeOK, GreyIsOnStack, StackIsPath, HasRing,
                    BlackIsClean, Black, Ring
<1>6. QED
  BY <1>1, <1>2, <1>3, <1>4, <1>5 DEF SearchNext, Search

-----------------------------------------------------------------------------
(* The inductive invariant holds throughout any searches. *)
THEOREM SearchInvariance == SearchSpec => []SearchInv
BY NoSearchInv, SearchNextInv, PTL DEF SearchSpec

(* check_cycles reports something exactly if the references have a ring:    *)
(* what it reports closes one on the stack, and what it is done with        *)
(* without a report holds none.                                             *)
THEOREM CyclesAlwaysExact == SearchSpec => []CyclesExactly
<1>1. SearchInv => CyclesExactly
  <2>1. SUFFICES ASSUME SearchInv, Searched, recursive = {} PROVE ~ HasRing(graph)
    BY DEF CyclesExactly, HasRing, SearchInv
  <2>2. Len(stack) = 0
    BY <2>1 DEF Searched
  <2>3. \A id \in DOMAIN graph : marks[id] = "black"
    <3>1. SUFFICES ASSUME NEW id \in DOMAIN graph PROVE marks[id] = "black"
      OBVIOUS
    <3>2. marks[id] # "white"
      BY <2>1, <3>1 DEF Searched
    <3>3. marks[id] # "grey"
      BY <2>1, <2>2, <3>1 DEF SearchInv, GreyIsOnStack
    <3>4. marks[id] \in {"white", "grey", "black"}
      BY <2>1, <3>1 DEF SearchInv, SearchTypeOK
    <3>5. QED
      BY <3>2, <3>3, <3>4
  <2>4. Black = DOMAIN graph
    BY <2>3 DEF Black
  <2>5. QED
    BY <2>1, <2>4 DEF SearchInv, BlackIsClean, HasRing
<1>2. QED
  BY <1>1, SearchInvariance, PTL

-----------------------------------------------------------------------------
(* The least of some numbers. *)
LEMMA LeastNumber ==
  ASSUME NEW S \in SUBSET Nat, S # {}
  PROVE  \E x \in S : \A y \in S : x <= y
<1>1. \E x \in S : \A y \in S : ~ <<y, x>> \in OpToRel(<, Nat)
  BY WFMin, NatLessThanWellFounded
<1>2. PICK x \in S : \A y \in S : ~ y < x
  BY <1>1 DEF OpToRel
<1>3. \A y \in S : x <= y
  BY <1>2
<1>4. QED
  BY <1>3

(* Induction over the numbers up to some number. *)
LEMMA UpTo ==
  ASSUME NEW n \in Nat, NEW S, 0 \in S, \A k \in 1 .. n : k - 1 \in S => k \in S
  PROVE  \A k \in 0 .. n : k \in S
<1>1. SUFFICES ASSUME {k \in 0 .. n : k \notin S} # {} PROVE FALSE
  OBVIOUS
<1>2. {k \in 0 .. n : k \notin S} \in SUBSET Nat
  OBVIOUS
<1>3. PICK least \in {k \in 0 .. n : k \notin S} :
        \A y \in {k \in 0 .. n : k \notin S} : least <= y
  BY <1>1, <1>2, LeastNumber
<1>4. least \in 1 .. n /\ least - 1 \in 0 .. n
  BY <1>3
<1>5. least - 1 \in S
  BY <1>3, <1>4
<1>6. QED
  BY <1>3, <1>4, <1>5

-----------------------------------------------------------------------------
(* Following references. *)
ClosedUnder(refs, S) == \A id \in S : refs[id] \subseteq S

(* Closure's recursion: one step from S, the recursion's body, and its      *)
(* function.                                                                *)
NextReached(refs, S) == S \cup UNION {refs[id] : id \in S}

(* One unfolding of the recursion. *)
ReachStep(refs, f, S) ==
  IF NextReached(refs, S) = S THEN S ELSE f[NextReached(refs, S)]

(* The function that Closure applies. *)
Reach(refs) ==
  CHOOSE reached : reached = [S \in SUBSET DOMAIN refs |-> ReachStep(refs, reached, S)]

(* What every closed set around S holds. *)
Around(refs, S) ==
  {id \in DOMAIN refs : \A U \in SUBSET DOMAIN refs :
                          S \subseteq U /\ ClosedUnder(refs, U) => id \in U}

(* Every reference is to a declaration. *)
IsGraph(refs) == \A id \in DOMAIN refs : refs[id] \subseteq DOMAIN refs

(* Closure applies that function. *)
LEMMA ClosureIsReach ==
  ASSUME NEW refs, NEW ids PROVE Closure(refs, ids) = Reach(refs)[ids]
BY DEF Closure, Reach, ReachStep, NextReached

(* A step from S changes nothing of what the closed sets around S hold. *)
LEMMA AroundSteps ==
  ASSUME NEW refs, IsGraph(refs), NEW S \in SUBSET DOMAIN refs
  PROVE  /\ NextReached(refs, S) \in SUBSET DOMAIN refs
         /\ S \subseteq NextReached(refs, S)
         /\ NextReached(refs, S) = S => Around(refs, S) = S
         /\ Around(refs, NextReached(refs, S)) = Around(refs, S)
<1>1. /\ NextReached(refs, S) \in SUBSET DOMAIN refs
      /\ S \subseteq NextReached(refs, S)
  BY DEF IsGraph, NextReached
<1>2. ASSUME NextReached(refs, S) = S PROVE Around(refs, S) = S
  <2>1. ClosedUnder(refs, S)
    BY <1>2 DEF NextReached, ClosedUnder
  <2>2. QED
    BY <2>1 DEF Around
<1>3. ASSUME NEW U \in SUBSET DOMAIN refs, ClosedUnder(refs, U)
      PROVE  S \subseteq U <=> NextReached(refs, S) \subseteq U
  BY <1>3 DEF ClosedUnder, NextReached
<1>4. Around(refs, NextReached(refs, S)) = Around(refs, S)
  BY <1>3 DEF Around
<1>5. QED
  BY <1>1, <1>2, <1>4

(* The recursion has a solution on a finite graph: each step that changes   *)
(* S leaves fewer declarations out of it.                                   *)
LEMMA ReachIsAround ==
  ASSUME NEW refs, IsGraph(refs), IsFiniteSet(DOMAIN refs), NEW S \in SUBSET DOMAIN refs
  PROVE  Reach(refs)[S] = Around(refs, S)
<1> DEFINE F == [U \in SUBSET DOMAIN refs |-> Around(refs, U)]
<1>1. F = [U \in SUBSET DOMAIN refs |-> ReachStep(refs, F, U)]
  <2>1. ASSUME NEW U \in SUBSET DOMAIN refs PROVE Around(refs, U) = ReachStep(refs, F, U)
    BY AroundSteps DEF ReachStep
  <2>2. QED
    BY <2>1
<1> HIDE DEF F
<1>2. Reach(refs) = [U \in SUBSET DOMAIN refs |-> ReachStep(refs, Reach(refs), U)]
  BY <1>1 DEF Reach
<1>3. PICK f : f = Reach(refs)
  OBVIOUS
<1>4. \A U \in SUBSET DOMAIN refs : f[U] = ReachStep(refs, f, U)
  BY <1>2, <1>3
<1> DEFINE Bad == {n \in Nat : \E U \in SUBSET DOMAIN refs :
                     n = Cardinality(DOMAIN refs \ U) /\ f[U] # Around(refs, U)}
<1>5. SUFFICES ASSUME Bad # {} PROVE FALSE
  <2>1. ASSUME f[S] # Around(refs, S) PROVE Cardinality(DOMAIN refs \ S) \in Bad
    <3>1. Cardinality(DOMAIN refs \ S) \in Nat
      BY FS_Difference, FS_CardinalityType
    <3>2. QED
      BY <2>1, <3>1
  <2>2. QED
    BY <1>3, <2>1
<1>6. PICK n \in Bad : \A m \in Bad : n <= m
  BY <1>5, LeastNumber
<1>7. PICK U \in SUBSET DOMAIN refs :
        n = Cardinality(DOMAIN refs \ U) /\ f[U] # Around(refs, U)
  BY <1>6
<1>8. PICK next \in SUBSET DOMAIN refs : next = NextReached(refs, U)
  BY AroundSteps
<1>9. U \subseteq next /\ next # U /\ f[U] = f[next] /\ Around(refs, next) = Around(refs, U)
  BY <1>4, <1>7, <1>8, AroundSteps DEF ReachStep
<1>10. /\ IsFiniteSet(DOMAIN refs \ U)
       /\ DOMAIN refs \ next \subseteq DOMAIN refs \ U
       /\ DOMAIN refs \ next # DOMAIN refs \ U
  BY <1>9, FS_Difference
<1>11. /\ Cardinality(DOMAIN refs \ next) \in Nat
       /\ Cardinality(DOMAIN refs \ next) < n
  BY <1>7, <1>10, FS_Subset, FS_CardinalityType
<1>12. Cardinality(DOMAIN refs \ next) \in Bad
  BY <1>7, <1>9, <1>11
<1>13. n \in Nat
  BY <1>6
<1> HIDE DEF Bad
<1>14. n <= Cardinality(DOMAIN refs \ next)
  BY <1>6, <1>12
<1>15. QED
  BY <1>11, <1>13, <1>14

(* Following references from some declarations reaches them and what any    *)
(* of the reached refers to, and nothing that some closed set does without. *)
LEMMA ClosureIsLeast ==
  ASSUME NEW refs, IsGraph(refs), IsFiniteSet(DOMAIN refs), NEW ids \in SUBSET DOMAIN refs
  PROVE  /\ Closure(refs, ids) \in SUBSET DOMAIN refs
         /\ ids \subseteq Closure(refs, ids)
         /\ ClosedUnder(refs, Closure(refs, ids))
         /\ \A S \in SUBSET DOMAIN refs :
              ids \subseteq S /\ ClosedUnder(refs, S) => Closure(refs, ids) \subseteq S
<1>1. Closure(refs, ids) = Around(refs, ids)
  BY ClosureIsReach, ReachIsAround
<1>2. ClosedUnder(refs, Around(refs, ids))
  BY DEF ClosedUnder, Around, IsGraph
<1>3. QED
  BY <1>1, <1>2 DEF Around
-----------------------------------------------------------------------------
(* What a declaration is lowered to. *)
IsLoweredFrom(t, ty, w, clean) ==
  \E source, scope, options :
    /\ ty = LowerType(t, source, scope, w)
    /\ clean => TypeErrors(t, source, scope, w, options) = {}

(* The types of a lowered declaration are lowered from the ones it was      *)
(* written with, and none had an error if the declaration has none.         *)
TypesLoweredFrom(t, def, item, clean) ==
  \A ty \in TypesOf(def) : \E w \in TypesOf(item) : IsLoweredFrom(t, ty, w, clean)

(* The kind, the place and the name of a lowered declaration. *)
LEMMA LoweredHead ==
  ASSUME NEW t, NEW id, NEW site, NEW item, NEW def, def = LowerDef(t, id, site, item)
  PROVE  /\ def.tag = item.tag /\ def.ns = site.ns
         /\ def.parent = site.parent /\ def.name = item.name
BY DEF LowerDef, OrElse

(* A part of its body. *)
LEMMA LoweredBody ==
  ASSUME NEW t, NEW id, NEW site, NEW item, NEW body, body = LowerBody(t, id, site, item),
         NEW part \in DOMAIN body, part \notin {"tag", "ns", "parent", "name"}
  PROVE  LowerDef(t, id, site, item)[part] = body[part]
BY DEF LowerDef, OrElse

(* The types of lowered fields. *)
LEMMA LoweredFields ==
  ASSUME NEW t, NEW source, NEW scope, NEW fields, NEW clean,
         clean => FieldErrors(t, source, scope, fields) = {},
         NEW ty \in FieldTypes(LowerFields(t, source, scope, fields))
  PROVE  \E w \in FieldTypes(fields) : IsLoweredFrom(t, ty, w, clean)
<1>1. PICK k \in DOMAIN fields : ty = LowerType(t, source, scope, fields[k].ty)
  BY DEF FieldTypes, LowerFields, LowerField
<1>2. fields[k].ty \in FieldTypes(fields)
  BY DEF FieldTypes
<1>3. clean => TypeErrors(t, source, scope, fields[k].ty, 1) = {}
  <2>1. PICK w : w = fields[k].ty
    OBVIOUS
  <2>2. FieldTypeErrors(t, source, scope, w) \subseteq FieldErrors(t, source, scope, fields)
    BY <1>2, <2>1 DEF FieldErrors
  <2>3. TypeErrors(t, source, scope, w, 1) \subseteq FieldTypeErrors(t, source, scope, w)
    BY DEF FieldTypeErrors
  <2>4. QED
    BY <2>1, <2>2, <2>3
<1>4. QED
  BY <1>1, <1>2, <1>3 DEF IsLoweredFrom

(* Each type of a lowered declaration comes from one it was written with. *)
LEMMA LoweredTypes ==
  ASSUME NEW t, NEW id, NEW site, NEW item
  PROVE  TypesLoweredFrom(t, LowerDef(t, id, site, item), item,
                          DefErrors(t, id, site, item) = {})
<1>1. PICK def : def = LowerDef(t, id, site, item)
  OBVIOUS
<1>2. PICK clean : clean = (DefErrors(t, id, site, item) = {})
  OBVIOUS
<1>3. PICK body : body = LowerBody(t, id, site, item)
  OBVIOUS
<1>4. def.tag = item.tag
  BY <1>1, LoweredHead
<1>5. SUFFICES ASSUME NEW ty \in TypesOf(def)
               PROVE  \E w \in TypesOf(item) : IsLoweredFrom(t, ty, w, clean)
  BY <1>1, <1>2 DEF TypesLoweredFrom
<1>6. CASE item.tag \in {"struct", "message", "hub"}
  <2>1. "fields" \in DOMAIN body /\ body.fields = LowerFields(t, site.source, id, item.fields)
    BY <1>6, <1>3 DEF LowerBody
  <2>2. def.fields = LowerFields(t, site.source, id, item.fields)
    BY <1>1, <1>3, <2>1, LoweredBody
  <2>3. clean => FieldErrors(t, site.source, id, item.fields) = {}
    BY <1>2, <1>6 DEF DefErrors
  <2>4. CASE ty \in FieldTypes(def.fields)
    <3>1. \E w \in FieldTypes(item.fields) : IsLoweredFrom(t, ty, w, clean)
      BY <2>2, <2>3, <2>4, LoweredFields
    <3>2. QED
      BY <1>6, <3>1 DEF TypesOf, BodyTypes
  <2>5. CASE item.tag = "hub" /\ ty = def.key
    <3>1. "key" \in DOMAIN body /\ body.key = LowerType(t, site.source, site.parent, item.key)
      BY <1>3, <2>5 DEF LowerBody
    <3>2. def.key = LowerType(t, site.source, site.parent, item.key)
      BY <1>1, <1>3, <3>1, LoweredBody
    <3>3. clean => TypeErrors(t, site.source, site.parent, item.key, 1) = {}
      BY <1>2, <2>5 DEF DefErrors
    <3>4. IsLoweredFrom(t, ty, item.key, clean)
      BY <2>5, <3>2, <3>3 DEF IsLoweredFrom
    <3>5. QED
      BY <2>5, <3>4 DEF TypesOf
  <2>6. QED
    BY <1>4, <1>5, <1>6, <2>4, <2>5 DEF TypesOf, BodyTypes
<1>7. CASE item.tag = "union"
  <2>1. /\ DOMAIN def.variants = DOMAIN item.variants
        /\ \A v \in DOMAIN item.variants :
             def.variants[v].data = LowerData(t, site.source, id, item.variants[v].data)
    <3>1. /\ "variants" \in DOMAIN body
          /\ DOMAIN body.variants = DOMAIN item.variants
          /\ \A v \in DOMAIN item.variants :
               body.variants[v].data = LowerData(t, site.source, id, item.variants[v].data)
      BY <1>7, <1>3 DEF LowerBody
    <3>2. def.variants = body.variants
      BY <1>1, <1>3, <3>1, LoweredBody
    <3>3. QED
      BY <3>1, <3>2
  <2>2. clean => \A v \in DOMAIN item.variants :
                   DataErrors(t, site.source, id, item.variants[v].data) = {}
    BY <1>2, <1>7 DEF DefErrors, UnionErrors
  <2>3. PICK v \in DOMAIN item.variants :
          LET data == LowerData(t, site.source, id, item.variants[v].data) IN
          \/ data.form = "type" /\ ty = data.ty
          \/ data.form = "fields" /\ ty \in FieldTypes(data.fields)
    BY <1>4, <1>5, <1>7, <2>1 DEF TypesOf, BodyTypes
  <2>4. PICK data : data = item.variants[v].data
    OBVIOUS
  <2>5. CASE data.form = "type"
    <3>1. ty = LowerType(t, site.source, id, data.ty)
      BY <2>3, <2>4, <2>5 DEF LowerData
    <3>2. clean => TypeErrors(t, site.source, id, data.ty, 0) = {}
      BY <2>2, <2>4, <2>5 DEF DataErrors
    <3>3. data.ty \in TypesOf(item)
      BY <1>7, <2>4, <2>5 DEF TypesOf, BodyTypes
    <3>4. QED
      BY <3>1, <3>2, <3>3 DEF IsLoweredFrom
  <2>6. CASE data.form = "fields"
    <3>1. ty \in FieldTypes(LowerFields(t, site.source, id, data.fields))
      BY <2>3, <2>4, <2>6 DEF LowerData
    <3>2. clean => FieldErrors(t, site.source, id, data.fields) = {}
      BY <2>2, <2>4, <2>6 DEF DataErrors
    <3>3. FieldTypes(data.fields) \subseteq TypesOf(item)
      BY <1>7, <2>4, <2>6 DEF TypesOf, BodyTypes
    <3>4. QED
      BY <3>1, <3>2, <3>3, LoweredFields
  <2>7. data.form \in {"type", "fields"}
    BY <2>3, <2>4 DEF LowerData
  <2>8. QED
    BY <2>5, <2>6, <2>7
<1>8. CASE item.tag = "type"
  <2>1. ty = LowerType(t, site.source, id, item.target)
    <3>1. "target" \in DOMAIN body /\ body.target = LowerType(t, site.source, id, item.target)
      BY <1>8, <1>3 DEF LowerBody
    <3>2. def.target = body.target
      BY <1>1, <1>3, <3>1, LoweredBody
    <3>3. QED
      BY <1>4, <1>5, <1>8, <3>1, <3>2 DEF TypesOf, BodyTypes
  <2>2. clean => TypeErrors(t, site.source, id, item.target, 1) = {}
    BY <1>2, <1>8 DEF DefErrors, TargetErrors
  <2>3. item.target \in TypesOf(item)
    BY <1>8 DEF TypesOf, BodyTypes
  <2>4. QED
    BY <2>1, <2>2, <2>3 DEF IsLoweredFrom
<1>9. CASE item.tag \notin {"struct", "message", "hub", "union", "type"}
  BY <1>4, <1>5, <1>9 DEF TypesOf, BodyTypes
<1>10. QED
  BY <1>6, <1>7, <1>8, <1>9

(* What a lowered type names was declared, and is no message and no hub kind. *)
LEMMA LoweredRefs ==
  ASSUME NEW t, NEW source, NEW scope, NEW w,
         NEW id \in Refs(LowerType(t, source, scope, w))
  PROVE  id \in DOMAIN t.types /\ TagOf(t, id) \notin {"message", "hub"}
<1>1. PICK p \in DOMAIN w : LET node == LowerNode(t, source, scope, w[p]) IN
                            node.k = "named" /\ id = node.id
  BY DEF Refs, Range, LowerType
<1>2. w[p].k = "named" /\ id \in NamedType(t, source, scope, w[p].path)
  BY <1>1 DEF LowerNode
<1>3. QED
  BY <1>2 DEF NamedType, Resolve
-----------------------------------------------------------------------------
(* Sorting by name. *)
Name == Range(Alphabet)

(* Names have ranks in the alphabet, different names different ones. *)
LEMMA NameRanks ==
  ASSUME NEW a \in Name, NEW b \in Name
  PROVE  NameRank(a) \in Nat /\ (NameRank(a) = NameRank(b) => a = b)
<1>1. DOMAIN Alphabet \subseteq Nat
  BY AlphabetAssumption
<1>2. ASSUME NEW c \in Name PROVE NameRank(c) \in DOMAIN Alphabet /\ Alphabet[NameRank(c)] = c
  BY DEF Name, Range, NameRank
<1>3. QED
  BY <1>1, <1>2

(* The order of names is a strict total order. *)
LEMMA TextIrreflexive ==
  ASSUME NEW p \in Seq(Name) PROVE ~ TextBefore(p, p)
<1>1. \A k \in DOMAIN p : p[k] \in Name
  BY ElementOfSeq
<1>2. QED
  BY <1>1, NameRanks DEF TextBefore

(* Of two different names one is before the other, and only one. *)
LEMMA TextTotal ==
  ASSUME NEW p \in Seq(Name), NEW q \in Seq(Name), p # q
  PROVE  TextBefore(p, q) \/ TextBefore(q, p)
<1>1. PICK m \in Nat, n \in Nat : m = Len(p) /\ n = Len(q)
  BY LenProperties
<1>2. /\ DOMAIN p = 1 .. m /\ DOMAIN q = 1 .. n
      /\ \A k \in 1 .. m : p[k] \in Name
      /\ \A k \in 1 .. n : q[k] \in Name
  BY <1>1, LenProperties, ElementOfSeq
<1> DEFINE Differ == {k \in Nat \ {0} : k > m \/ k > n \/ p[k] # q[k]}
<1>3. m + 1 \in Differ
  BY <1>1
<1>4. PICK k \in Differ : \A j \in Differ : k <= j
  BY <1>3, LeastNumber
<1>5. \A j \in 1 .. (k - 1) : j \in 1 .. m /\ j \in 1 .. n /\ p[j] = q[j]
  BY <1>1, <1>4
<1>6. CASE k <= n
  <2>1. CASE k <= m
    <3>1. k \in DOMAIN p /\ k \in DOMAIN q /\ p[k] # q[k]
      BY <1>1, <1>2, <1>4, <1>6, <2>1
    <3>2. NameRank(p[k]) < NameRank(q[k]) \/ NameRank(q[k]) < NameRank(p[k])
      BY <1>2, <3>1, NameRanks
    <3>3. QED
      BY <1>2, <1>5, <3>1, <3>2 DEF TextBefore
  <2>2. CASE k > m
    BY <1>1, <1>2, <1>4, <1>5, <1>6, <2>2 DEF TextBefore
  <2>3. QED
    BY <1>1, <1>4, <2>1, <2>2
<1>7. CASE k > n /\ k <= m
  BY <1>1, <1>2, <1>4, <1>5, <1>7 DEF TextBefore
<1>8. CASE k > n /\ k > m
  <2>1. m = n
    <3>1. m < n => m + 1 \in 1 .. (k - 1)
      BY <1>1, <1>4, <1>8
    <3>2. n < m => n + 1 \in 1 .. (k - 1)
      BY <1>1, <1>4, <1>8
    <3>3. QED
      BY <1>1, <1>5, <3>1, <3>2
  <2>2. \A j \in 1 .. m : p[j] = q[j]
    BY <1>1, <1>4, <1>5, <1>8
  <2>3. p = q
    BY <1>1, <2>1, <2>2, SeqEqual
  <2>4. QED
    BY <2>3
<1>9. QED
  BY <1>1, <1>4, <1>6, <1>7, <1>8

(* The order of names is transitive. *)
LEMMA TextTransitive ==
  ASSUME NEW p \in Seq(Name), NEW q \in Seq(Name), NEW r \in Seq(Name),
         TextBefore(p, q), TextBefore(q, r)
  PROVE  TextBefore(p, r)
<1>1. PICK m \in Nat, n \in Nat, o \in Nat : m = Len(p) /\ n = Len(q) /\ o = Len(r)
  BY LenProperties
<1>2. /\ DOMAIN p = 1 .. m /\ DOMAIN q = 1 .. n /\ DOMAIN r = 1 .. o
      /\ \A k \in 1 .. m : NameRank(p[k]) \in Nat
      /\ \A k \in 1 .. n : NameRank(q[k]) \in Nat
      /\ \A k \in 1 .. o : NameRank(r[k]) \in Nat
  BY <1>1, LenProperties, ElementOfSeq, NameRanks
<1>3. PICK k \in 1 .. n : /\ \A j \in 1 .. (k - 1) : j \in 1 .. m /\ p[j] = q[j]
                          /\ k \in 1 .. m => NameRank(p[k]) < NameRank(q[k])
  BY <1>2 DEF TextBefore
<1>4. PICK l \in 1 .. o : /\ \A j \in 1 .. (l - 1) : j \in 1 .. n /\ q[j] = r[j]
                          /\ l \in 1 .. n => NameRank(q[l]) < NameRank(r[l])
  BY <1>2 DEF TextBefore
<1>5. PICK least \in Nat : least = IF k <= l THEN k ELSE l
  OBVIOUS
<1>6. least \in 1 .. o
  BY <1>3, <1>4, <1>5
<1>7. \A j \in 1 .. (least - 1) : j \in 1 .. m /\ p[j] = r[j]
  BY <1>3, <1>4, <1>5
<1>8. least \in 1 .. m => NameRank(p[least]) < NameRank(r[least])
  <2>1. CASE k < l
    BY <1>2, <1>3, <1>4, <1>5, <2>1
  <2>2. CASE k = l
    <3>1. k \in 1 .. m => NameRank(p[k]) < NameRank(q[k]) /\ NameRank(q[k]) < NameRank(r[k])
      BY <1>3, <1>4, <2>2
    <3>2. QED
      BY <1>2, <1>3, <1>4, <1>5, <2>2, <3>1
  <2>3. CASE l < k
    BY <1>2, <1>3, <1>4, <1>5, <2>3
  <2>4. QED
    BY <1>3, <1>4, <2>1, <2>2, <2>3
<1>9. QED
  BY <1>2, <1>6, <1>7, <1>8 DEF TextBefore
(* Things with names that are names, and with numbers. *)
AreNamed(named) ==
  /\ IsFiniteSet(named)
  /\ \A a \in named : a = <<a[1], a[2]>> /\ a[1] \in Seq(Name) /\ a[2] \in Nat

(* The declarations with a lesser name. *)
Below(named, a) == {b \in named : Before(b, a)}

(* Where a declaration belongs in the order of names. *)
Rank(named, a) == Cardinality(Below(named, a)) + 1

(* Before is a strict order, total on declarations of different names. *)
LEMMA BeforeIsOrder ==
  ASSUME NEW named, AreNamed(named), NEW a \in named, NEW b \in named, NEW c \in named
  PROVE  /\ ~ Before(a, a)
         /\ a # b => Before(a, b) \/ Before(b, a)
         /\ Before(a, b) /\ Before(b, c) => Before(a, c)
<1>1. /\ a[1] \in Seq(Name) /\ b[1] \in Seq(Name) /\ c[1] \in Seq(Name)
      /\ a[2] \in Nat /\ b[2] \in Nat /\ c[2] \in Nat
      /\ a # b => a[1] # b[1] \/ a[2] # b[2]
  BY DEF AreNamed
<1>2. ~ Before(a, a)
  BY <1>1, TextIrreflexive DEF Before
<1>3. a # b => Before(a, b) \/ Before(b, a)
  BY <1>1, TextTotal DEF Before
<1>4. ASSUME Before(a, b), Before(b, c) PROVE Before(a, c)
  <2>1. CASE a[1] = b[1] \/ b[1] = c[1]
    BY <1>1, <1>4, <2>1 DEF Before
  <2>2. CASE TextBefore(a[1], b[1]) /\ TextBefore(b[1], c[1])
    BY <1>1, <2>2, TextTransitive DEF Before
  <2>3. QED
    BY <1>4, <2>1, <2>2 DEF Before
<1>5. QED
  BY <1>2, <1>3, <1>4

(* Each of n declarations has a rank of its own among 1 .. n. *)
LEMMA Ranks ==
  ASSUME NEW named, AreNamed(named), NEW n \in Nat, n = Cardinality(named), NEW a \in named
  PROVE  /\ Rank(named, a) \in 1 .. n
         /\ \A b \in named : Before(a, b) => Rank(named, a) < Rank(named, b)
<1>1. IsFiniteSet(named)
  BY DEF AreNamed
<1>2. ASSUME NEW b \in named
      PROVE  Cardinality(Below(named, b)) \in Nat /\ IsFiniteSet(Below(named, b))
  BY <1>1, FS_Subset, FS_CardinalityType DEF Below
<1>3. Cardinality(Below(named, a)) < n
  <2>1. Below(named, a) \in SUBSET named /\ a \notin Below(named, a)
    BY BeforeIsOrder DEF Below
  <2>2. Below(named, a) # named
    BY <2>1
  <2>3. Cardinality(Below(named, a)) <= n /\ Cardinality(Below(named, a)) # n
    BY <1>1, <2>1, <2>2, FS_Subset
  <2>4. QED
    BY <1>2, <2>3
<1>4. ASSUME NEW b \in named, Before(a, b) PROVE Rank(named, a) < Rank(named, b)
  <2>1. Below(named, a) \in SUBSET Below(named, b)
    BY <1>4, BeforeIsOrder DEF Below
  <2>2. a \in Below(named, b) /\ a \notin Below(named, a)
    BY <1>4, BeforeIsOrder DEF Below
  <2>3. /\ Cardinality(Below(named, a)) <= Cardinality(Below(named, b))
        /\ Cardinality(Below(named, a)) # Cardinality(Below(named, b))
    BY <1>2, <2>1, <2>2, FS_Subset
  <2>4. QED
    BY <1>2, <2>3 DEF Rank
<1>5. QED
  BY <1>2, <1>3, <1>4 DEF Rank

(* Sorting lists what it is given, each thing once. *)
LEMMA SortedLists ==
  ASSUME NEW named, AreNamed(named)
  PROVE  /\ Cardinality(named) \in Nat
         /\ DOMAIN Sorted(named) = 1 .. Cardinality(named)
         /\ \A k \in 1 .. Cardinality(named) : \E a \in named : Sorted(named)[k] = a[2]
<1>1. PICK n \in Nat : n = Cardinality(named)
  BY FS_CardinalityType DEF AreNamed
<1> DEFINE rank == [a \in named |-> Rank(named, a)]
<1>2. \A a \in named : Rank(named, a) \in 1 .. n
  BY <1>1, Ranks
<1>3. ASSUME NEW a \in named, NEW b \in named, Rank(named, a) = Rank(named, b) PROVE a = b
  <2>1. SUFFICES ASSUME a # b PROVE FALSE
    OBVIOUS
  <2>2. Before(a, b) \/ Before(b, a)
    BY <2>1, BeforeIsOrder
  <2>3. Rank(named, a) < Rank(named, b) \/ Rank(named, b) < Rank(named, a)
    BY <1>1, <2>2, Ranks
  <2>4. QED
    BY <1>2, <1>3, <2>3
<1>4. rank \in Injection(named, 1 .. n)
  BY <1>2, <1>3 DEF Injection, IsInjective
<1>5. IsFiniteSet(1 .. n) /\ Cardinality(1 .. n) = n
  BY FS_Interval
<1>6. rank \in Surjection(named, 1 .. n)
  BY <1>1, <1>4, <1>5, FS_Injection
<1>7. ASSUME NEW k \in 1 .. n PROVE \E a \in named : Sorted(named)[k] = a[2]
  <2>1. PICK a \in named : Rank(named, a) = k
    BY <1>6 DEF Surjection
  <2> DEFINE place == {<<Rank(named, b), b[2]>> : b \in named}
  <2>2. <<k, a[2]>> \in place
    BY <2>1
  <2>3. \A placed \in place : placed[1] = k => placed = <<k, a[2]>>
    BY <1>3, <2>1
  <2>4. (CHOOSE placed \in place : placed[1] = k) = <<k, a[2]>>
    BY <2>2, <2>3
  <2>5. Sorted(named) = [i \in 1 .. n |-> (CHOOSE placed \in place : placed[1] = i)[2]]
    BY <1>1 DEF Sorted, Rank, Below
  <2>6. Sorted(named)[k] = (CHOOSE placed \in place : placed[1] = k)[2]
    BY <2>5
  <2> HIDE DEF place
  <2>7. PICK found : found = CHOOSE placed \in place : placed[1] = k
    OBVIOUS
  <2>8. found = <<k, a[2]>>
    BY <2>4, <2>7
  <2>9. Sorted(named)[k] = found[2]
    BY <2>6, <2>7
  <2>10. QED
    BY <2>8, <2>9
<1>8. DOMAIN Sorted(named) = 1 .. n
  BY <1>1 DEF Sorted
<1>9. QED
  BY <1>1, <1>7, <1>8

-----------------------------------------------------------------------------
(* The table of names. *)
IsSeq(s) == s \in Seq(Range(s))

(* The items of the sources. *)
ItemsOf(text) == UNION {Range(source.items) : source \in Range(text)}

(* What is kept of a declaration. *)
SiteOK(text, t, id) ==
  LET site == t.types[id]
  IN /\ DOMAIN site = {"source", "ns", "parent", "item", "scope"}
     /\ site.item \in ItemsOf(text) /\ site.item.tag # "const"
     /\ site.ns \in DOMAIN t.nss
     /\ site.parent \in 0 .. (id - 1)

(* What is kept of a namespace. *)
NamespaceOK(t, n) ==
  DOMAIN t.nss[n] = {"name", "scope"} /\ t.nss[n].name \in Seq(Name)

(* A type is nested in one that was met before, and is an item of the text. *)
TableOK(text, t) ==
  /\ DOMAIN t = {"types", "consts", "nss", "sources", "errors"}
  /\ IsSeq(t.types) /\ IsSeq(t.nss)
  /\ \A id \in DOMAIN t.types : SiteOK(text, t, id)
  /\ \A n \in DOMAIN t.nss : NamespaceOK(t, n)

(* The indices of a sequence. *)
LEMMA SeqFacts ==
  ASSUME NEW s, IsSeq(s)
  PROVE  Len(s) \in Nat /\ DOMAIN s = 1 .. Len(s)
BY LenProperties DEF IsSeq

(* What appending makes of a sequence. *)
LEMMA AppendSeq ==
  ASSUME NEW s, IsSeq(s), NEW x
  PROVE  /\ IsSeq(Append(s, x))
         /\ Len(Append(s, x)) = Len(s) + 1
         /\ \A k \in 1 .. Len(s) : Append(s, x)[k] = s[k]
         /\ Append(s, x)[Len(s) + 1] = x
<1>1. PICK S : S = Range(s) \cup {x}
  OBVIOUS
<1>2. s \in Seq(S) /\ x \in S
  BY <1>1, SeqMonotonic DEF IsSeq
<1>3. /\ Append(s, x) \in Seq(S)
      /\ Len(Append(s, x)) = Len(s) + 1
      /\ \A k \in 1 .. Len(s) : Append(s, x)[k] = s[k]
      /\ Append(s, x)[Len(s) + 1] = x
  BY <1>2, AppendProperties
<1>4. IsSeq(Append(s, x))
  BY <1>3, IsASeq, LenProperties DEF IsSeq, Range
<1>5. QED
  BY <1>3, <1>4

(* Changing an element. *)
LEMMA ExceptIsSeq ==
  ASSUME NEW s, IsSeq(s), NEW k \in DOMAIN s, NEW x
  PROVE  /\ IsSeq([s EXCEPT ![k] = x])
         /\ DOMAIN [s EXCEPT ![k] = x] = DOMAIN s
         /\ [s EXCEPT ![k] = x][k] = x
         /\ \A j \in DOMAIN s : j # k => [s EXCEPT ![k] = x][j] = s[j]
<1>1. PICK S : S = Range(s) \cup {x}
  OBVIOUS
<1>2. PICK r : r = [s EXCEPT ![k] = x]
  OBVIOUS
<1>3. s \in Seq(S) /\ x \in S /\ k \in 1 .. Len(s)
  BY <1>1, SeqMonotonic, SeqFacts DEF IsSeq
<1>4. r \in Seq(S)
  BY <1>2, <1>3, ExceptSeq
<1>5. IsSeq(r)
  BY <1>4, IsASeq, LenProperties DEF IsSeq, Range
<1>6. QED
  BY <1>2, <1>5

(* Only these parts of a table matter here. *)
LEMMA TableSame ==
  ASSUME NEW text, NEW t, NEW u, TableOK(text, t),
         DOMAIN u = DOMAIN t, u.types = t.types, u.nss = t.nss
  PROVE  TableOK(text, u)
BY DEF TableOK, SiteOK, NamespaceOK

(* Looking for a namespace finds it when it is there. *)
LEMMA FoundNamespace ==
  ASSUME NEW text, NEW t, TableOK(text, t), NEW name
  PROVE  \/ FindNamespace(t, name) = 0 /\ ~ \E n \in DOMAIN t.nss : t.nss[n].name = name
         \/ FindNamespace(t, name) \in DOMAIN t.nss
<1> DEFINE found == {n \in DOMAIN t.nss : t.nss[n].name = name}
<1>1. found \in SUBSET Nat
  BY SeqFacts DEF TableOK
<1>2. CASE found = {}
  BY <1>2 DEF FindNamespace
<1>3. CASE found # {}
  <2>1. \E x \in found : \A y \in found : x <= y
    BY <1>1, <1>3, LeastNumber
  <2>2. Min(found) \in found
    BY <2>1 DEF Min
  <2>3. QED
    BY <1>3, <2>2 DEF FindNamespace
<1>4. QED
  BY <1>2, <1>3

(* Interning a namespace keeps the table and makes the namespace be there. *)
LEMMA Interned ==
  ASSUME NEW text, NEW t, TableOK(text, t), NEW name \in Seq(Name)
  PROVE  /\ TableOK(text, Intern(t, name))
         /\ Intern(t, name).types = t.types
         /\ FindNamespace(Intern(t, name), name) \in DOMAIN Intern(t, name).nss
<1>1. CASE FindNamespace(t, name) # 0
  BY <1>1, FoundNamespace DEF Intern
<1>2. CASE FindNamespace(t, name) = 0
  <2>1. PICK e : e = [name |-> name, scope |-> <<>>]
    OBVIOUS
  <2>2. PICK u : u = Intern(t, name)
    OBVIOUS
  <2>3. u = [t EXCEPT !.nss = Append(t.nss, e)]
    BY <1>2, <2>1, <2>2 DEF Intern
  <2>4. DOMAIN u = DOMAIN t /\ u.types = t.types /\ u.nss = Append(t.nss, e)
    BY <2>3 DEF TableOK
  <2>5. PICK n \in Nat : n = Len(t.nss) /\ DOMAIN t.nss = 1 .. n
    BY SeqFacts DEF TableOK
  <2>6. /\ IsSeq(u.nss) /\ DOMAIN u.nss = 1 .. (n + 1)
        /\ \A k \in 1 .. n : u.nss[k] = t.nss[k]
        /\ u.nss[n + 1] = e
    BY <2>4, <2>5, AppendSeq, SeqFacts DEF TableOK
  <2>7. \A k \in DOMAIN u.nss : NamespaceOK(u, k)
    BY <2>1, <2>5, <2>6 DEF TableOK, NamespaceOK
  <2>8. \A id \in DOMAIN u.types : SiteOK(text, u, id)
    BY <2>4, <2>5, <2>6 DEF TableOK, SiteOK
  <2>9. TableOK(text, u)
    BY <2>4, <2>6, <2>7, <2>8 DEF TableOK
  <2>10. n + 1 \in DOMAIN u.nss /\ u.nss[n + 1].name = name
    BY <2>1, <2>5, <2>6
  <2>11. FindNamespace(u, name) \in DOMAIN u.nss
    BY <2>9, <2>10, FoundNamespace
  <2>12. QED
    BY <2>2, <2>4, <2>9, <2>11
<1>3. QED
  BY <1>1, <1>2

(* Declaring a name changes a scope. *)
LEMMA Declared ==
  ASSUME NEW text, NEW t, TableOK(text, t), NEW ns \in DOMAIN t.nss,
         NEW owner \in 0 .. Len(t.types), NEW name, NEW symbol
  PROVE  /\ TableOK(text, Declare(t, ns, owner, name, symbol))
         /\ Len(Declare(t, ns, owner, name, symbol).types) = Len(t.types)
         /\ DOMAIN Declare(t, ns, owner, name, symbol).nss = DOMAIN t.nss
<1>1. PICK u : u = Declare(t, ns, owner, name, symbol)
  OBVIOUS
<1>2. PICK n \in Nat : n = Len(t.types) /\ DOMAIN t.types = 1 .. n
  BY SeqFacts DEF TableOK
<1>3. CASE owner = 0
  <2>1. PICK new : /\ DOMAIN u = DOMAIN t /\ u.types = t.types
                   /\ u.nss = [t.nss EXCEPT ![ns] = [t.nss[ns] EXCEPT !.scope = new]]
    BY <1>1, <1>3 DEF Declare, TableOK
  <2>2. PICK e : e = [t.nss[ns] EXCEPT !.scope = new]
    OBVIOUS
  <2>3. DOMAIN e = {"name", "scope"} /\ e.name \in Seq(Name)
    BY <2>2 DEF TableOK, NamespaceOK
  <2>4. /\ IsSeq(u.nss) /\ DOMAIN u.nss = DOMAIN t.nss
        /\ u.nss[ns] = e
        /\ \A k \in DOMAIN t.nss : k # ns => u.nss[k] = t.nss[k]
    BY <2>1, <2>2, ExceptIsSeq DEF TableOK
  <2>5. \A k \in DOMAIN u.nss : NamespaceOK(u, k)
    BY <2>3, <2>4 DEF TableOK, NamespaceOK
  <2>6. \A id \in DOMAIN u.types : SiteOK(text, u, id)
    BY <2>1, <2>4 DEF TableOK, SiteOK
  <2>7. TableOK(text, u)
    BY <2>1, <2>4, <2>5, <2>6 DEF TableOK
  <2>8. QED
    BY <1>1, <2>1, <2>4, <2>7
<1>4. CASE owner # 0
  <2>1. PICK new : /\ DOMAIN u = DOMAIN t /\ u.nss = t.nss
                   /\ u.types = [t.types EXCEPT ![owner] = [t.types[owner] EXCEPT !.scope = new]]
    BY <1>1, <1>4 DEF Declare, TableOK
  <2>2. PICK e : e = [t.types[owner] EXCEPT !.scope = new]
    OBVIOUS
  <2>3. owner \in DOMAIN t.types
    BY <1>2, <1>4
  <2>4. /\ DOMAIN e = DOMAIN t.types[owner]
        /\ e.item = t.types[owner].item /\ e.ns = t.types[owner].ns
        /\ e.parent = t.types[owner].parent
    BY <2>2, <2>3 DEF TableOK, SiteOK
  <2>5. /\ IsSeq(u.types) /\ DOMAIN u.types = DOMAIN t.types
        /\ u.types[owner] = e
        /\ \A k \in DOMAIN t.types : k # owner => u.types[k] = t.types[k]
    BY <2>1, <2>2, <2>3, ExceptIsSeq DEF TableOK
  <2>6. \A id \in DOMAIN u.types : SiteOK(text, u, id)
    <3>1. SUFFICES ASSUME NEW id \in DOMAIN t.types PROVE SiteOK(text, u, id)
      BY <2>5
    <3>2. SiteOK(text, t, id)
      BY <3>1 DEF TableOK
    <3>3. CASE id = owner
      BY <2>1, <2>4, <2>5, <3>2, <3>3 DEF SiteOK
    <3>4. CASE id # owner
      BY <2>1, <2>5, <3>1, <3>2, <3>4 DEF SiteOK
    <3>5. QED
      BY <3>3, <3>4
  <2>7. TableOK(text, u)
    BY <2>1, <2>5, <2>6 DEF TableOK, NamespaceOK
  <2>8. Len(u.types) = Len(t.types)
    BY <1>2, <2>5, SeqFacts
  <2>9. QED
    BY <1>1, <2>1, <2>7, <2>8
<1>5. QED
  BY <1>3, <1>4

(* The types among the first items. *)
TypesAmong(items, j) == {i \in 1 .. j : items[i].tag # "const"}

(* One more item is at most one more type. *)
LEMMA CountTypes ==
  ASSUME NEW items, NEW j \in Nat
  PROVE  /\ Cardinality(TypesAmong(items, j)) \in Nat
         /\ \A i \in 0 .. j : Cardinality(TypesAmong(items, i)) <= Cardinality(TypesAmong(items, j))
         /\ j # 0 => Cardinality(TypesAmong(items, j))
                       = Cardinality(TypesAmong(items, j - 1)) + (IF items[j].tag = "const" THEN 0 ELSE 1)
<1>1. ASSUME NEW i \in 0 .. j
      PROVE  IsFiniteSet(TypesAmong(items, i)) /\ Cardinality(TypesAmong(items, i)) \in Nat
  <2>1. IsFiniteSet(1 .. i) /\ TypesAmong(items, i) \in SUBSET (1 .. i)
    BY <1>1, FS_Interval DEF TypesAmong
  <2>2. QED
    BY <2>1, FS_Subset, FS_CardinalityType
<1>2. ASSUME NEW i \in 0 .. j
      PROVE  Cardinality(TypesAmong(items, i)) <= Cardinality(TypesAmong(items, j))
  <2>1. TypesAmong(items, i) \in SUBSET TypesAmong(items, j)
    BY DEF TypesAmong
  <2>2. QED
    BY <1>1, <2>1, FS_Subset
<1>3. ASSUME j # 0
      PROVE  Cardinality(TypesAmong(items, j))
               = Cardinality(TypesAmong(items, j - 1)) + (IF items[j].tag = "const" THEN 0 ELSE 1)
  <2>1. j - 1 \in 0 .. j /\ IsFiniteSet(TypesAmong(items, j - 1)) /\ j \notin TypesAmong(items, j - 1)
    BY <1>1, <1>3 DEF TypesAmong
  <2>2. CASE items[j].tag = "const"
    <3>1. TypesAmong(items, j) = TypesAmong(items, j - 1)
      BY <1>3, <2>2 DEF TypesAmong
    <3>2. QED
      BY <1>1, <2>1, <2>2, <3>1
  <2>3. CASE items[j].tag # "const"
    <3>1. TypesAmong(items, j) = TypesAmong(items, j - 1) \cup {j}
      BY <1>3, <2>3 DEF TypesAmong
    <3>2. QED
      BY <2>1, <2>3, <3>1, FS_AddElement
  <2>4. QED
    BY <2>2, <2>3
<1>4. QED
  BY <1>1, <1>2, <1>3

(* The state of collecting a source: its first j items have been met. *)
Collecting(text, t, ns, items, base, j) ==
  /\ TableOK(text, t)
  /\ ns \in DOMAIN t.nss
  /\ Len(t.types) = base + Cardinality(TypesAmong(items, j))

(* One step of collect: the type of an item is the next one of the table,   *)
(* nested in the type its item is nested in.                                *)
LEMMA Collected ==
  ASSUME NEW text, NEW source \in Range(text), Parsed(text),
         NEW t, NEW k, NEW ns, NEW base \in Nat,
         NEW j \in DOMAIN source.items,
         Collecting(text, t, ns, source.items, base, j - 1)
  PROVE  Collecting(text, Collect(t, k, ns, source.items, base, j), ns, source.items, base, j)
<1>1. PICK items : items = source.items
  OBVIOUS
<1>2. PICK item : item = items[j]
  OBVIOUS
<1>3. /\ j \in Nat \ {0}
      /\ item.within \in 0 .. (j - 1)
      /\ item \in ItemsOf(text)
  <2>1. IsSeq(items)
    BY <1>1 DEF Parsed, IsSeq
  <2>2. j \in Nat \ {0}
    BY <1>1, <2>1, SeqFacts
  <2>3. item.within \in 0 .. (j - 1)
    BY <1>1, <1>2 DEF Parsed
  <2>4. item \in ItemsOf(text)
    BY <1>1, <1>2 DEF ItemsOf, Range
  <2>5. QED
    BY <2>2, <2>3, <2>4
<1>4. PICK n \in Nat : n = Len(t.types) /\ DOMAIN t.types = 1 .. n
  BY SeqFacts DEF Collecting, TableOK
<1>5. PICK parent : parent = IF item.within = 0 THEN 0
                            ELSE base + Cardinality(TypesAmong(items, item.within))
  OBVIOUS
<1>6. parent \in 0 .. n
  <2>1. j - 1 \in Nat
    BY <1>3
  <2>2. Cardinality(TypesAmong(items, item.within)) <= Cardinality(TypesAmong(items, j - 1))
    BY <1>3, <2>1, CountTypes
  <2>3. /\ Cardinality(TypesAmong(items, item.within)) \in Nat
        /\ Cardinality(TypesAmong(items, j - 1)) \in Nat
    BY <1>3, <2>1, CountTypes
  <2>4. n = base + Cardinality(TypesAmong(items, j - 1))
    BY <1>1, <1>4 DEF Collecting
  <2>5. QED
    BY <1>5, <2>2, <2>3, <2>4
<1>7. PICK site : site = [source |-> k, ns |-> ns, parent |-> parent, item |-> item, scope |-> <<>>]
  OBVIOUS
<1>8. PICK u : u = Collect(t, k, ns, items, base, j)
  OBVIOUS
<1>9. TableOK(text, t) /\ ns \in DOMAIN t.nss
  BY DEF Collecting
<1>10. CASE item.tag = "const"
  <2>1. PICK v : v = [t EXCEPT !.consts = Append(t.consts, site)]
    OBVIOUS
  <2>2. u = Declare(v, ns, parent, item.name, ConstSym(Len(t.consts) + 1))
    BY <1>2, <1>5, <1>7, <1>8, <1>10, <2>1 DEF Collect, TypesAmong
  <2>3. DOMAIN v = DOMAIN t /\ v.types = t.types /\ v.nss = t.nss
    BY <1>9, <2>1 DEF TableOK
  <2>4. TableOK(text, v)
    BY <1>9, <2>3, TableSame
  <2>5. TableOK(text, u) /\ Len(u.types) = n /\ DOMAIN u.nss = DOMAIN t.nss
    BY <1>4, <1>6, <1>9, <2>2, <2>3, <2>4, Declared
  <2>6. Len(u.types) = base + Cardinality(TypesAmong(items, j))
    <3>1. Cardinality(TypesAmong(items, j)) = Cardinality(TypesAmong(items, j - 1)) + 0
      BY <1>2, <1>3, <1>10, CountTypes
    <3>2. Cardinality(TypesAmong(items, j - 1)) \in Nat
      BY <1>3, CountTypes
    <3>3. n = base + Cardinality(TypesAmong(items, j - 1))
      BY <1>1, <1>4 DEF Collecting
    <3>4. QED
      BY <2>5, <3>1, <3>2, <3>3
  <2>7. QED
    BY <1>1, <1>8, <1>9, <2>5, <2>6 DEF Collecting
<1>11. CASE item.tag # "const"
  <2>1. PICK v : v = [t EXCEPT !.types = Append(t.types, site)]
    OBVIOUS
  <2>2. u = Declare(v, ns, parent, item.name, TypeSym(Len(t.types) + 1))
    BY <1>2, <1>5, <1>7, <1>8, <1>11, <2>1 DEF Collect, TypesAmong
  <2>3. DOMAIN v = DOMAIN t /\ v.types = Append(t.types, site) /\ v.nss = t.nss
    BY <1>9, <2>1 DEF TableOK
  <2>4. /\ IsSeq(v.types) /\ Len(v.types) = n + 1 /\ DOMAIN v.types = 1 .. (n + 1)
        /\ \A id \in 1 .. n : v.types[id] = t.types[id]
        /\ v.types[n + 1] = site
    BY <1>4, <1>9, <2>3, AppendSeq, SeqFacts DEF TableOK
  <2>5. SiteOK(text, v, n + 1)
    BY <1>2, <1>3, <1>6, <1>7, <1>9, <1>11, <2>3, <2>4 DEF SiteOK
  <2>6. \A id \in 1 .. n : SiteOK(text, v, id)
    BY <1>4, <1>9, <2>3, <2>4 DEF SiteOK, TableOK
  <2>7. \A id \in DOMAIN v.types : SiteOK(text, v, id)
    BY <2>4, <2>5, <2>6
  <2>8. TableOK(text, v)
    BY <1>9, <2>3, <2>4, <2>7 DEF TableOK, NamespaceOK
  <2>9. TableOK(text, u) /\ Len(u.types) = n + 1 /\ DOMAIN u.nss = DOMAIN t.nss
    <3>1. parent \in 0 .. Len(v.types) /\ ns \in DOMAIN v.nss
      BY <1>6, <1>9, <2>3, <2>4
    <3>2. QED
      BY <2>2, <2>3, <2>4, <2>8, <3>1, Declared
  <2>10. Len(u.types) = base + Cardinality(TypesAmong(items, j))
    <3>1. Cardinality(TypesAmong(items, j)) = Cardinality(TypesAmong(items, j - 1)) + 1
      BY <1>2, <1>3, <1>11, CountTypes
    <3>2. Cardinality(TypesAmong(items, j - 1)) \in Nat
      BY <1>3, CountTypes
    <3>3. n = base + Cardinality(TypesAmong(items, j - 1))
      BY <1>1, <1>4 DEF Collecting
    <3>4. QED
      BY <2>9, <3>1, <3>2, <3>3
  <2>11. QED
    BY <1>1, <1>8, <1>9, <2>9, <2>10 DEF Collecting
<1>12. QED
  BY <1>10, <1>11

(* The recursion over the items of a source. *)
LEMMA SourceCollected ==
  ASSUME NEW text, NEW source \in Range(text), Parsed(text),
         NEW t, TableOK(text, t), NEW k
  PROVE  TableOK(text, CollectSource(t, k, source))
<1> DEFINE with == Intern(t, source.ns)
           ns == FindNamespace(with, source.ns)
           opened == [with EXCEPT !.sources = Append(@, [ns |-> ns, uses |-> <<>>])]
           base == Len(t.types)
           items == source.items
           n == Len(items)
           Step(f, j) == IF j = 0 THEN opened ELSE Collect(f[j - 1], k, ns, items, base, j)
           collected == CHOOSE f : f = [j \in 0 .. n |-> Step(f, j)]
           Found == {m \in 0 .. n : \E f : f = [j \in 0 .. m |-> Step(f, j)]}
           Good == {j \in 0 .. n : Collecting(text, collected[j], ns, items, base, j)}
<1>1. CollectSource(t, k, source) = collected[n]
  BY DEF CollectSource
<1>2. n \in Nat /\ DOMAIN items = 1 .. n
  BY SeqFacts DEF Parsed, IsSeq
<1>3. /\ TableOK(text, opened) /\ opened.types = t.types /\ opened.nss = with.nss
      /\ ns \in DOMAIN opened.nss
  <2>1. TableOK(text, with) /\ with.types = t.types /\ ns \in DOMAIN with.nss
    BY Interned DEF Parsed, Name
  <2>2. DOMAIN opened = DOMAIN with /\ opened.types = with.types /\ opened.nss = with.nss
    BY <2>1 DEF TableOK
  <2>3. QED
    BY <2>1, <2>2, TableSame
<1>4. base \in Nat
  BY SeqFacts DEF TableOK
<1>5. Collecting(text, opened, ns, items, base, 0)
  <2>1. TypesAmong(items, 0) = {}
    BY DEF TypesAmong
  <2>2. Cardinality(TypesAmong(items, 0)) = 0
    BY <2>1, FS_EmptySet
  <2>3. Len(opened.types) = base + 0
    BY <1>3, <1>4
  <2>4. QED
    BY <1>3, <2>2, <2>3 DEF Collecting
<1> HIDE DEF with, ns, opened, base, items, n
<1>6. \A m \in 0 .. n : m \in Found
  <2>1. 0 \in Found
    <3>1. PICK f : f = [j \in 0 .. 0 |-> opened]
      OBVIOUS
    <3>2. f = [j \in 0 .. 0 |-> Step(f, j)]
      BY <3>1
    <3>3. QED
      BY <1>2, <3>2
  <2>2. ASSUME NEW m \in 1 .. n, m - 1 \in Found PROVE m \in Found
    <3>1. PICK f : f = [j \in 0 .. (m - 1) |-> Step(f, j)]
      BY <2>2
    <3>2. PICK g : g = [j \in 0 .. m |-> IF j = m THEN Collect(f[m - 1], k, ns, items, base, m) ELSE f[j]]
      OBVIOUS
    <3>3. ASSUME NEW j \in 0 .. m PROVE g[j] = Step(g, j)
      <4>1. CASE j = 0
        BY <2>2, <3>1, <3>2, <4>1
      <4>2. CASE j = m
        <5>1. j # 0 /\ g[j - 1] = f[m - 1]
          BY <2>2, <3>2, <4>2
        <5>2. QED
          BY <3>2, <4>2, <5>1
      <4>3. CASE j \in 1 .. (m - 1)
        <5>1. g[j] = f[j] /\ g[j - 1] = f[j - 1] /\ j # 0 /\ j \in 0 .. (m - 1)
          BY <2>2, <3>2, <4>3
        <5>2. f[j] = Step(f, j)
          BY <3>1, <5>1
        <5>3. QED
          BY <5>1, <5>2
      <4>4. QED
        BY <2>2, <3>3, <4>1, <4>2, <4>3
    <3>4. g = [j \in 0 .. m |-> Step(g, j)]
      BY <3>2, <3>3
    <3>5. QED
      BY <2>2, <3>4
  <2> HIDE DEF Found
  <2>3. QED
    BY <1>2, <2>1, <2>2, UpTo
<1>7. collected = [j \in 0 .. n |-> Step(collected, j)]
  <2>1. \E f : f = [j \in 0 .. n |-> Step(f, j)]
    BY <1>2, <1>6
  <2> HIDE DEF Step
  <2>2. QED
    BY <2>1
<1> HIDE DEF collected, Found
<1>8. \A j \in 0 .. n : j \in Good
  <2>1. 0 \in Good
    BY <1>2, <1>5, <1>7
  <2>2. ASSUME NEW j \in 1 .. n, j - 1 \in Good PROVE j \in Good
    <3>1. collected[j] = Collect(collected[j - 1], k, ns, items, base, j)
      BY <1>7, <2>2
    <3>2. Collecting(text, collected[j - 1], ns, items, base, j - 1)
      BY <2>2
    <3>3. Collecting(text, collected[j], ns, items, base, j)
      BY <1>2, <1>4, <2>2, <3>1, <3>2, Collected DEF items
    <3>4. QED
      BY <2>2, <3>3
  <2> HIDE DEF Good
  <2>3. QED
    BY <1>2, <2>1, <2>2, UpTo
<1>9. Collecting(text, collected[n], ns, items, base, n)
  BY <1>2, <1>8
<1>10. QED
  BY <1>1, <1>9 DEF Collecting

(* A use touches neither the types nor the namespaces. *)
LEMMA UseAdded ==
  ASSUME NEW text, NEW t, TableOK(text, t), NEW k, NEW use
  PROVE  TableOK(text, AddUse(t, k, use))
<1>1. PICK u : u = AddUse(t, k, use)
  OBVIOUS
<1>2. DOMAIN u = DOMAIN t /\ u.types = t.types /\ u.nss = t.nss
  BY <1>1 DEF AddUse, TableOK
<1>3. QED
  BY <1>1, <1>2, TableSame

(* The recursion over the uses of a source. *)
LEMMA UsesAdded ==
  ASSUME NEW text, NEW t, TableOK(text, t), NEW k, NEW uses, IsSeq(uses)
  PROVE  TableOK(text, AddUses(t, k, uses))
<1> DEFINE n == Len(uses)
           Step(f, j) == IF j = 0 THEN t ELSE AddUse(f[j - 1], k, uses[j])
           folded == CHOOSE f : f = [j \in 0 .. n |-> Step(f, j)]
           Found == {m \in 0 .. n : \E f : f = [j \in 0 .. m |-> Step(f, j)]}
           Good == {j \in 0 .. n : TableOK(text, folded[j])}
<1>1. AddUses(t, k, uses) = folded[n]
  BY DEF AddUses
<1>2. n \in Nat
  BY SeqFacts
<1> HIDE DEF n
<1>3. \A m \in 0 .. n : m \in Found
  <2>1. 0 \in Found
    <3>1. PICK f : f = [j \in 0 .. 0 |-> t]
      OBVIOUS
    <3>2. f = [j \in 0 .. 0 |-> Step(f, j)]
      BY <3>1
    <3>3. QED
      BY <1>2, <3>2
  <2>2. ASSUME NEW m \in 1 .. n, m - 1 \in Found PROVE m \in Found
    <3>1. PICK f : f = [j \in 0 .. (m - 1) |-> Step(f, j)]
      BY <2>2
    <3>2. PICK g : g = [j \in 0 .. m |-> IF j = m THEN AddUse(f[m - 1], k, uses[m]) ELSE f[j]]
      OBVIOUS
    <3>3. ASSUME NEW j \in 0 .. m PROVE g[j] = Step(g, j)
      <4>1. CASE j = 0
        BY <2>2, <3>1, <3>2, <4>1
      <4>2. CASE j = m
        <5>1. j # 0 /\ g[j - 1] = f[m - 1]
          BY <2>2, <3>2, <4>2
        <5>2. QED
          BY <3>2, <4>2, <5>1
      <4>3. CASE j \in 1 .. (m - 1)
        <5>1. g[j] = f[j] /\ g[j - 1] = f[j - 1] /\ j # 0 /\ j \in 0 .. (m - 1)
          BY <2>2, <3>2, <4>3
        <5>2. f[j] = Step(f, j)
          BY <3>1, <5>1
        <5>3. QED
          BY <5>1, <5>2
      <4>4. QED
        BY <2>2, <3>3, <4>1, <4>2, <4>3
    <3>4. g = [j \in 0 .. m |-> Step(g, j)]
      BY <3>2, <3>3
    <3>5. QED
      BY <2>2, <3>4
  <2> HIDE DEF Found
  <2>3. QED
    BY <1>2, <2>1, <2>2, UpTo
<1>4. folded = [j \in 0 .. n |-> Step(folded, j)]
  <2>1. \E f : f = [j \in 0 .. n |-> Step(f, j)]
    BY <1>2, <1>3
  <2> HIDE DEF Step
  <2>2. QED
    BY <2>1
<1> HIDE DEF folded, Found
<1>5. \A j \in 0 .. n : j \in Good
  <2>1. 0 \in Good
    BY <1>2, <1>4
  <2>2. ASSUME NEW j \in 1 .. n, j - 1 \in Good PROVE j \in Good
    <3>1. folded[j] = AddUse(folded[j - 1], k, uses[j])
      BY <1>4, <2>2
    <3>2. TableOK(text, folded[j])
      BY <2>2, <3>1, UseAdded
    <3>3. QED
      BY <2>2, <3>2
  <2> HIDE DEF Good
  <2>3. QED
    BY <1>2, <2>1, <2>2, UpTo
<1>6. QED
  BY <1>1, <1>2, <1>5

(* The recursion of the first loop over the sources. *)
SourcesCollected(text) ==
  CHOOSE collected : collected =
    [k \in 0 .. Len(text) |->
       IF k = 0 THEN EmptyTable ELSE CollectSource(collected[k - 1], k, text[k])]

(* The loop that collects the sources keeps the table. *)
LEMMA FirstLoop ==
  ASSUME NEW text, Parsed(text)
  PROVE  TableOK(text, SourcesCollected(text)[Len(text)])
<1> DEFINE n == Len(text)
           Step(f, j) == IF j = 0 THEN EmptyTable ELSE CollectSource(f[j - 1], j, text[j])
           folded == CHOOSE f : f = [j \in 0 .. n |-> Step(f, j)]
           Found == {m \in 0 .. n : \E f : f = [j \in 0 .. m |-> Step(f, j)]}
           Good == {j \in 0 .. n : TableOK(text, folded[j])}
<1>1. SourcesCollected(text) = folded
  BY DEF SourcesCollected
<1>2. n \in Nat /\ \A k \in 1 .. n : text[k] \in Range(text)
  BY SeqFacts DEF Parsed, IsSeq, Range
<1>3. TableOK(text, EmptyTable)
  <2>1. /\ EmptyTable.types = <<>> /\ EmptyTable.nss = <<>>
        /\ DOMAIN EmptyTable = {"types", "consts", "nss", "sources", "errors"}
    BY DEF EmptyTable
  <2>2. IsSeq(<<>>) /\ DOMAIN <<>> = {}
    BY EmptySeq DEF IsSeq
  <2>3. QED
    BY <2>1, <2>2 DEF TableOK
<1> HIDE DEF n
<1>4. \A m \in 0 .. n : m \in Found
  <2>1. 0 \in Found
    <3>1. PICK f : f = [j \in 0 .. 0 |-> EmptyTable]
      OBVIOUS
    <3>2. f = [j \in 0 .. 0 |-> Step(f, j)]
      BY <3>1
    <3>3. QED
      BY <1>2, <3>2
  <2>2. ASSUME NEW m \in 1 .. n, m - 1 \in Found PROVE m \in Found
    <3>1. PICK f : f = [j \in 0 .. (m - 1) |-> Step(f, j)]
      BY <2>2
    <3>2. PICK g : g = [j \in 0 .. m |-> IF j = m THEN CollectSource(f[m - 1], m, text[m]) ELSE f[j]]
      OBVIOUS
    <3>3. ASSUME NEW j \in 0 .. m PROVE g[j] = Step(g, j)
      <4>1. CASE j = 0
        BY <2>2, <3>1, <3>2, <4>1
      <4>2. CASE j = m
        <5>1. j # 0 /\ g[j - 1] = f[m - 1]
          BY <2>2, <3>2, <4>2
        <5>2. QED
          BY <3>2, <4>2, <5>1
      <4>3. CASE j \in 1 .. (m - 1)
        <5>1. g[j] = f[j] /\ g[j - 1] = f[j - 1] /\ j # 0 /\ j \in 0 .. (m - 1)
          BY <2>2, <3>2, <4>3
        <5>2. f[j] = Step(f, j)
          BY <3>1, <5>1
        <5>3. QED
          BY <5>1, <5>2
      <4>4. QED
        BY <2>2, <3>3, <4>1, <4>2, <4>3
    <3>4. g = [j \in 0 .. m |-> Step(g, j)]
      BY <3>2, <3>3
    <3>5. QED
      BY <2>2, <3>4
  <2> HIDE DEF Found
  <2>3. QED
    BY <1>2, <2>1, <2>2, UpTo
<1>5. folded = [j \in 0 .. n |-> Step(folded, j)]
  <2>1. \E f : f = [j \in 0 .. n |-> Step(f, j)]
    BY <1>2, <1>4
  <2> HIDE DEF Step
  <2>2. QED
    BY <2>1
<1> HIDE DEF folded, Found
<1>6. \A j \in 0 .. n : j \in Good
  <2>1. 0 \in Good
    BY <1>2, <1>3, <1>5
  <2>2. ASSUME NEW j \in 1 .. n, j - 1 \in Good PROVE j \in Good
    <3>1. folded[j] = CollectSource(folded[j - 1], j, text[j])
      BY <1>5, <2>2
    <3>2. TableOK(text, folded[j])
      BY <1>2, <2>2, <3>1, SourceCollected
    <3>3. QED
      BY <2>2, <3>2
  <2> HIDE DEF Good
  <2>3. QED
    BY <1>2, <2>1, <2>2, UpTo
<1>7. TableOK(text, folded[n])
  BY <1>2, <1>6
<1>8. QED
  BY <1>1, <1>7 DEF n

(* What the resolver makes of parsed sources. *)
LEMMA TableResolved ==
  ASSUME NEW text, Parsed(text)
  PROVE  TableOK(text, ResolverOf(text))
<1> DEFINE n == Len(text)
           first == SourcesCollected(text)[n]
           Step(f, j) == IF j = 0 THEN first ELSE AddUses(f[j - 1], j, text[j].uses)
           folded == CHOOSE f : f = [j \in 0 .. n |-> Step(f, j)]
           Found == {m \in 0 .. n : \E f : f = [j \in 0 .. m |-> Step(f, j)]}
           Good == {j \in 0 .. n : TableOK(text, folded[j])}
<1>1. ResolverOf(text) = folded[n]
  BY DEF ResolverOf, SourcesCollected
<1>2. n \in Nat /\ \A k \in 1 .. n : IsSeq(text[k].uses)
  BY SeqFacts DEF Parsed, IsSeq, Range
<1>3. TableOK(text, first)
  BY FirstLoop
<1> HIDE DEF n, first
<1>4. \A m \in 0 .. n : m \in Found
  <2>1. 0 \in Found
    <3>1. PICK f : f = [j \in 0 .. 0 |-> first]
      OBVIOUS
    <3>2. f = [j \in 0 .. 0 |-> Step(f, j)]
      BY <3>1
    <3>3. QED
      BY <1>2, <3>2
  <2>2. ASSUME NEW m \in 1 .. n, m - 1 \in Found PROVE m \in Found
    <3>1. PICK f : f = [j \in 0 .. (m - 1) |-> Step(f, j)]
      BY <2>2
    <3>2. PICK g : g = [j \in 0 .. m |-> IF j = m THEN AddUses(f[m - 1], m, text[m].uses) ELSE f[j]]
      OBVIOUS
    <3>3. ASSUME NEW j \in 0 .. m PROVE g[j] = Step(g, j)
      <4>1. CASE j = 0
        BY <2>2, <3>1, <3>2, <4>1
      <4>2. CASE j = m
        <5>1. j # 0 /\ g[j - 1] = f[m - 1]
          BY <2>2, <3>2, <4>2
        <5>2. QED
          BY <3>2, <4>2, <5>1
      <4>3. CASE j \in 1 .. (m - 1)
        <5>1. g[j] = f[j] /\ g[j - 1] = f[j - 1] /\ j # 0 /\ j \in 0 .. (m - 1)
          BY <2>2, <3>2, <4>3
        <5>2. f[j] = Step(f, j)
          BY <3>1, <5>1
        <5>3. QED
          BY <5>1, <5>2
      <4>4. QED
        BY <2>2, <3>3, <4>1, <4>2, <4>3
    <3>4. g = [j \in 0 .. m |-> Step(g, j)]
      BY <3>2, <3>3
    <3>5. QED
      BY <2>2, <3>4
  <2> HIDE DEF Found
  <2>3. QED
    BY <1>2, <2>1, <2>2, UpTo
<1>5. folded = [j \in 0 .. n |-> Step(folded, j)]
  <2>1. \E f : f = [j \in 0 .. n |-> Step(f, j)]
    BY <1>2, <1>4
  <2> HIDE DEF Step
  <2>2. QED
    BY <2>1
<1> HIDE DEF folded, Found
<1>6. \A j \in 0 .. n : j \in Good
  <2>1. 0 \in Good
    BY <1>2, <1>3, <1>5
  <2>2. ASSUME NEW j \in 1 .. n, j - 1 \in Good PROVE j \in Good
    <3>1. folded[j] = AddUses(folded[j - 1], j, text[j].uses)
      BY <1>5, <2>2
    <3>2. TableOK(text, folded[j])
      BY <1>2, <2>2, <3>1, UsesAdded
    <3>3. QED
      BY <2>2, <3>2
  <2> HIDE DEF Good
  <2>3. QED
    BY <1>2, <2>1, <2>2, UpTo
<1>7. TableOK(text, folded[n])
  BY <1>2, <1>6
<1>8. QED
  BY <1>1, <1>7

-----------------------------------------------------------------------------
(* Qualified names. *)

(* Each declaration is nested in an earlier one, and all names are names. *)
NamedDefs(nss, schema) ==
  /\ \E n \in Nat : DOMAIN schema = 1 .. n
  /\ \A id \in DOMAIN schema :
       /\ schema[id].parent \in 0 .. (id - 1)
       /\ nss[schema[id].ns] \in Seq(Name)
       /\ schema[id].name \in Name

(* The recursion along the enclosing declarations ends: a qualified name is *)
(* a sequence of names.                                                     *)
LEMMA QualifiedNames ==
  ASSUME NEW nss, NEW schema, NamedDefs(nss, schema), NEW id \in DOMAIN schema
  PROVE  Qualified(nss, schema, id) \in Seq(Name)
<1>1. PICK n \in Nat : DOMAIN schema = 1 .. n
  BY DEF NamedDefs
<1> DEFINE Step(f, i) ==
             (IF schema[i].parent = 0 THEN nss[schema[i].ns] ELSE f[schema[i].parent])
               \o <<schema[i].name>>
           path == CHOOSE f : f = [i \in 1 .. n |-> Step(f, i)]
           Found == {m \in 0 .. n : \E f : f = [i \in 1 .. m |-> Step(f, i)]}
           Good == {m \in 0 .. n : \A i \in 1 .. m : path[i] \in Seq(Name)}
<1>2. Qualified(nss, schema, id) = path[id]
  BY <1>1 DEF Qualified
<1>3. \A i \in 1 .. n : schema[i].parent \in 0 .. (i - 1)
  BY <1>1 DEF NamedDefs
<1>4. \A i \in 1 .. n : nss[schema[i].ns] \in Seq(Name) /\ <<schema[i].name>> \in Seq(Name)
  BY <1>1 DEF NamedDefs
<1>5. \A m \in 0 .. n : m \in Found
  <2>1. 0 \in Found
    <3>1. PICK m \in 0 .. n : m = 0
      BY <1>1
    <3>2. PICK f : f = [i \in 1 .. m |-> 0]
      OBVIOUS
    <3> HIDE DEF Step
    <3>3. f = [i \in 1 .. m |-> Step(f, i)]
      BY <3>1, <3>2
    <3>4. m \in Found
      BY <3>3
    <3>5. QED
      BY <3>1, <3>4
  <2>2. ASSUME NEW m \in 1 .. n, m - 1 \in Found PROVE m \in Found
    <3>1. PICK f : f = [i \in 1 .. (m - 1) |-> Step(f, i)]
      BY <2>2
    <3>2. PICK g : g = [i \in 1 .. m |-> IF i = m THEN Step(f, m) ELSE f[i]]
      OBVIOUS
    <3>3. ASSUME NEW i \in 1 .. m PROVE g[i] = Step(g, i)
      <4>1. PICK p : p = schema[i].parent
        OBVIOUS
      <4>2. p # 0 => p \in 1 .. (m - 1) /\ p # m
        BY <1>3, <3>3, <4>1
      <4>3. p # 0 => g[p] = f[p]
        BY <3>2, <4>2
      <4>4. Step(g, i) = Step(f, i)
        BY <4>1, <4>3
      <4>5. g[i] = Step(f, i)
        <5>1. CASE i = m
          BY <3>2, <5>1
        <5>2. CASE i # m
          <6>1. i \in 1 .. (m - 1)
            BY <3>3, <5>2
          <6> HIDE DEF Step
          <6>2. f[i] = Step(f, i)
            BY <3>1, <6>1
          <6>3. QED
            BY <3>2, <5>2, <6>2
        <5>3. QED
          BY <5>1, <5>2
      <4>6. QED
        BY <4>4, <4>5
    <3> HIDE DEF Step
    <3>4. g = [i \in 1 .. m |-> Step(g, i)]
      BY <3>2, <3>3
    <3>5. QED
      BY <2>2, <3>4
  <2> HIDE DEF Found, Step, path, Good
  <2>3. \A m \in 1 .. n : m - 1 \in Found => m \in Found
    BY <2>2
  <2>4. QED
    BY <1>1, <2>1, <2>3, UpTo, SMTT(20)
<1>6. path = [i \in 1 .. n |-> Step(path, i)]
  <2> HIDE DEF Step
  <2>1. \E f : f = [i \in 1 .. n |-> Step(f, i)]
    BY <1>1, <1>5
  <2>2. QED
    BY <2>1
<1> HIDE DEF path, Found
<1>7. \A m \in 0 .. n : m \in Good
  <2>1. 0 \in Good
    OBVIOUS
  <2>2. ASSUME NEW m \in 1 .. n, m - 1 \in Good PROVE m \in Good
    <3>1. path[m] = Step(path, m)
      BY <1>6, <2>2
    <3>2. PICK p : p = schema[m].parent
      OBVIOUS
    <3>3. p # 0 => path[p] \in Seq(Name)
      <4>1. p # 0 => p \in 1 .. (m - 1)
        BY <1>3, <2>2, <3>2, SMTT(20)
      <4>2. QED
        BY <2>2, <4>1
    <3>4. PICK front \in Seq(Name) : path[m] = front \o <<schema[m].name>>
      BY <1>4, <2>2, <3>1, <3>2, <3>3
    <3>5. path[m] \in Seq(Name)
      BY <1>4, <2>2, <3>4, ConcatProperties
    <3>6. \A i \in 1 .. m : i = m \/ i \in 1 .. (m - 1)
      OBVIOUS
    <3>7. QED
      BY <2>2, <3>5, <3>6, SMTT(20)
  <2> HIDE DEF Good
  <2>3. QED
    BY <1>1, <2>1, <2>2, UpTo
<1>8. QED
  BY <1>1, <1>2, <1>7

(* Declarations listed by name: as many as there are, and only those. *)
LEMMA ByNameLists ==
  ASSUME NEW nss, NEW schema, NamedDefs(nss, schema), NEW ids \in SUBSET DOMAIN schema
  PROVE  /\ IsFiniteSet(ids) /\ Cardinality(ids) \in Nat
         /\ ByName(nss, schema, ids) \in [1 .. Cardinality(ids) -> ids]
         /\ Range(ByName(nss, schema, ids)) \subseteq ids
<1>1. PICK n \in Nat : DOMAIN schema = 1 .. n
  BY DEF NamedDefs
<1>2. PICK named : named = {<<Qualified(nss, schema, id), id>> : id \in ids}
  OBVIOUS
<1> DEFINE index == [a \in named |-> a[2]]
<1>3. IsFiniteSet(ids)
  BY <1>1, FS_Interval, FS_Subset
<1>4. index \in Bijection(named, ids)
  <2>1. \A a \in named : a[2] \in ids /\ a = <<Qualified(nss, schema, a[2]), a[2]>>
    BY <1>2
  <2>2. ASSUME NEW id \in ids PROVE \E a \in named : a[2] = id
    <3>1. <<Qualified(nss, schema, id), id>> \in named
      BY <1>2
    <3>2. QED
      BY <3>1
  <2>3. index \in Injection(named, ids)
    BY <2>1 DEF Injection, IsInjective
  <2>4. index \in Surjection(named, ids)
    BY <2>1, <2>2 DEF Surjection
  <2>5. QED
    BY <2>3, <2>4 DEF Bijection
<1>5. IsFiniteSet(named) /\ Cardinality(named) = Cardinality(ids)
  <2> HIDE DEF index
  <2>1. index \in Injection(named, ids) /\ index \in Surjection(named, ids)
    BY <1>4 DEF Bijection
  <2>2. QED
    BY <1>3, <2>1, FS_Injection
<1>6. \A a \in named : a = <<a[1], a[2]>> /\ a[1] \in Seq(Name) /\ a[2] \in Nat /\ a[2] \in ids
  BY <1>1, <1>2, QualifiedNames
<1>7. AreNamed(named)
  BY <1>5, <1>6 DEF AreNamed
<1>8. /\ Cardinality(named) \in Nat
      /\ DOMAIN Sorted(named) = 1 .. Cardinality(named)
      /\ \A k \in 1 .. Cardinality(named) : \E a \in named : Sorted(named)[k] = a[2]
  BY <1>7, SortedLists
<1>9. ByName(nss, schema, ids) = Sorted(named)
  BY <1>2 DEF ByName
<1>10. \A k \in 1 .. Cardinality(named) : Sorted(named)[k] \in ids
  BY <1>6, <1>8
<1>11. PICK g : g = Sorted(named)
  OBVIOUS
<1>12. g = [k \in DOMAIN g |-> g[k]]
  BY <1>11 DEF Sorted
<1>13. g \in [1 .. Cardinality(ids) -> ids]
  BY <1>5, <1>8, <1>10, <1>11, <1>12
<1>14. QED
  BY <1>3, <1>5, <1>8, <1>9, <1>11, <1>13 DEF Range

-----------------------------------------------------------------------------
(* What a table of names is lowered to. *)
RawDefs(t) == [id \in DOMAIN t.types |-> LowerDef(t, id, t.types[id], t.types[id].item)]

(* A declaration once its links are sorted. *)
SortedDef(t, def) ==
  [def EXCEPT !.links =
     [pair \in DOMAIN @ |-> SortLink(NamespaceNames(t), RawDefs(t), @[pair])]]

(* Lowering a table is lowering each declaration and sorting its links. *)
LEMMA DefsAreSorted ==
  ASSUME NEW t
  PROVE  /\ DOMAIN DefsOf(t) = DOMAIN t.types /\ DOMAIN RawDefs(t) = DOMAIN t.types
         /\ DefsOf(t) = SortLinks(NamespaceNames(t), RawDefs(t))
         /\ \A id \in DOMAIN t.types :
              DefsOf(t)[id] = IF RawDefs(t)[id].tag # "message" THEN RawDefs(t)[id]
                              ELSE SortedDef(t, RawDefs(t)[id])
<1>1. DefsOf(t) = SortLinks(NamespaceNames(t), RawDefs(t))
  BY DEF DefsOf, RawDefs
<1>2. DOMAIN RawDefs(t) = DOMAIN t.types
  BY DEF RawDefs
<1>3. DefsOf(t) = [id \in DOMAIN RawDefs(t) |->
                     IF RawDefs(t)[id].tag # "message" THEN RawDefs(t)[id]
                     ELSE SortedDef(t, RawDefs(t)[id])]
  BY <1>1 DEF SortLinks, SortedDef
<1>4. QED
  BY <1>1, <1>2, <1>3

(* The declarations lowered are those of the table, named as it says. *)
LEMMA NamesOfDefs ==
  ASSUME NEW text, NEW t, Parsed(text), TableOK(text, t)
  PROVE  NamedDefs(NamespaceNames(t), RawDefs(t))
<1>1. PICK n \in Nat : DOMAIN t.types = 1 .. n
  BY SeqFacts DEF TableOK
<1>2. ASSUME NEW id \in DOMAIN t.types
      PROVE  /\ RawDefs(t)[id].parent \in 0 .. (id - 1)
             /\ NamespaceNames(t)[RawDefs(t)[id].ns] \in Seq(Name)
             /\ RawDefs(t)[id].name \in Name
  <2>1. PICK site, item, def : /\ site = t.types[id] /\ item = site.item
                               /\ def = LowerDef(t, id, site, item)
    OBVIOUS
  <2>2. /\ site.parent \in 0 .. (id - 1) /\ site.ns \in DOMAIN t.nss
        /\ item \in ItemsOf(text)
    BY <2>1 DEF TableOK, SiteOK
  <2>3. def.parent = site.parent /\ def.ns = site.ns /\ def.name = item.name
    BY <2>1, LoweredHead
  <2>4. item.name \in Name
    <3>1. PICK source \in Range(text) : item \in Range(source.items)
      BY <2>2 DEF ItemsOf
    <3>2. PICK j \in DOMAIN source.items : item = source.items[j]
      BY <3>1 DEF Range
    <3>3. source.items[j].name \in Range(Alphabet)
      BY DEF Parsed
    <3>4. QED
      BY <3>2, <3>3 DEF Name
  <2>5. NamespaceNames(t)[site.ns] \in Seq(Name)
    BY <2>2 DEF TableOK, NamespaceOK, NamespaceNames
  <2>6. RawDefs(t)[id] = def
    BY <2>1 DEF RawDefs
  <2>7. QED
    BY <2>2, <2>3, <2>4, <2>5, <2>6
<1>3. DOMAIN RawDefs(t) = 1 .. n
  BY <1>1 DEF RawDefs
<1>4. QED
  BY <1>1, <1>2, <1>3 DEF NamedDefs

(* Sorting the links leaves all else as it is. *)
LEMMA SortedBody ==
  ASSUME NEW t, NEW id \in DOMAIN t.types
  PROVE  /\ DefsOf(t)[id].tag = t.types[id].item.tag
         /\ BodyTypes(DefsOf(t)[id]) = BodyTypes(RawDefs(t)[id])
         /\ TypesOf(DefsOf(t)[id]) = TypesOf(RawDefs(t)[id])
<1>1. PICK raw, def : raw = RawDefs(t)[id] /\ def = DefsOf(t)[id]
  OBVIOUS
<1>2. raw.tag = t.types[id].item.tag
  BY <1>1, LoweredHead DEF RawDefs
<1>3. CASE raw.tag # "message"
  BY <1>1, <1>2, <1>3, DefsAreSorted
<1>4. CASE raw.tag = "message"
  <2>1. def = SortedDef(t, raw)
    BY <1>1, <1>4, DefsAreSorted
  <2>2. def.tag = raw.tag /\ def.fields = raw.fields
    <3>1. raw = LowerDef(t, id, t.types[id], t.types[id].item)
      BY <1>1 DEF RawDefs
    <3>2. "tag" \in DOMAIN raw /\ "fields" \in DOMAIN raw
      BY <1>2, <1>4, <3>1 DEF LowerDef, LowerBody, OrElse
    <3>3. QED
      BY <2>1, <3>2 DEF SortedDef
  <2>3. BodyTypes(def) = FieldTypes(def.fields) /\ BodyTypes(raw) = FieldTypes(raw.fields)
    BY <1>4, <2>2 DEF BodyTypes
  <2>4. TypesOf(def) = BodyTypes(def) /\ TypesOf(raw) = BodyTypes(raw)
    BY <1>4, <2>2 DEF TypesOf
  <2>5. QED
    BY <1>1, <1>2, <2>2, <2>3, <2>4
<1>5. QED
  BY <1>3, <1>4

(* The links of a message. *)
RawLinks(t, id) ==
  LET item == t.types[id].item
  IN Links(Side(t, id, item.from), Side(t, id, item.to), item.both)

(* The links a message ends with are its own, each one sorted. *)
LEMMA SortedLinks ==
  ASSUME NEW t, NEW id \in DOMAIN t.types, t.types[id].item.tag = "message"
  PROVE  /\ DOMAIN DefsOf(t)[id].links = DOMAIN RawLinks(t, id)
         /\ \A pair \in DOMAIN RawLinks(t, id) :
              DefsOf(t)[id].links[pair] =
                SortLink(NamespaceNames(t), RawDefs(t), RawLinks(t, id)[pair])
<1>1. PICK raw, def : raw = RawDefs(t)[id] /\ def = DefsOf(t)[id]
  OBVIOUS
<1>2. PICK site, item, body : /\ site = t.types[id] /\ item = site.item
                              /\ body = LowerBody(t, id, site, item)
  OBVIOUS
<1>3. raw = LowerDef(t, id, site, item) /\ raw.tag = "message"
  BY <1>1, <1>2, LoweredHead DEF RawDefs
<1>4. "links" \in DOMAIN body /\ body.links = RawLinks(t, id)
  BY <1>2 DEF LowerBody, RawLinks
<1>5. raw.links = RawLinks(t, id) /\ "links" \in DOMAIN raw
  BY <1>2, <1>3, <1>4, LoweredBody DEF LowerDef, OrElse
<1>6. def = SortedDef(t, raw)
  BY <1>1, <1>3, DefsAreSorted
<1>7. /\ DOMAIN def.links = DOMAIN raw.links
      /\ \A pair \in DOMAIN raw.links :
           def.links[pair] = SortLink(NamespaceNames(t), RawDefs(t), raw.links[pair])
  BY <1>5, <1>6 DEF SortedDef
<1>8. QED
  BY <1>1, <1>5, <1>7

-----------------------------------------------------------------------------
(* Links. *)
HubIds(t) == {id \in DOMAIN t.types : TagOf(t, id) = "hub"}

(* A side that a hub is on names kinds of hubs, or is any hub. *)
SideOK(side, hubs) ==
  /\ side.kinds \subseteq hubs
  /\ "hub" \in side.roles => side.bare \/ side.kinds # {}

(* What a side of a message is lowered to names kinds of hubs only. *)
LEMMA SideLowered ==
  ASSUME NEW t, NEW id, NEW endpoints
  PROVE  SideOK(Side(t, id, endpoints), HubIds(t))
<1> DEFINE kinds == [k \in DOMAIN endpoints |->
                       UNION {HubKind(t, t.types[id].source, t.types[id].parent, path) :
                                path \in Range(endpoints[k].kind)}]
           listed == {k \in DOMAIN endpoints : endpoints[k].kind = None \/ kinds[k] # {}}
<1>1. PICK side : side = Side(t, id, endpoints)
  OBVIOUS
<1>2. /\ side.kinds = UNION {kinds[k] : k \in listed}
      /\ side.roles = {endpoints[k].role : k \in listed}
  BY <1>1 DEF Side, LowerSide
<1>3. side.bare = \E k \in listed : endpoints[k].role = "hub" /\ kinds[k] = {}
  BY <1>1 DEF Side, LowerSide
<1>4. \A k \in listed : kinds[k] \subseteq HubIds(t)
  BY DEF HubKind, HubIds, Resolve
<1> HIDE DEF kinds, listed
<1>5. ~ side.bare => \A k \in listed : endpoints[k].role = "hub" => kinds[k] # {}
  BY <1>3
<1>6. side.kinds \subseteq HubIds(t)
  BY <1>2, <1>4
<1>7. ASSUME "hub" \in side.roles, ~ side.bare PROVE side.kinds # {}
  <2>1. PICK k \in listed : endpoints[k].role = "hub"
    BY <1>2, <1>7
  <2>2. kinds[k] # {} /\ kinds[k] \subseteq side.kinds
    BY <1>2, <1>5, <1>7, <2>1
  <2>3. QED
    BY <2>2
<1>8. QED
  BY <1>1, <1>6, <1>7 DEF SideOK

(* Links that all lead to one hub kind when they lead to a hub, and back    *)
(* when they go both ways.                                                  *)
RoutesTo(links, hubs, hub, both) ==
  \A pair \in DOMAIN links :
    /\ DOMAIN links[pair] = {"fromKinds", "toKind"}
    /\ IsLink(pair[1], pair[2])
    /\ links[pair].toKind = IF pair[2] = "hub" THEN Some(hub) ELSE None
    /\ pair[2] = "hub" => hub \in hubs
    /\ links[pair].fromKinds \subseteq hubs
    /\ both => /\ <<pair[2], pair[1]>> \in DOMAIN links
               /\ links[pair].fromKinds = IF pair[1] = "hub" THEN {hub} ELSE {}

(* A link of one product of the sides. *)
ProductLink(link, pair, f, g, hubs, hub) ==
  /\ DOMAIN link = {"fromKinds", "toKind"}
  /\ pair = <<pair[1], pair[2]>> /\ pair[1] \in f.roles /\ pair[2] \in g.roles
  /\ link.toKind = IF pair[2] = "hub" THEN Some(hub) ELSE None
  /\ pair[2] = "hub" => hub \in hubs
  /\ link.fromKinds = IF pair[1] = "hub" THEN f.kinds ELSE {}

(* A link of the product of two sides is between their roles, and goes to   *)
(* the one kind of hub that receives.                                       *)
LEMMA ProductRoutes ==
  ASSUME NEW f, NEW g, NEW hubs, NEW hub, NEW pair,
         SideOK(f, hubs), SideOK(g, hubs),
         "hub" \in g.roles => g.kinds = {hub},
         pair \in DOMAIN LinksOf(f, g)
  PROVE  ProductLink(LinksOf(f, g)[pair], pair, f, g, hubs, hub)
<1>1. pair \in f.roles \X g.roles
  BY DEF LinksOf
<1>2. pair = <<pair[1], pair[2]>> /\ pair[1] \in f.roles /\ pair[2] \in g.roles
  BY <1>1
<1>3. PICK link : link = LinksOf(f, g)[pair]
  OBVIOUS
<1>4. link = [fromKinds |-> IF pair[1] = "hub" THEN f.kinds ELSE {},
              toKind |-> IF pair[2] = "hub" /\ g.kinds # {}
                         THEN Some(CHOOSE kind \in g.kinds : TRUE) ELSE None]
  BY <1>1, <1>3 DEF LinksOf
<1>5. pair[2] = "hub" => g.kinds = {hub} /\ (CHOOSE kind \in g.kinds : TRUE) = hub /\ hub \in hubs
  BY <1>2 DEF SideOK
<1>6. DOMAIN link = {"fromKinds", "toKind"} /\ link.fromKinds = IF pair[1] = "hub" THEN f.kinds ELSE {}
  BY <1>4
<1>7. link.toKind = IF pair[2] = "hub" THEN Some(hub) ELSE None
  BY <1>4, <1>5
<1>8. QED
  BY <1>2, <1>3, <1>5, <1>6, <1>7 DEF ProductLink

(* A message without errors can be routed on each of its links, in both     *)
(* directions when it has both.                                             *)
LEMMA LinksRoute ==
  ASSUME NEW f, NEW g, NEW both, NEW hubs, SideOK(f, hubs), SideOK(g, hubs),
         LinkErrors(f, g, both) = {}
  PROVE  \E hub : RoutesTo(Links(f, g, both), hubs, hub, both)
<1>1. PICK receivers : receivers = IF both THEN {g, f} ELSE {g}
  OBVIOUS
<1>2. PICK kinds : kinds = UNION {side.kinds : side \in receivers}
  OBVIOUS
<1>3. /\ \A side \in receivers : ~ side.bare
      /\ \A a, b \in kinds : a = b
      /\ \A a \in f.roles, b \in g.roles : IsLink(a, b)
  BY <1>1, <1>2 DEF LinkErrors, Error
<1>4. PICK hub : hub = CHOOSE kind \in kinds : TRUE
  OBVIOUS
<1>5. ASSUME NEW side \in receivers, "hub" \in side.roles PROVE side.kinds = {hub}
  <2>1. side.kinds # {} /\ side.kinds \subseteq kinds
    BY <1>1, <1>2, <1>3, <1>5 DEF SideOK
  <2>2. hub \in kinds
    BY <1>4, <2>1
  <2>3. QED
    BY <1>3, <2>1, <2>2
<1>6. \A a \in f.roles, b \in g.roles : IsLink(b, a)
  BY <1>3 DEF IsLink
<1>7. PICK links : links = Links(f, g, both)
  OBVIOUS
<1>8. CASE ~ both
  <2>1. links = LinksOf(f, g)
    BY <1>7, <1>8 DEF Links
  <2>2. "hub" \in g.roles => g.kinds = {hub}
    BY <1>1, <1>5, <1>8
  <2>3. ASSUME NEW pair \in DOMAIN links
        PROVE  /\ DOMAIN links[pair] = {"fromKinds", "toKind"}
               /\ IsLink(pair[1], pair[2])
               /\ links[pair].toKind = IF pair[2] = "hub" THEN Some(hub) ELSE None
               /\ pair[2] = "hub" => hub \in hubs
               /\ links[pair].fromKinds \subseteq hubs
    <3>1. PICK link : link = LinksOf(f, g)[pair]
      OBVIOUS
    <3>2. ProductLink(link, pair, f, g, hubs, hub)
      BY <2>1, <2>2, <2>3, <3>1, ProductRoutes
    <3>3. QED
      BY <1>3, <2>1, <3>1, <3>2 DEF SideOK, ProductLink
  <2>4. RoutesTo(links, hubs, hub, both)
    BY <1>8, <2>3 DEF RoutesTo
  <2>5. QED
    BY <1>7, <2>4
<1>9. CASE both
  <2>1. links = OrElse(LinksOf(f, g), LinksOf(g, f))
    BY <1>7, <1>9 DEF Links
  <2>2. ("hub" \in g.roles => g.kinds = {hub}) /\ ("hub" \in f.roles => f.kinds = {hub})
    BY <1>1, <1>5, <1>9
  <2>3. /\ DOMAIN links = (f.roles \X g.roles) \cup (g.roles \X f.roles)
        /\ \A pair \in DOMAIN links :
             links[pair] = IF pair \in DOMAIN LinksOf(f, g) THEN LinksOf(f, g)[pair]
                           ELSE LinksOf(g, f)[pair]
    BY <2>1 DEF OrElse, LinksOf
  <2>4. /\ DOMAIN LinksOf(f, g) = f.roles \X g.roles
        /\ DOMAIN LinksOf(g, f) = g.roles \X f.roles
    BY DEF LinksOf
  <2>5. ASSUME NEW pair \in DOMAIN links
        PROVE  /\ DOMAIN links[pair] = {"fromKinds", "toKind"}
               /\ IsLink(pair[1], pair[2])
               /\ links[pair].toKind = IF pair[2] = "hub" THEN Some(hub) ELSE None
               /\ pair[2] = "hub" => hub \in hubs
               /\ links[pair].fromKinds = IF pair[1] = "hub" THEN {hub} ELSE {}
               /\ links[pair].fromKinds \subseteq hubs
               /\ <<pair[2], pair[1]>> \in DOMAIN links
    <3>1. CASE pair \in DOMAIN LinksOf(f, g)
      <4>1. PICK link : link = LinksOf(f, g)[pair] /\ links[pair] = link
        BY <2>3, <2>5, <3>1
      <4>2. ProductLink(link, pair, f, g, hubs, hub)
        BY <2>2, <3>1, <4>1, ProductRoutes
      <4>3. QED
        BY <1>3, <2>2, <2>3, <4>1, <4>2 DEF SideOK, ProductLink
    <3>2. CASE pair \notin DOMAIN LinksOf(f, g)
      <4>1. pair \in DOMAIN LinksOf(g, f)
        BY <2>3, <2>4, <2>5, <3>2
      <4>2. PICK link : link = LinksOf(g, f)[pair] /\ links[pair] = link
        BY <2>3, <2>5, <3>2
      <4>3. ProductLink(link, pair, g, f, hubs, hub)
        BY <2>2, <4>1, <4>2, ProductRoutes
      <4>4. QED
        BY <1>6, <2>2, <2>3, <4>2, <4>3 DEF SideOK, ProductLink
    <3>3. QED
      BY <3>1, <3>2
  <2>6. RoutesTo(links, hubs, hub, both)
    BY <2>5 DEF RoutesTo
  <2>7. QED
    BY <1>7, <2>6
<1>10. QED
  BY <1>8, <1>9

-----------------------------------------------------------------------------
(* The declarations lowered so far had no error. *)
CleanDefs == \A id \in DOMAIN defs : DefErrors(table, id, table.types[id], table.types[id].item) = {}

(* The passes. *)
Phases == {"names", "lower", "fixed", "cycles", "search", "wire", "done"}

(* What the passes have made of the sources when the next one begins. *)
CompilerInv ==
  /\ \E family \in Schemas : sources \in family
  /\ phase \in Phases
  /\ phase = "names" => defs = <<>>
  /\ phase # "names" => table = ResolverOf(sources)
  /\ phase = "lower" =>
       /\ IsSeq(defs) /\ DOMAIN defs \subseteq DOMAIN table.types
       /\ \A id \in DOMAIN defs :
            defs[id] = LowerDef(table, id, table.types[id], table.types[id].item)
  /\ phase \notin {"names", "lower"} => defs = DefsOf(table)
  /\ phase # "names" /\ (errors = {} \/ phase \in {"search", "wire"}) => CleanDefs

(* What every reachable table is. *)
LEMMA TableKnown ==
  ASSUME CompilerInv, phase # "names"
  PROVE  /\ Parsed(sources) /\ TableOK(sources, table)
         /\ NamedDefs(NamespaceNames(table), RawDefs(table))
<1>1. Parsed(sources)
  BY SchemasAssumption DEF CompilerInv
<1>2. TableOK(sources, table)
  BY <1>1, TableResolved DEF CompilerInv
<1>3. QED
  BY <1>1, <1>2, NamesOfDefs

(* No pass has run. *)
LEMMA InitInv == Init => CompilerInv
<1>1. SUFFICES ASSUME Init PROVE CompilerInv
  OBVIOUS
<1>2. DOMAIN <<>> = {}
  OBVIOUS
<1>3. QED
  BY <1>1, <1>2 DEF Init, CompilerInv, Phases

(* One more declaration is lowered. *)
LEMMA LowerNextDefInv == ASSUME CompilerInv, LowerNextDef PROVE CompilerInv'
<1>1. PICK id \in DOMAIN table.types :
        /\ id = Len(defs) + 1
        /\ defs' = Append(defs, LowerDef(table, id, table.types[id], table.types[id].item))
        /\ errors' = errors \cup DefErrors(table, id, table.types[id], table.types[id].item)
  BY DEF LowerNextDef
<1>2. phase = "lower" /\ UNCHANGED <<sources, phase, table>>
  BY DEF LowerNextDef
<1>3. PICK n \in Nat : n = Len(defs) /\ DOMAIN defs = 1 .. n
  BY <1>2, SeqFacts DEF CompilerInv
<1>4. /\ IsSeq(defs') /\ DOMAIN defs' = 1 .. (n + 1)
      /\ \A k \in 1 .. n : defs'[k] = defs[k]
      /\ defs'[n + 1] = LowerDef(table, id, table.types[id], table.types[id].item)
  BY <1>1, <1>2, <1>3, AppendSeq, SeqFacts DEF CompilerInv
<1>5. \A k \in 1 .. (n + 1) : k = id \/ k \in 1 .. n
  BY <1>1, <1>3
<1>6. DOMAIN defs' \subseteq DOMAIN table.types
  BY <1>1, <1>2, <1>3, <1>4, <1>5 DEF CompilerInv
<1>7. \A k \in DOMAIN defs' : defs'[k] = LowerDef(table, k, table.types[k], table.types[k].item)
  BY <1>1, <1>2, <1>3, <1>4, <1>5 DEF CompilerInv
<1>8. ASSUME errors' = {} PROVE CleanDefs'
  <2>1. errors = {} /\ DefErrors(table, id, table.types[id], table.types[id].item) = {}
    BY <1>1, <1>8
  <2>2. \A k \in 1 .. n : DefErrors(table, k, table.types[k], table.types[k].item) = {}
    BY <1>2, <1>3, <2>1 DEF CompilerInv, CleanDefs
  <2>3. QED
    BY <1>2, <1>4, <1>5, <2>1, <2>2 DEF CleanDefs
<1>9. QED
  BY <1>2, <1>4, <1>6, <1>7, <1>8 DEF CompilerInv

(* The last pass over the declarations. *)
LEMMA SortKindsInv == ASSUME CompilerInv, SortKinds PROVE CompilerInv'
<1>1. /\ phase = "lower" /\ phase' = "fixed" /\ DOMAIN defs = DOMAIN table.types
      /\ defs' = SortLinks(NamespaceNames(table), defs)
      /\ UNCHANGED <<sources, table, errors>>
  BY DEF SortKinds
<1>2. defs = RawDefs(table)
  <2>1. /\ IsSeq(defs)
        /\ \A id \in DOMAIN defs :
             defs[id] = LowerDef(table, id, table.types[id], table.types[id].item)
    BY <1>1 DEF CompilerInv
  <2>2. defs = [id \in DOMAIN defs |-> defs[id]]
    BY <2>1 DEF IsSeq
  <2>3. defs = [id \in DOMAIN table.types |->
                  LowerDef(table, id, table.types[id], table.types[id].item)]
    BY <1>1, <2>1, <2>2
  <2>4. QED
    BY <2>3 DEF RawDefs
<1>3. defs' = DefsOf(table) /\ DOMAIN defs' = DOMAIN table.types
  BY <1>1, <1>2, DefsAreSorted
<1>4. errors' = {} => CleanDefs'
  BY <1>1, <1>3 DEF CompilerInv, CleanDefs
<1>5. QED
  BY <1>1, <1>3, <1>4 DEF CompilerInv, Phases

(* Every step of the compiler keeps its invariant. *)
LEMMA NextInv == CompilerInv /\ [Next]_vars => CompilerInv'
<1>1. SUFFICES ASSUME CompilerInv, [Next]_vars PROVE CompilerInv'
  OBVIOUS
<1>2. CASE ResolveNames
  <2>1. defs' = <<>> /\ DOMAIN <<>> = {} /\ IsSeq(<<>>)
    BY <1>1, <1>2, EmptySeq DEF ResolveNames, CompilerInv, IsSeq
  <2>2. QED
    BY <1>1, <1>2, <2>1 DEF ResolveNames, CompilerInv, CleanDefs, Phases
<1>3. CASE LowerNextDef
  BY <1>1, <1>3, LowerNextDefInv
<1>4. CASE LowerNextConst
  BY <1>1, <1>4 DEF LowerNextConst, CompilerInv, CleanDefs
<1>5. CASE SortKinds
  BY <1>1, <1>5, SortKindsInv
<1>6. CASE CheckFixed
  BY <1>1, <1>6 DEF CheckFixed, CompilerInv, CleanDefs, Phases
<1>7. CASE CheckCycles
  BY <1>1, <1>7 DEF CheckCycles, CompilerInv, CleanDefs, Phases
<1>8. CASE SearchCycles
  BY <1>1, <1>8 DEF SearchCycles, CompilerInv, CleanDefs
<1>9. CASE ReportCycles
  BY <1>1, <1>9 DEF ReportCycles, CompilerInv, CleanDefs, Phases
<1>10. CASE CheckWire
  BY <1>1, <1>10 DEF CheckWire, CompilerInv, CleanDefs, Phases
<1>11. CASE Reject
  BY <1>1, <1>11 DEF Reject, CompilerInv, CleanDefs, Phases
<1>12. CASE UNCHANGED vars
  BY <1>1, <1>12 DEF vars, CompilerInv, CleanDefs
<1>13. QED
  BY <1>1, <1>2, <1>3, <1>4, <1>5, <1>6, <1>7, <1>8, <1>9, <1>10, <1>11, <1>12 DEF Next

(* The passes make of the sources what lowering them in one go makes. *)
THEOREM CompilerInvariance == Spec => []CompilerInv
BY InitInv, NextInv, PTL DEF Spec

-----------------------------------------------------------------------------
(* What a type of a lowered schema names is declared, and is no message and *)
(* no hub kind.                                                             *)
LEMMA DefsRefs ==
  ASSUME NEW t, NEW id \in DOMAIN t.types, NEW ty \in TypesOf(DefsOf(t)[id]), NEW other \in Refs(ty)
  PROVE  other \in DOMAIN t.types /\ DefsOf(t)[other].tag \notin {"message", "hub"}
<1>1. ty \in TypesOf(LowerDef(t, id, t.types[id], t.types[id].item))
  BY SortedBody DEF RawDefs
<1>2. PICK w \in TypesOf(t.types[id].item) : \E clean : IsLoweredFrom(t, ty, w, clean)
  BY <1>1, LoweredTypes DEF TypesLoweredFrom
<1>3. PICK source, scope : ty = LowerType(t, source, scope, w)
  BY <1>2 DEF IsLoweredFrom
<1>4. other \in DOMAIN t.types /\ TagOf(t, other) \notin {"message", "hub"}
  BY <1>3, LoweredRefs
<1>5. QED
  BY <1>4, SortedBody DEF TagOf

(* The search for recursive declarations runs on a graph: what a lowered    *)
(* declaration refers to is declared.                                       *)
LEMMA ReferencesAreGraph ==
  ASSUME CompilerInv, phase \notin {"names", "lower"}
  PROVE  References(defs) \in Graphs
<1>1. PICK n \in Nat : DOMAIN table.types = 1 .. n
  BY TableKnown, SeqFacts DEF TableOK
<1>2. defs = DefsOf(table) /\ DOMAIN defs = 1 .. n
  BY <1>1, DefsAreSorted DEF CompilerInv
<1>3. \A id \in 1 .. n : DirectRefs(defs[id]) \subseteq 1 .. n
  BY <1>1, <1>2, DefsRefs DEF DirectRefs, TypesOf
<1>4. PICK ids : ids = 1 .. n
  OBVIOUS
<1>5. References(defs) \in [ids -> SUBSET ids] /\ ids \in SUBSET Nat
  BY <1>2, <1>3, <1>4 DEF References
<1>6. QED
  BY <1>5 DEF Graphs

(* The compiler's search for cycles is a search of Cycles. *)
THEOREM SearchIsSearch == Spec => SearchSpec
<1>1. Init => NoSearch
  BY DEF Init
<1>2. CompilerInv /\ [Next]_vars => [SearchNext]_searchVars
  <2>1. SUFFICES ASSUME CompilerInv, [Next]_vars PROVE [SearchNext]_searchVars
    OBVIOUS
  <2>2. CASE CheckCycles
    <3>1. References(defs) \in Graphs
      BY <2>1, <2>2, ReferencesAreGraph DEF CheckCycles
    <3>2. QED
      BY <2>2, <3>1 DEF CheckCycles, SearchNext
  <2>3. CASE SearchCycles
    BY <2>3 DEF SearchCycles, SearchNext
  <2>4. CASE UNCHANGED searchVars
    BY <2>4
  <2>5. ResolveNames \/ LowerNextDef \/ LowerNextConst \/ SortKinds \/ CheckFixed
          \/ ReportCycles \/ CheckWire \/ Reject \/ UNCHANGED vars => UNCHANGED searchVars
    BY DEF ResolveNames, LowerNextDef, LowerNextConst, SortKinds, CheckFixed, ReportCycles,
           CheckWire, Reject, vars
  <2>6. QED
    BY <2>1, <2>2, <2>3, <2>4, <2>5 DEF Next
<1>3. QED
  BY <1>1, <1>2, CompilerInvariance, PTL DEF Spec, SearchSpec

(* A schema is found recursive exactly when its references have a ring. *)
THEOREM CompilerFindsCycles == Spec => []CyclesExactly
BY SearchIsSearch, CyclesAlwaysExact, PTL

-----------------------------------------------------------------------------
(* Sorting no kind or one. *)
LEMMA ByNameFew ==
  ASSUME NEW nss, NEW schema, NamedDefs(nss, schema)
  PROVE  /\ ByName(nss, schema, {}) = <<>>
         /\ \A id \in DOMAIN schema : ByName(nss, schema, {id}) = <<id>>
<1>1. ByName(nss, schema, {}) = <<>>
  <2>1. ByName(nss, schema, {}) \in [1 .. 0 -> {}]
    BY ByNameLists, FS_EmptySet
  <2>2. QED
    BY <2>1
<1>2. ASSUME NEW id \in DOMAIN schema PROVE ByName(nss, schema, {id}) = <<id>>
  <2>1. PICK s : s = ByName(nss, schema, {id})
    OBVIOUS
  <2>2. {id} \in SUBSET DOMAIN schema /\ Cardinality({id}) = 1
    BY FS_Singleton
  <2>3. s \in [1 .. 1 -> {id}]
    BY <2>1, <2>2, ByNameLists
  <2>4. s[1] = id /\ s = [k \in 1 .. 1 |-> s[k]]
    BY <2>3
  <2>5. s = <<id>>
    BY <2>4
  <2>6. QED
    BY <2>1, <2>5
<1>3. QED
  BY <1>1, <1>2

(* The links of a message of an accepted schema. *)
LEMMA AcceptedLinks ==
  ASSUME CompilerInv, Accepted, NEW id \in OfTag(defs, "message")
  PROVE  \E hub :
           LET links == defs[id].links
               both == table.types[id].item.both
           IN \A pair \in DOMAIN links :
                /\ IsLink(pair[1], pair[2])
                /\ links[pair].toKind = IF pair[2] = "hub" THEN Some(hub) ELSE None
                /\ pair[2] = "hub" => hub \in OfTag(defs, "hub")
                /\ Range(links[pair].fromKinds) \subseteq OfTag(defs, "hub")
                /\ both => /\ <<pair[2], pair[1]>> \in DOMAIN links
                           /\ links[pair].fromKinds = IF pair[1] = "hub" THEN <<hub>> ELSE <<>>
<1>1. phase = "done" /\ errors = {} /\ phase \notin {"names", "lower"}
  BY DEF Accepted
<1>2. defs = DefsOf(table) /\ CleanDefs /\ DOMAIN defs = DOMAIN table.types
  BY <1>1, DefsAreSorted DEF CompilerInv
<1>3. NamedDefs(NamespaceNames(table), RawDefs(table)) /\ DOMAIN RawDefs(table) = DOMAIN table.types
  BY <1>1, TableKnown, DefsAreSorted
<1>4. OfTag(defs, "hub") = HubIds(table)
  BY <1>2, SortedBody DEF OfTag, HubIds, TagOf
<1>5. id \in DOMAIN table.types /\ table.types[id].item.tag = "message"
  BY <1>2, SortedBody DEF OfTag
<1>6. PICK item, from, to : /\ item = table.types[id].item
                            /\ from = Side(table, id, item.from)
                            /\ to = Side(table, id, item.to)
  OBVIOUS
<1>7. LinkErrors(from, to, item.both) = {}
  <2>1. DefErrors(table, id, table.types[id], item) = {}
    BY <1>2, <1>5, <1>6 DEF CleanDefs
  <2>2. QED
    BY <1>5, <1>6, <2>1 DEF DefErrors
<1>8. SideOK(from, HubIds(table)) /\ SideOK(to, HubIds(table))
  BY <1>6, SideLowered
<1>9. PICK hub : RoutesTo(Links(from, to, item.both), HubIds(table), hub, item.both)
  BY <1>7, <1>8, LinksRoute
<1>10. PICK raw : raw = RawLinks(table, id)
  OBVIOUS
<1>11. RoutesTo(raw, HubIds(table), hub, item.both)
  BY <1>6, <1>9, <1>10 DEF RawLinks
<1>12. PICK links : links = defs[id].links
  OBVIOUS
<1>13. /\ DOMAIN links = DOMAIN raw
       /\ \A pair \in DOMAIN raw :
            links[pair] = SortLink(NamespaceNames(table), RawDefs(table), raw[pair])
  BY <1>2, <1>5, <1>10, <1>12, SortedLinks
<1>14. ASSUME NEW pair \in DOMAIN links
       PROVE  /\ links[pair].toKind = raw[pair].toKind
              /\ links[pair].fromKinds =
                   ByName(NamespaceNames(table), RawDefs(table), raw[pair].fromKinds)
  <2>1. PICK link : link = raw[pair]
    OBVIOUS
  <2>2. DOMAIN link = {"fromKinds", "toKind"}
    BY <1>11, <1>13, <1>14, <2>1 DEF RoutesTo
  <2>3. links[pair] = SortLink(NamespaceNames(table), RawDefs(table), link)
    BY <1>13, <1>14, <2>1
  <2>4. QED
    BY <2>1, <2>2, <2>3 DEF SortLink
<1>15. ASSUME NEW pair \in DOMAIN links
       PROVE  /\ IsLink(pair[1], pair[2])
              /\ links[pair].toKind = IF pair[2] = "hub" THEN Some(hub) ELSE None
              /\ pair[2] = "hub" => hub \in OfTag(defs, "hub")
              /\ Range(links[pair].fromKinds) \subseteq OfTag(defs, "hub")
              /\ item.both => /\ <<pair[2], pair[1]>> \in DOMAIN links
                              /\ links[pair].fromKinds = IF pair[1] = "hub" THEN <<hub>> ELSE <<>>
  <2>1. /\ IsLink(pair[1], pair[2])
        /\ raw[pair].toKind = IF pair[2] = "hub" THEN Some(hub) ELSE None
        /\ pair[2] = "hub" => hub \in HubIds(table)
        /\ raw[pair].fromKinds \subseteq HubIds(table)
        /\ item.both => /\ <<pair[2], pair[1]>> \in DOMAIN raw
                        /\ raw[pair].fromKinds = IF pair[1] = "hub" THEN {hub} ELSE {}
    BY <1>11, <1>13, <1>15 DEF RoutesTo
  <2>2. raw[pair].fromKinds \in SUBSET DOMAIN RawDefs(table)
    BY <1>3, <2>1 DEF HubIds
  <2>3. Range(links[pair].fromKinds) \subseteq raw[pair].fromKinds
    BY <1>3, <1>14, <1>15, <2>2, ByNameLists
  <2>4. ASSUME item.both
        PROVE  links[pair].fromKinds = IF pair[1] = "hub" THEN <<hub>> ELSE <<>>
    <3>1. CASE pair[1] = "hub"
      <4>1. raw[pair].fromKinds = {hub} /\ hub \in DOMAIN RawDefs(table)
        BY <2>1, <2>2, <2>4, <3>1
      <4>2. QED
        BY <1>3, <1>14, <1>15, <3>1, <4>1, ByNameFew
    <3>2. CASE pair[1] # "hub"
      BY <1>3, <1>14, <1>15, <2>1, <2>4, <3>2, ByNameFew
    <3>3. QED
      BY <3>1, <3>2
  <2>5. QED
    BY <1>4, <1>13, <1>14, <1>15, <2>1, <2>3, <2>4
<1>16. QED
  BY <1>6, <1>12, <1>15

(* The links of an accepted schema are those the pass computed. *)
LEMMA CompilerLinks == CompilerInv => LinksRoutable
<1>1. SUFFICES ASSUME CompilerInv, Accepted, NEW id \in OfTag(defs, "message"), NEW links,
                      links = defs[id].links
               PROVE  /\ \A pair \in DOMAIN links :
                           /\ IsLink(pair[1], pair[2])
                           /\ (pair[2] = "hub") = (links[pair].toKind # None)
                           /\ Range(links[pair].fromKinds) \cup Range(links[pair].toKind)
                                \subseteq OfTag(defs, "hub")
                      /\ \A p, q \in DOMAIN links :
                           p[2] = q[2] => links[p].toKind = links[q].toKind
                      /\ table.types[id].item.both =>
                           \A pair \in DOMAIN links :
                             LET back == <<pair[2], pair[1]>>
                             IN /\ back \in DOMAIN links
                                /\ links[back].fromKinds = links[pair].toKind
                                /\ links[back].toKind = links[pair].fromKinds
  BY DEF LinksRoutable
<1>2. PICK hub :
        \A pair \in DOMAIN links :
          /\ IsLink(pair[1], pair[2])
          /\ links[pair].toKind = IF pair[2] = "hub" THEN Some(hub) ELSE None
          /\ pair[2] = "hub" => hub \in OfTag(defs, "hub")
          /\ Range(links[pair].fromKinds) \subseteq OfTag(defs, "hub")
          /\ table.types[id].item.both =>
               /\ <<pair[2], pair[1]>> \in DOMAIN links
               /\ links[pair].fromKinds = IF pair[1] = "hub" THEN <<hub>> ELSE <<>>
  BY <1>1, AcceptedLinks
<1>3. ASSUME NEW pair \in DOMAIN links
      PROVE  /\ IsLink(pair[1], pair[2])
             /\ (pair[2] = "hub") = (links[pair].toKind # None)
             /\ Range(links[pair].fromKinds) \cup Range(links[pair].toKind)
                  \subseteq OfTag(defs, "hub")
  <2>1. Range(None) = {} /\ Range(Some(hub)) = {hub} /\ None # Some(hub)
    BY DEF Range, None, Some
  <2>2. QED
    BY <1>2, <1>3, <2>1
<1>4. \A p, q \in DOMAIN links : p[2] = q[2] => links[p].toKind = links[q].toKind
  BY <1>2
<1>5. ASSUME table.types[id].item.both, NEW pair \in DOMAIN links, NEW back,
             back = <<pair[2], pair[1]>>
      PROVE  /\ back \in DOMAIN links
             /\ links[back].fromKinds = links[pair].toKind
             /\ links[back].toKind = links[pair].fromKinds
  <2>1. back \in DOMAIN links /\ back[1] = pair[2] /\ back[2] = pair[1]
    BY <1>2, <1>5
  <2>2. /\ links[pair].toKind = IF pair[2] = "hub" THEN Some(hub) ELSE None
        /\ links[back].toKind = IF pair[1] = "hub" THEN Some(hub) ELSE None
    BY <1>2, <1>5, <2>1
  <2>3. links[pair].fromKinds = IF pair[1] = "hub" THEN <<hub>> ELSE <<>>
    BY <1>2, <1>5
  <2>4. links[back].fromKinds = IF pair[2] = "hub" THEN <<hub>> ELSE <<>>
    BY <1>2, <1>5, <2>1
  <2>5. Some(hub) = <<hub>> /\ None = <<>>
    BY DEF Some, None
  <2>6. QED
    BY <2>1, <2>2, <2>3, <2>4, <2>5
<1>6. QED
  BY <1>3, <1>4, <1>5

(* A message of an accepted schema can be routed on each of its links,      *)
(* whatever the sources.                                                    *)
THEOREM LinksAlwaysRoutable == Spec => []LinksRoutable
BY CompilerLinks, CompilerInvariance, PTL

-----------------------------------------------------------------------------
(* What is generated and what is compared. *)

(* What accepted links and types lead to. *)
Referable == {id \in DOMAIN defs : defs[id].tag \notin {"message", "hub"}}

(* What each declaration names, as a graph. *)
NamedGraph == [id \in DOMAIN defs |-> NamedBy(defs[id])]

(* Graphs over the declarations of an accepted schema. *)
LEMMA AcceptedGraphs ==
  ASSUME CompilerInv, Accepted
  PROVE  /\ IsFiniteSet(DOMAIN defs)
         /\ \A id \in DOMAIN defs : NamedBy(defs[id]) \subseteq Referable
         /\ \A id \in DOMAIN defs : DirectRefs(defs[id]) \subseteq NamedBy(defs[id])
         /\ DOMAIN NamedGraph = DOMAIN defs /\ IsGraph(NamedGraph)
         /\ DOMAIN References(defs) = DOMAIN defs /\ IsGraph(References(defs))
<1>1. phase \notin {"names", "lower"} /\ phase = "done"
  BY DEF Accepted
<1>2. PICK n \in Nat : DOMAIN table.types = 1 .. n
  BY <1>1, TableKnown, SeqFacts DEF TableOK
<1>3. defs = DefsOf(table) /\ DOMAIN defs = 1 .. n
  BY <1>1, <1>2, DefsAreSorted DEF CompilerInv
<1>4. IsFiniteSet(DOMAIN defs)
  BY <1>2, <1>3, FS_Interval
<1>5. \A id \in DOMAIN defs : NamedBy(defs[id]) \subseteq Referable
  BY <1>2, <1>3, DefsRefs DEF NamedBy, Referable
<1>6. \A id \in DOMAIN defs : DirectRefs(defs[id]) \subseteq NamedBy(defs[id])
  BY DEF DirectRefs, NamedBy, TypesOf
<1>7. Referable \subseteq DOMAIN defs
  BY DEF Referable
<1>8. DOMAIN NamedGraph = DOMAIN defs /\ \A id \in DOMAIN defs : NamedGraph[id] = NamedBy(defs[id])
  BY DEF NamedGraph
<1>9. /\ DOMAIN References(defs) = DOMAIN defs
      /\ \A id \in DOMAIN defs : References(defs)[id] = DirectRefs(defs[id])
  BY DEF References
<1>10. QED
  BY <1>4, <1>5, <1>6, <1>7, <1>8, <1>9 DEF IsGraph

(* The keys of the kinds messages go to. *)
LEMMA KeyRefs ==
  ASSUME NEW kind \in OfTag(defs, "hub")
  PROVE  Refs(defs[kind].key) \subseteq NamedBy(defs[kind])
BY DEF OfTag, NamedBy, TypesOf

(* Marking from some declarations reaches what they name, and nothing that  *)
(* is not named.                                                            *)
LEMMA MarkedIsClosed ==
  ASSUME CompilerInv, Accepted, NEW ids \in SUBSET DOMAIN defs
  PROVE  /\ Mark(defs, ids) \in SUBSET DOMAIN defs
         /\ ids \subseteq Mark(defs, ids)
         /\ \A id \in Mark(defs, ids) : NamedBy(defs[id]) \subseteq Mark(defs, ids)
         /\ \A S \in SUBSET DOMAIN defs :
              /\ ids \subseteq S
              /\ \A id \in S : NamedBy(defs[id]) \subseteq S
              => Mark(defs, ids) \subseteq S
<1>1. Mark(defs, ids) = Closure(NamedGraph, ids)
  BY DEF Mark, NamedGraph
<1>2. \A id \in DOMAIN defs : NamedGraph[id] = NamedBy(defs[id])
  BY DEF NamedGraph
<1>3. DOMAIN NamedGraph = DOMAIN defs /\ IsGraph(NamedGraph) /\ IsFiniteSet(DOMAIN defs)
  BY AcceptedGraphs
<1>4. /\ Closure(NamedGraph, ids) \in SUBSET DOMAIN defs
      /\ ids \subseteq Closure(NamedGraph, ids)
      /\ ClosedUnder(NamedGraph, Closure(NamedGraph, ids))
      /\ \A S \in SUBSET DOMAIN defs :
           ids \subseteq S /\ ClosedUnder(NamedGraph, S) => Closure(NamedGraph, ids) \subseteq S
  BY <1>3, ClosureIsLeast
<1>5. \A S \in SUBSET DOMAIN defs :
        ClosedUnder(NamedGraph, S) <=> \A id \in S : NamedBy(defs[id]) \subseteq S
  BY <1>2 DEF ClosedUnder
<1>6. QED
  BY <1>1, <1>4, <1>5

(* What is marked with what it names holds all that is reached from it. *)
LEMMA MarkedHolds ==
  ASSUME CompilerInv, Accepted, NEW S \in SUBSET DOMAIN defs,
         \A id \in S : NamedBy(defs[id]) \subseteq S,
         NEW ids \in SUBSET S
  PROVE  Closure(References(defs), ids) \subseteq S
<1>1. /\ DOMAIN References(defs) = DOMAIN defs /\ IsGraph(References(defs))
      /\ IsFiniteSet(DOMAIN defs)
      /\ \A id \in DOMAIN defs : DirectRefs(defs[id]) \subseteq NamedBy(defs[id])
  BY AcceptedGraphs
<1>2. \A id \in DOMAIN defs : References(defs)[id] = DirectRefs(defs[id])
  BY DEF References
<1>3. ClosedUnder(References(defs), S)
  BY <1>1, <1>2 DEF ClosedUnder
<1>4. ids \in SUBSET DOMAIN References(defs)
  BY <1>1
<1>5. QED
  BY <1>1, <1>3, <1>4, ClosureIsLeast

(* The roots of what is marked for a role are declared. *)
LEMMA RootsDeclared ==
  ASSUME CompilerInv, Accepted, NEW role
  PROVE  /\ KindsHeld(defs, role) \subseteq DOMAIN defs
         /\ KeysSent(defs, role) \subseteq Referable
         /\ OfTag(defs, "message") \subseteq DOMAIN defs
<1>1. LinksRoutable
  BY CompilerLinks
<1>2. KindsHeld(defs, role) \subseteq DOMAIN defs
  BY DEF KindsHeld, OfTag
<1>3. ASSUME NEW other \in KeysSent(defs, role) PROVE other \in Referable
  <2>1. PICK id \in OfTag(defs, "message") :
          \E pair \in Sends(defs[id], role) : \E kind \in Range(defs[id].links[pair].toKind) :
            other \in Refs(defs[kind].key)
    BY <1>3 DEF KeysSent
  <2>2. PICK pair \in Sends(defs[id], role) :
          \E kind \in Range(defs[id].links[pair].toKind) : other \in Refs(defs[kind].key)
    BY <2>1
  <2>3. PICK kind \in Range(defs[id].links[pair].toKind) : other \in Refs(defs[kind].key)
    BY <2>2
  <2>4. kind \in OfTag(defs, "hub")
    BY <1>1, <2>2, <2>3 DEF LinksRoutable, Sends
  <2>5. kind \in DOMAIN defs
    BY <2>4 DEF OfTag
  <2>6. QED
    BY <2>4, <2>5, <2>3, KeyRefs, AcceptedGraphs
<1>4. QED
  BY <1>2, <1>3 DEF OfTag

(* A sender encodes, and a receiver decodes, what a message holds.          *)
THEOREM RolesAlwaysMeet == Spec => []RolesMeet
<1>1. CompilerInv => RolesMeet
  <2> DEFINE Held(id, pair) == {id} \cup ReachedFrom(id)
                               \cup UNION {Within(defs[kind].key) :
                                             kind \in Range(defs[id].links[pair].toKind)}
  <2>1. SUFFICES ASSUME CompilerInv, Accepted, NEW id \in OfTag(defs, "message"),
                        NEW pair \in DOMAIN defs[id].links
                 PROVE  Held(id, pair) \subseteq RoleEncodes(defs, pair[1]) \cap RoleDecodes(defs, pair[2])
    BY DEF RolesMeet, Generates
  <2>2. PICK held : held = Held(id, pair)
    OBVIOUS
  <2>3. id \in DOMAIN defs /\ DirectRefs(defs[id]) \subseteq NamedBy(defs[id])
    BY <2>1, AcceptedGraphs DEF OfTag
  <2>4. /\ Range(defs[id].links[pair].toKind) \subseteq OfTag(defs, "hub")
        /\ (pair[2] = "hub") = (defs[id].links[pair].toKind # None)
    BY <2>1, CompilerLinks DEF LinksRoutable
  <2>5. ASSUME NEW S \in SUBSET DOMAIN defs, \A i \in S : NamedBy(defs[i]) \subseteq S, id \in S,
               \A kind \in Range(defs[id].links[pair].toKind) : Refs(defs[kind].key) \subseteq S
        PROVE  held \subseteq S
    <3>1. ReachedFrom(id) \subseteq S
      <4>1. DirectRefs(defs[id]) \in SUBSET S
        BY <2>3, <2>5
      <4>2. QED
        BY <2>1, <2>5, <4>1, MarkedHolds DEF ReachedFrom
    <3>2. ASSUME NEW kind \in Range(defs[id].links[pair].toKind)
          PROVE  Within(defs[kind].key) \subseteq S
      <4>1. Refs(defs[kind].key) \in SUBSET S
        BY <2>5, <3>2
      <4>2. QED
        BY <2>1, <2>5, <4>1, MarkedHolds DEF Within
    <3>3. QED
      BY <2>2, <2>5, <3>1, <3>2
  <2>6. held \subseteq Encoded(defs, pair[1])
    <3>1. PICK roots : roots = KindsHeld(defs, pair[1]) \cup KeysSent(defs, pair[1])
                               \cup {i \in OfTag(defs, "message") : Sends(defs[i], pair[1]) # {}}
      OBVIOUS
    <3>2. roots \in SUBSET DOMAIN defs
      BY <2>1, <3>1, RootsDeclared DEF Referable
    <3>3. Encoded(defs, pair[1]) = Mark(defs, roots)
      BY <3>1 DEF Encoded
    <3>4. PICK S : S = Mark(defs, roots)
      OBVIOUS
    <3>5. /\ S \in SUBSET DOMAIN defs /\ roots \subseteq S
          /\ \A i \in S : NamedBy(defs[i]) \subseteq S
      BY <2>1, <3>2, <3>4, MarkedIsClosed
    <3>6. id \in roots
      BY <2>1, <3>1 DEF Sends
    <3>7. \A kind \in Range(defs[id].links[pair].toKind) : Refs(defs[kind].key) \subseteq roots
      BY <2>1, <3>1 DEF KeysSent, Sends
    <3>8. QED
      BY <2>5, <3>3, <3>4, <3>5, <3>6, <3>7
  <2>7. held \subseteq Decoded(defs, pair[2])
    <3>1. PICK roots : roots = KindsHeld(defs, pair[2])
                               \cup {i \in OfTag(defs, "message") : Receives(defs[i], pair[2]) # {}}
      OBVIOUS
    <3>2. roots \in SUBSET DOMAIN defs
      BY <2>1, <3>1, RootsDeclared
    <3>3. Decoded(defs, pair[2]) = Mark(defs, roots)
      BY <3>1 DEF Decoded
    <3>4. PICK S : S = Mark(defs, roots)
      OBVIOUS
    <3>5. /\ S \in SUBSET DOMAIN defs /\ roots \subseteq S
          /\ \A i \in S : NamedBy(defs[i]) \subseteq S
      BY <2>1, <3>2, <3>4, MarkedIsClosed
    <3>6. id \in roots
      BY <2>1, <3>1 DEF Receives
    <3>7. ASSUME NEW kind \in Range(defs[id].links[pair].toKind)
          PROVE  Refs(defs[kind].key) \subseteq S
      <4>1. defs[id].links[pair].toKind # None
        BY <3>7 DEF Range, None
      <4>2. pair[2] = "hub"
        BY <2>4, <4>1
      <4>3. kind \in roots
        BY <2>4, <3>1, <3>7, <4>2 DEF KindsHeld
      <4>4. kind \in OfTag(defs, "hub")
        BY <2>4, <3>7
      <4>5. QED
        BY <3>5, <4>3, <4>4, KeyRefs
    <3>8. QED
      BY <2>5, <3>3, <3>4, <3>5, <3>6, <3>7
  <2> HIDE DEF Held
  <2>8. QED
    BY <2>2, <2>6, <2>7 DEF RoleEncodes, RoleDecodes
<1>2. QED
  BY <1>1, CompilerInvariance, PTL

(* What a client encodes and decodes is covered by its fingerprint. *)
THEOREM FingerprintAlwaysCovers == Spec => []FingerprintCovers
<1>1. CompilerInv => FingerprintCovers
  <2>1. SUFFICES ASSUME CompilerInv, Accepted
                 PROVE  /\ Encoded(defs, "client") \subseteq ClientListed(defs)
                        /\ Decoded(defs, "client") \subseteq ClientListed(defs)
    BY DEF FingerprintCovers, Generates
  <2>2. PICK refs : refs = [id \in DOMAIN defs |-> Reaches(defs, id)]
    OBVIOUS
  <2>3. PICK listed : listed = Closure(refs, ClientRoots(defs))
    OBVIOUS
  <2>4. listed = ClientListed(defs)
    BY <2>2, <2>3 DEF ClientListed
  <2>5. /\ IsFiniteSet(DOMAIN defs)
        /\ \A id \in DOMAIN defs : NamedBy(defs[id]) \subseteq Referable
    BY <2>1, AcceptedGraphs
  <2>6. ASSUME NEW id \in DOMAIN defs
        PROVE  /\ refs[id] \subseteq NamedBy(defs[id])
               /\ defs[id].tag # "hub" => refs[id] = NamedBy(defs[id])
               /\ defs[id].tag = "hub" => refs[id] = Refs(defs[id].key)
    BY <2>2 DEF Reaches, NamedBy, TypesOf
  <2>7. DOMAIN refs = DOMAIN defs /\ IsGraph(refs)
    BY <2>2, <2>5, <2>6 DEF IsGraph, Referable
  <2>8. ASSUME NEW id \in OfTag(defs, "message"), NEW pair \in DOMAIN defs[id].links,
               "client" \in {pair[1], pair[2]}
        PROVE  /\ id \in ClientRoots(defs)
               /\ Range(defs[id].links[pair].toKind) \subseteq ClientRoots(defs)
    BY <2>8 DEF ClientRoots, ClientLinks
  <2>9. ClientRoots(defs) \subseteq DOMAIN defs
    <3>1. SUFFICES ASSUME NEW id \in OfTag(defs, "message"), NEW pair \in ClientLinks(defs[id])
                   PROVE  Range(defs[id].links[pair].fromKinds)
                            \cup Range(defs[id].links[pair].toKind) \subseteq DOMAIN defs
      BY DEF ClientRoots, OfTag
    <3>2. QED
      BY <2>1, <3>1, CompilerLinks DEF LinksRoutable, ClientLinks, OfTag
  <2>10. /\ listed \in SUBSET DOMAIN defs
         /\ ClientRoots(defs) \subseteq listed
         /\ ClosedUnder(refs, listed)
    BY <2>3, <2>5, <2>7, <2>9, ClosureIsLeast
  <2>11. PICK S : S = {id \in listed : defs[id].tag # "hub"}
    OBVIOUS
  <2>12. /\ S \in SUBSET DOMAIN defs
         /\ \A id \in S : NamedBy(defs[id]) \subseteq S
    BY <2>5, <2>6, <2>10, <2>11 DEF ClosedUnder, Referable
  <2>13. \A id \in OfTag(defs, "message") :
           (\E pair \in DOMAIN defs[id].links : "client" \in {pair[1], pair[2]}) => id \in S
    BY <2>8, <2>10, <2>11 DEF OfTag
  <2>14. KindsHeld(defs, "client") = {}
    BY DEF KindsHeld
  <2>15. Encoded(defs, "client") \subseteq listed
    <3>1. PICK roots : roots = KindsHeld(defs, "client") \cup KeysSent(defs, "client")
                               \cup {id \in OfTag(defs, "message") : Sends(defs[id], "client") # {}}
      OBVIOUS
    <3>2. ASSUME NEW other \in KeysSent(defs, "client") PROVE other \in S
      <4>1. PICK id \in OfTag(defs, "message") :
              \E pair \in Sends(defs[id], "client") :
                \E kind \in Range(defs[id].links[pair].toKind) : other \in Refs(defs[kind].key)
        BY <3>2 DEF KeysSent
      <4>2. PICK pair \in Sends(defs[id], "client") :
              \E kind \in Range(defs[id].links[pair].toKind) : other \in Refs(defs[kind].key)
        BY <4>1
      <4>3. PICK kind \in Range(defs[id].links[pair].toKind) : other \in Refs(defs[kind].key)
        BY <4>2
      <4>4. pair \in DOMAIN defs[id].links /\ pair[1] = "client"
        BY <4>3 DEF Sends
      <4>5. kind \in listed /\ kind \in DOMAIN defs
        BY <2>8, <2>10, <4>3, <4>4
      <4>6. kind \in OfTag(defs, "hub")
        BY <2>1, <4>3, <4>4, CompilerLinks DEF LinksRoutable
      <4>7. refs[kind] = Refs(defs[kind].key)
        BY <2>6, <4>5, <4>6 DEF OfTag
      <4>8. other \in listed /\ other \in Referable
        BY <2>5, <2>6, <2>10, <4>3, <4>5, <4>7 DEF ClosedUnder
      <4>9. QED
        BY <2>11, <4>8 DEF Referable
    <3>3. roots \subseteq S
      BY <2>13, <2>14, <3>1, <3>2 DEF Sends
    <3>4. Encoded(defs, "client") = Mark(defs, roots)
      BY <3>1 DEF Encoded
    <3>5. roots \in SUBSET DOMAIN defs
      BY <2>12, <3>3
    <3>6. Mark(defs, roots) \subseteq S
      BY <2>1, <2>12, <3>3, <3>5, MarkedIsClosed
    <3>7. QED
      BY <2>11, <3>4, <3>6
  <2>16. Decoded(defs, "client") \subseteq listed
    <3>1. PICK roots : roots = KindsHeld(defs, "client")
                               \cup {id \in OfTag(defs, "message") : Receives(defs[id], "client") # {}}
      OBVIOUS
    <3>2. roots \subseteq S
      BY <2>13, <2>14, <3>1 DEF Receives
    <3>3. Decoded(defs, "client") = Mark(defs, roots)
      BY <3>1 DEF Decoded
    <3>4. roots \in SUBSET DOMAIN defs
      BY <2>12, <3>2
    <3>5. Mark(defs, roots) \subseteq S
      BY <2>1, <2>12, <3>2, <3>4, MarkedIsClosed
    <3>6. QED
      BY <2>11, <3>3, <3>5
  <2>17. QED
    BY <2>4, <2>15, <2>16
<1>2. QED
  BY <1>1, CompilerInvariance, PTL

-----------------------------------------------------------------------------
(* Powers of two. *)
LEMMA PowersOfTwo == \A n \in Nat : PowerOfTwo[n] \in Nat \ {0}
<1> DEFINE Step(f, n) == IF n = 0 THEN 1 ELSE 2 * f[n - 1]
           upTo(m) == CHOOSE f : f = [n \in 0 .. m |-> Step(f, n)]
           power == [n \in Nat |-> upTo(n)[n]]
<1>1. ASSUME NEW m \in Nat PROVE \E f : f = [n \in 0 .. m |-> Step(f, n)]
  <2> DEFINE Found == {k \in 0 .. m : \E f : f = [n \in 0 .. k |-> Step(f, n)]}
  <2>1. 0 \in Found
    <3>1. PICK f : f = [n \in 0 .. 0 |-> 1]
      OBVIOUS
    <3>2. f = [n \in 0 .. 0 |-> Step(f, n)]
      BY <3>1
    <3>3. QED
      BY <3>2
  <2>2. ASSUME NEW k \in 1 .. m, k - 1 \in Found PROVE k \in Found
    <3>1. PICK f : f = [n \in 0 .. (k - 1) |-> Step(f, n)]
      BY <2>2
    <3>2. PICK g : g = [n \in 0 .. k |-> IF n = k THEN 2 * f[k - 1] ELSE f[n]]
      OBVIOUS
    <3>3. ASSUME NEW n \in 0 .. k PROVE g[n] = Step(g, n)
      <4>1. CASE n = 0
        BY <2>2, <3>1, <3>2, <4>1
      <4>2. CASE n = k
        <5>1. n # 0 /\ g[n - 1] = f[k - 1]
          BY <2>2, <3>2, <4>2
        <5>2. QED
          BY <3>2, <4>2, <5>1
      <4>3. CASE n \in 1 .. (k - 1)
        <5>1. g[n] = f[n] /\ g[n - 1] = f[n - 1] /\ n # 0 /\ n \in 0 .. (k - 1)
          BY <2>2, <3>2, <4>3
        <5>2. f[n] = Step(f, n)
          BY <3>1, <5>1
        <5>3. QED
          BY <5>1, <5>2
      <4>4. QED
        BY <2>2, <3>3, <4>1, <4>2, <4>3
    <3>4. g = [n \in 0 .. k |-> Step(g, n)]
      BY <3>2, <3>3
    <3>5. QED
      BY <2>2, <3>4
  <2> HIDE DEF Found
  <2>3. \A k \in 0 .. m : k \in Found
    BY <2>1, <2>2, UpTo
  <2>4. QED
    BY <2>3, SMTT(20) DEF Found
<1>2. \A m \in Nat : upTo(m) = [n \in 0 .. m |-> Step(upTo(m), n)]
  <2> HIDE DEF Step
  <2>1. QED
    BY <1>1
<1> HIDE DEF upTo
<1>3. ASSUME NEW m \in Nat, NEW k \in 0 .. m PROVE upTo(k)[k] = upTo(m)[k]
  <2> DEFINE Same == {n \in 0 .. k : upTo(k)[n] = upTo(m)[n]}
  <2>1. 0 \in Same
    BY <1>2, <1>3
  <2>2. ASSUME NEW n \in 1 .. k, n - 1 \in Same PROVE n \in Same
    <3>1. n \in 0 .. k /\ n \in 0 .. m /\ n # 0 /\ k \in Nat
      BY <1>3
    <3>2. upTo(k)[n] = 2 * upTo(k)[n - 1] /\ upTo(m)[n] = 2 * upTo(m)[n - 1]
      BY <1>2, <1>3, <3>1
    <3>3. QED
      BY <2>2, <3>1, <3>2
  <2> HIDE DEF Same
  <2>3. k \in Same
    BY <1>3, <2>1, <2>2, UpTo
  <2>4. QED
    BY <2>3 DEF Same
<1>4. power = [n \in Nat |-> Step(power, n)]
  <2>1. ASSUME NEW n \in Nat PROVE power[n] = Step(power, n)
    <3>1. CASE n = 0
      BY <1>2, <3>1
    <3>2. CASE n # 0
      <4>1. n - 1 \in Nat /\ n - 1 \in 0 .. n /\ n \in 0 .. n
        BY <3>2
      <4>2. upTo(n)[n] = 2 * upTo(n)[n - 1]
        BY <1>2, <3>2, <4>1
      <4>3. upTo(n - 1)[n - 1] = upTo(n)[n - 1]
        BY <1>3, <4>1
      <4>4. QED
        BY <3>2, <4>1, <4>2, <4>3
    <3>3. QED
      BY <3>1, <3>2
  <2>2. QED
    BY <2>1
<1> HIDE DEF power
<1>5. PowerOfTwo = [n \in Nat |-> Step(PowerOfTwo, n)]
  BY <1>4 DEF PowerOfTwo
<1>6. ASSUME NEW m \in Nat PROVE PowerOfTwo[m] \in Nat \ {0}
  <2> DEFINE Good == {n \in 0 .. m : PowerOfTwo[n] \in Nat \ {0}}
  <2>1. 0 \in Good
    BY <1>5
  <2>2. ASSUME NEW n \in 1 .. m, n - 1 \in Good PROVE n \in Good
    <3>1. PowerOfTwo[n] = 2 * PowerOfTwo[n - 1]
      BY <1>5
    <3>2. QED
      BY <2>2, <3>1
  <2> HIDE DEF Good
  <2>3. m \in Good
    BY <2>1, <2>2, UpTo
  <2>4. QED
    BY <2>3 DEF Good
<1>7. QED
  BY <1>6

(* The ranges of the integers. *)
LEMMA MaxOfNat == ASSUME NEW n \in Nat PROVE MaxOf(n) \in Nat
<1>1. n * Bits \in Nat
  BY BitsAssumption
<1>2. QED
  BY <1>1, PowersOfTwo DEF MaxOf

(* The ranges of the integer types. *)
LEMMA IntRanges ==
  ASSUME NEW k \in IntKinds
  PROVE  /\ IntBytes[k] \in {1, 2, 4, 8}
         /\ IntMin(k) \in Int /\ IntMax(k) \in Int /\ IntMin(k) <= 0 /\ 0 <= IntMax(k)
         /\ k \notin Signed => IntMin(k) = 0 /\ IntMax(k) = MaxOf(IntBytes[k])
<1>1. IntBytes[k] \in {1, 2, 4, 8}
  BY DEF IntKinds, IntBytes
<1>2. PICK n \in {1, 2, 4, 8} : n = IntBytes[k]
  BY <1>1
<1>3. n * Bits - 1 \in Nat
  BY BitsAssumption
<1>4. PowerOfTwo[n * Bits - 1] \in Nat \ {0} /\ MaxOf(n) \in Nat
  BY <1>3, PowersOfTwo, MaxOfNat
<1>5. QED
  BY <1>1, <1>2, <1>4 DEF IntMin, IntMax

-----------------------------------------------------------------------------
(* Enum values. *)

(* The variants kept: as long as there is no error, their values are        *)
(* distinct and none is above the largest one.                              *)
VariantsOK(acc, top) ==
  /\ DOMAIN acc = {"variants", "next", "errors"}
  /\ acc.errors = {} =>
       /\ IsSeq(acc.variants)
       /\ \A v \in DOMAIN acc.variants : acc.variants[v].value \in 0 .. top
       /\ \A v, w \in DOMAIN acc.variants :
            acc.variants[v].value = acc.variants[w].value => v = w
       /\ acc.next # None => acc.next[1] \in Int

(* One more variant keeps them so. *)
LEMMA VariantAdded ==
  ASSUME NEW repr, IntMax(repr) \in Nat, NEW acc, VariantsOK(acc, IntMax(repr)),
         NEW variant, variant.value # None => variant.value[1] \in Int
  PROVE  VariantsOK(LowerVariant(repr, acc, variant), IntMax(repr))
<1>1. PICK value : value = IF variant.value # None THEN variant.value ELSE acc.next
  OBVIOUS
<1>2. PICK fits : fits = (value # None /\ 0 <= value[1] /\ value[1] <= IntMax(repr))
  OBVIOUS
<1>3. PICK shared : shared = \E k \in DOMAIN acc.variants : acc.variants[k].value = value[1]
  OBVIOUS
<1>4. PICK to : to = LowerVariant(repr, acc, variant)
  OBVIOUS
<1>5. CASE variant.name \in Range(NamesOf(acc.variants))
  <2>1. to = [acc EXCEPT !.errors = acc.errors \cup {"duplicate variant"}]
    BY <1>4, <1>5 DEF LowerVariant
  <2>2. DOMAIN to = DOMAIN acc /\ to.errors # {}
    BY <2>1 DEF VariantsOK
  <2>3. QED
    BY <1>4, <2>2 DEF VariantsOK
<1>6. CASE variant.name \notin Range(NamesOf(acc.variants)) /\ ~ fits
  <2>1. to = [acc EXCEPT !.errors = acc.errors \cup {"value out of range"}]
    BY <1>1, <1>2, <1>4, <1>6 DEF LowerVariant
  <2>2. DOMAIN to = DOMAIN acc /\ to.errors # {}
    BY <2>1 DEF VariantsOK
  <2>3. QED
    BY <1>4, <2>2 DEF VariantsOK
<1>7. CASE variant.name \notin Range(NamesOf(acc.variants)) /\ fits
  <2>1. PICK kept : kept = [name |-> variant.name, value |-> value[1]]
    OBVIOUS
  <2>2. PICK next : next = IF value[1] < IntMax(repr) THEN Some(value[1] + 1) ELSE None
    OBVIOUS
  <2>3. to = [variants |-> Append(acc.variants, kept), next |-> next,
             errors |-> acc.errors \cup Error(shared, "shared value")]
    BY <1>1, <1>2, <1>3, <1>4, <1>7, <2>1, <2>2 DEF LowerVariant
  <2>4. /\ DOMAIN to = {"variants", "next", "errors"}
        /\ to.variants = Append(acc.variants, kept) /\ to.next = next
        /\ to.errors = acc.errors \cup Error(shared, "shared value")
    BY <2>3
  <2>5. SUFFICES ASSUME to.errors = {}
                 PROVE  /\ IsSeq(to.variants)
                        /\ \A v \in DOMAIN to.variants : to.variants[v].value \in 0 .. IntMax(repr)
                        /\ \A v, w \in DOMAIN to.variants :
                             to.variants[v].value = to.variants[w].value => v = w
                        /\ to.next # None => to.next[1] \in Int
    BY <1>4, <2>4 DEF VariantsOK
  <2>6. acc.errors = {} /\ ~ shared
    BY <2>4, <2>5 DEF Error
  <2>7. PICK n \in Nat : n = Len(acc.variants) /\ DOMAIN acc.variants = 1 .. n
    BY <2>6, SeqFacts DEF VariantsOK
  <2>8. IsSeq(acc.variants)
    BY <2>6 DEF VariantsOK
  <2>9. /\ IsSeq(to.variants) /\ Len(to.variants) = n + 1
        /\ \A k \in 1 .. n : to.variants[k] = acc.variants[k]
        /\ to.variants[n + 1] = kept
    <3>1. PICK before : before = acc.variants
      OBVIOUS
    <3>2. IsSeq(before) /\ n = Len(before)
      BY <2>7, <2>8, <3>1
    <3>3. /\ IsSeq(Append(before, kept)) /\ Len(Append(before, kept)) = n + 1
          /\ \A k \in 1 .. n : Append(before, kept)[k] = before[k]
          /\ Append(before, kept)[n + 1] = kept
      BY <3>2, AppendSeq
    <3>4. to.variants = Append(before, kept)
      BY <2>4, <3>1
    <3>5. QED
      BY <3>1, <3>3, <3>4
  <2>10. /\ IsSeq(to.variants) /\ DOMAIN to.variants = 1 .. (n + 1)
         /\ \A k \in 1 .. n : to.variants[k] = acc.variants[k]
         /\ to.variants[n + 1] = kept
    BY <2>9, SeqFacts
  <2>11. value[1] \in Int
    BY <1>1, <1>2, <1>7, <2>6 DEF VariantsOK
  <2>12. 0 <= value[1] /\ value[1] <= IntMax(repr)
    BY <1>2, <1>7
  <2>13. PICK top \in Nat : top = IntMax(repr)
    OBVIOUS
  <2>14. kept.value = value[1] /\ value[1] \in 0 .. IntMax(repr)
    BY <2>1, <2>11, <2>12, <2>13
  <2>15. \A k \in 1 .. n : acc.variants[k].value # value[1] /\ acc.variants[k].value \in 0 .. IntMax(repr)
    BY <1>3, <2>6, <2>7 DEF VariantsOK
  <2>16. \A k \in 1 .. (n + 1) : k \in 1 .. n \/ k = n + 1
    BY <2>7
  <2>17. \A v \in DOMAIN to.variants : to.variants[v].value \in 0 .. IntMax(repr)
    BY <2>10, <2>14, <2>15, <2>16
  <2>18. \A v, w \in 1 .. n : acc.variants[v].value = acc.variants[w].value => v = w
    BY <2>6, <2>7 DEF VariantsOK
  <2>19. ASSUME NEW v \in 1 .. (n + 1), NEW w \in 1 .. (n + 1),
                to.variants[v].value = to.variants[w].value
         PROVE  v = w
    BY <2>10, <2>14, <2>15, <2>16, <2>18, <2>19
  <2>20. to.next # None => to.next[1] \in Int
    <3>1. value[1] + 1 \in Int /\ Some(value[1] + 1)[1] = value[1] + 1
      BY <2>11 DEF Some
    <3>2. next = None \/ next = Some(value[1] + 1)
      BY <2>2
    <3>3. QED
      BY <2>4, <3>1, <3>2
  <2>21. QED
    BY <2>10, <2>17, <2>19, <2>20
<1>8. QED
  BY <1>5, <1>6, <1>7

(* Of an enum without errors. *)
LEMMA EnumFits ==
  ASSUME NEW item, LowerEnum(item).errors = {}, IsSeq(item.variants),
         \A variant \in Range(item.variants) : variant.value # None => variant.value[1] \in Int
  PROVE  LET values == [v \in DOMAIN LowerEnum(item).variants |-> LowerEnum(item).variants[v].value]
         IN IsInjective(values) /\ Range(values) \subseteq 0 .. MaxOf(IntBytes[EnumRepr(item)])
<1> DEFINE n == Len(item.variants)
           repr == EnumRepr(item)
           first == [variants |-> <<>>, next |-> Some(0), errors |-> {}]
           Step(f, j) == IF j = 0 THEN first ELSE LowerVariant(repr, f[j - 1], item.variants[j])
           folded == CHOOSE f : f = [j \in 0 .. n |-> Step(f, j)]
           Found == {m \in 0 .. n : \E f : f = [j \in 0 .. m |-> Step(f, j)]}
           Good == {j \in 0 .. n : VariantsOK(folded[j], IntMax(repr))}
<1>1. LowerEnum(item) =
        [folded[n] EXCEPT
           !.errors = folded[n].errors \cup Error(item.repr \notin EnumReprs, "not an enum repr")
                        \cup Error(item.variants = <<>>, "no variant")]
  BY DEF LowerEnum
<1>2. n \in Nat /\ \A k \in 1 .. n : item.variants[k] \in Range(item.variants)
  BY SeqFacts DEF Range
<1>3. IntMax(repr) = MaxOf(IntBytes[repr]) /\ IntMax(repr) \in Nat
  <2>1. repr \in IntKinds /\ repr \notin Signed
    BY DEF EnumRepr, EnumReprs, IntKinds, IntBytes, Signed
  <2> HIDE DEF repr
  <2>2. QED
    BY <2>1, IntRanges
<1>4. VariantsOK(first, IntMax(repr))
  <2>1. first.next[1] = 0 /\ first.variants = <<>>
    BY DEF Some
  <2>2. IsSeq(<<>>) /\ DOMAIN <<>> = {}
    BY EmptySeq DEF IsSeq
  <2>3. QED
    BY <2>1, <2>2 DEF VariantsOK
<1> HIDE DEF n, repr, first
<1>5. \A m \in 0 .. n : m \in Found
  <2>1. 0 \in Found
    <3>1. PICK f : f = [j \in 0 .. 0 |-> first]
      OBVIOUS
    <3>2. f = [j \in 0 .. 0 |-> Step(f, j)]
      BY <3>1
    <3>3. QED
      BY <1>2, <3>2
  <2>2. ASSUME NEW m \in 1 .. n, m - 1 \in Found PROVE m \in Found
    <3>1. PICK f : f = [j \in 0 .. (m - 1) |-> Step(f, j)]
      BY <2>2
    <3>2. PICK g : g = [j \in 0 .. m |-> IF j = m THEN LowerVariant(repr, f[m - 1], item.variants[m]) ELSE f[j]]
      OBVIOUS
    <3>3. ASSUME NEW j \in 0 .. m PROVE g[j] = Step(g, j)
      <4>1. CASE j = 0
        BY <2>2, <3>1, <3>2, <4>1
      <4>2. CASE j = m
        <5>1. j # 0 /\ g[j - 1] = f[m - 1]
          BY <2>2, <3>2, <4>2
        <5>2. QED
          BY <3>2, <4>2, <5>1
      <4>3. CASE j \in 1 .. (m - 1)
        <5>1. g[j] = f[j] /\ g[j - 1] = f[j - 1] /\ j # 0 /\ j \in 0 .. (m - 1)
          BY <2>2, <3>2, <4>3
        <5>2. f[j] = Step(f, j)
          BY <3>1, <5>1
        <5>3. QED
          BY <5>1, <5>2
      <4>4. QED
        BY <2>2, <3>3, <4>1, <4>2, <4>3
    <3>4. g = [j \in 0 .. m |-> Step(g, j)]
      BY <3>2, <3>3
    <3>5. QED
      BY <2>2, <3>4
  <2> HIDE DEF Found
  <2>3. QED
    BY <1>2, <2>1, <2>2, UpTo
<1>6. folded = [j \in 0 .. n |-> Step(folded, j)]
  <2> HIDE DEF Step
  <2>1. \E f : f = [j \in 0 .. n |-> Step(f, j)]
    BY <1>2, <1>5
  <2>2. QED
    BY <2>1
<1> HIDE DEF folded, Found
<1>7. \A j \in 0 .. n : j \in Good
  <2>1. 0 \in Good
    BY <1>2, <1>4, <1>6
  <2>2. ASSUME NEW j \in 1 .. n, j - 1 \in Good PROVE j \in Good
    <3>1. folded[j] = LowerVariant(repr, folded[j - 1], item.variants[j])
      BY <1>6, <2>2
    <3>2. VariantsOK(folded[j - 1], IntMax(repr))
      BY <2>2
    <3>3. VariantsOK(folded[j], IntMax(repr))
      BY <1>2, <1>3, <2>2, <3>1, <3>2, VariantAdded
    <3>4. QED
      BY <2>2, <3>3
  <2> HIDE DEF Good
  <2>3. QED
    BY <1>2, <2>1, <2>2, UpTo
<1>8. VariantsOK(folded[n], IntMax(repr))
  BY <1>2, <1>7
<1>9. PICK vs : vs = LowerEnum(item).variants
  OBVIOUS
<1>10. folded[n].errors = {} /\ vs = folded[n].variants
  BY <1>1, <1>8, <1>9 DEF VariantsOK
<1>11. /\ \A v \in DOMAIN vs : vs[v].value \in 0 .. IntMax(repr)
       /\ \A v, w \in DOMAIN vs : vs[v].value = vs[w].value => v = w
  BY <1>8, <1>10 DEF VariantsOK
<1>12. PICK values : values = [v \in DOMAIN vs |-> vs[v].value]
  OBVIOUS
<1>13. IsInjective(values) /\ Range(values) \subseteq 0 .. IntMax(repr)
  BY <1>11, <1>12 DEF IsInjective, Range
<1>14. QED
  BY <1>3, <1>9, <1>12, <1>13 DEF repr

-----------------------------------------------------------------------------
(* Bounds. *)

(* The constraints are written with numbers. *)
AreNumbers(cons) ==
  \A j \in DOMAIN cons : cons[j].value # None => cons[j].value[1].value \in Int

(* What a bound is lowered to: nothing, or an integer of the type. *)
IsBound(k, bound) ==
  \/ bound = None
  \/ \E x \in Int : bound = Some(x) /\ (k \in IntKinds => IntMin(k) <= x /\ x <= IntMax(k))

(* A bound that is kept passed its check. *)
LEMMA BoundLowered ==
  ASSUME NEW k, NEW cons, AreNumbers(cons), NEW name \in {"min", "max"}
  PROVE  IsBound(k, Value(k, cons, name))
<1> DEFINE found == {j \in Written(cons, name) :
                       /\ name \in Allowed[Class(k)]
                       /\ cons[j].value # None
                       /\ ValueErrors(k, name, cons[j].value[1]) = {}}
<1>1. Value(k, cons, name) = IF found = {} THEN None
                             ELSE Some(cons[CHOOSE j \in found : TRUE].value[1].value)
  BY DEF Value
<1>2. CASE found = {}
  BY <1>1, <1>2 DEF IsBound
<1>3. CASE found # {}
  <2>1. PICK j : j = CHOOSE i \in found : TRUE
    OBVIOUS
  <2>2. j \in found
    BY <1>3, <2>1
  <2>3. PICK number : number = cons[j].value[1]
    OBVIOUS
  <2>4. number.value \in Int /\ ValueErrors(k, name, number) = {}
    BY <2>2, <2>3 DEF AreNumbers, Written
  <2>5. k \in IntKinds => InRange(k, number.value)
    BY <2>4 DEF ValueErrors, Error
  <2>6. Value(k, cons, name) = Some(number.value)
    BY <1>1, <1>3, <2>1, <2>3
  <2>7. QED
    BY <2>4, <2>5, <2>6 DEF IsBound, InRange
<1>4. QED
  BY <1>2, <1>3

(* Bounds without errors are in order. *)
LEMMA BoundsLowered ==
  ASSUME NEW k, NEW cons, AreNumbers(cons), ConstraintErrors(k, cons) = {},
         NEW low, low = LowerConstraints(k, cons)
  PROVE  /\ IsBound(k, low.min) /\ IsBound(k, low.max)
         /\ low.min # None /\ low.max # None => low.min[1] <= low.max[1]
<1>1. low.min = Value(k, cons, "min") /\ low.max = Value(k, cons, "max")
  BY DEF LowerConstraints
<1>2. IsBound(k, low.min) /\ IsBound(k, low.max)
  BY <1>1, BoundLowered
<1>3. ~ Inverted(low.min, low.max)
  BY DEF ConstraintErrors, Error
<1>4. ASSUME low.min # None, low.max # None PROVE low.min[1] <= low.max[1]
  <2>1. PICK x \in Int : low.min = Some(x)
    BY <1>2, <1>4 DEF IsBound
  <2>2. PICK y \in Int : low.max = Some(y)
    BY <1>2, <1>4 DEF IsBound
  <2>3. ~ x > y
    BY <1>3, <2>1, <2>2 DEF Inverted, None, Some
  <2>4. QED
    BY <2>1, <2>2, <2>3 DEF Some
<1>5. QED
  BY <1>2, <1>4

(* How an integer of a bounded type is sent. *)
FitsInt(node) ==
  LET int == IntOf(node)
  IN \A value \in Range(node.cons.min \o node.cons.max) :
       value - int.min \in
         IF int.biased \/ node.k \notin Signed THEN 0 .. MaxOf(int.width)
         ELSE IntMin(node.k) .. IntMax(node.k)

(* A width below that of the largest integer is enough for the number. *)
LEMMA WidthFits ==
  ASSUME NEW x \in Nat, WidthOf(x) < 8
  PROVE  WidthOf(x) \in {1, 2, 4} /\ x <= MaxOf(WidthOf(x))
<1>1. MaxOf(1) \in Nat /\ MaxOf(2) \in Nat /\ MaxOf(4) \in Nat
  BY MaxOfNat
<1>2. QED
  BY <1>1 DEF WidthOf

(* What is between the bounds fits where it is written. *)
LEMMA BoundsFit ==
  ASSUME NEW node, NEW k \in IntKinds, node.k = k,
         IsBound(k, node.cons.min), IsBound(k, node.cons.max),
         node.cons.min # None /\ node.cons.max # None => node.cons.min[1] <= node.cons.max[1]
  PROVE  FitsInt(node)
<1>1. PICK low \in Int, high \in Int : low = IntMin(k) /\ high = IntMax(k)
  BY IntRanges
<1>2. PICK least \in Int : least = IF node.cons.min = None THEN low ELSE node.cons.min[1]
  BY <1>1 DEF IsBound, Some, None
<1>3. PICK most \in Int : most = IF node.cons.max = None THEN high ELSE node.cons.max[1]
  BY <1>1 DEF IsBound, Some, None
<1>4. low <= least /\ least <= most /\ most <= high
  <2>1. low <= high
    BY <1>1, IntRanges
  <2>2. low <= least /\ least <= high
    BY <1>1, <1>2, <2>1 DEF IsBound, Some, None
  <2>3. low <= most /\ most <= high
    BY <1>1, <1>3, <2>1 DEF IsBound, Some, None
  <2>4. QED
    BY <1>2, <1>3, <2>2, <2>3
<1>5. most - least \in Nat
  BY <1>4
<1>6. SUFFICES ASSUME NEW value \in Range(node.cons.min \o node.cons.max), NEW int, int = IntOf(node)
               PROVE  value - int.min \in
                        IF int.biased \/ k \notin Signed THEN 0 .. MaxOf(int.width)
                        ELSE low .. high
  BY <1>1 DEF FitsInt
<1>7. value \in Int /\ least <= value /\ value <= most
  <2>1. node.cons.min = <<>> \/ node.cons.min = <<least>>
    BY <1>2 DEF IsBound, Some, None
  <2>2. node.cons.max = <<>> \/ node.cons.max = <<most>>
    BY <1>3 DEF IsBound, Some, None
  <2>3. PICK a : a = node.cons.min
    OBVIOUS
  <2>4. PICK b : b = node.cons.max
    OBVIOUS
  <2>5. PICK place \in DOMAIN (a \o b) : value = (a \o b)[place]
    BY <1>6, <2>3, <2>4 DEF Range
  <2>6. value = least \/ value = most
    <3>1. CASE a = <<>>
      <4>1. b = <<>> \/ b = <<most>>
        BY <2>2, <2>4
      <4>2. QED
        BY <2>5, <3>1, <4>1
    <3>2. CASE a = <<least>>
      <4>1. CASE b = <<>>
        BY <2>5, <3>2, <4>1
      <4>2. CASE b = <<most>>
        BY <2>5, <3>2, <4>2
      <4>3. QED
        BY <2>2, <2>4, <4>1, <4>2
    <3>3. QED
      BY <2>1, <2>3, <3>1, <3>2
  <2>7. QED
    BY <1>4, <2>6
<1>8. IntBytes[k] \in {1, 2, 4, 8}
  BY IntRanges
<1>9. CASE WidthOf(most - least) < IntBytes[k]
  <2>1. int = [biased |-> TRUE, min |-> least, width |-> WidthOf(most - least)]
    BY <1>1, <1>2, <1>3, <1>6, <1>9 DEF IntOf
  <2>2. WidthOf(most - least) < 8
    BY <1>8, <1>9 DEF WidthOf
  <2>3. PICK width \in {1, 2, 4} : width = WidthOf(most - least) /\ most - least <= MaxOf(width)
    BY <1>5, <2>2, WidthFits
  <2>4. MaxOf(width) \in Nat
    BY <2>3, MaxOfNat
  <2>5. value - least \in 0 .. MaxOf(width)
    BY <1>5, <1>7, <2>3, <2>4
  <2>6. QED
    BY <2>1, <2>3, <2>5
<1>10. CASE ~ WidthOf(most - least) < IntBytes[k]
  <2>1. int = [biased |-> FALSE, min |-> 0, width |-> IntBytes[k]]
    BY <1>1, <1>2, <1>3, <1>6, <1>10 DEF IntOf
  <2>2. value - 0 \in low .. high
    BY <1>1, <1>4, <1>7
  <2>3. k \notin Signed => low = 0 /\ high = MaxOf(IntBytes[k])
    BY <1>1, IntRanges
  <2>4. QED
    BY <2>1, <2>2, <2>3
<1>11. QED
  BY <1>9, <1>10

(* A node of a type lowered without errors. *)
LEMMA NodeFits ==
  ASSUME NEW t, NEW source, NEW scope, NEW written, NEW options, NEW node,
         AreNumbers(written.cons), NodeErrors(t, source, scope, written, options) = {},
         node = LowerNode(t, source, scope, written)
  PROVE  /\ node.k \in IntKinds => FitsInt(node)
         /\ node.cons.min # None /\ node.cons.max # None => node.cons.min[1] <= node.cons.max[1]
<1>1. ConstraintErrors(written.k, written.cons) = {}
  BY DEF NodeErrors
<1>2. CASE written.k = "named"
  <2>1. node.k \in {"bool", "named"} /\ node.cons = NoCons
    BY <1>2 DEF LowerNode
  <2>2. node.k \notin IntKinds
    BY <2>1 DEF IntKinds, IntBytes
  <2>3. node.cons.min = None
    BY <2>1 DEF NoCons
  <2>4. QED
    BY <2>2, <2>3
<1>3. CASE written.k # "named"
  <2>1. node.k = written.k /\ node.cons = LowerConstraints(written.k, written.cons)
    BY <1>3 DEF LowerNode
  <2>2. /\ IsBound(node.k, node.cons.min) /\ IsBound(node.k, node.cons.max)
        /\ node.cons.min # None /\ node.cons.max # None => node.cons.min[1] <= node.cons.max[1]
    BY <1>1, <2>1, BoundsLowered
  <2>3. QED
    BY <2>2, BoundsFit
<1>4. QED
  BY <1>2, <1>3

(* The numbers of an accepted schema fit, whatever the sources. *)
LEMMA CompilerValues == CompilerInv => ValuesFit
<1>1. SUFFICES ASSUME CompilerInv, Accepted
               PROVE  /\ \A id \in OfTag(defs, "enum") :
                           LET values == [v \in DOMAIN defs[id].variants |->
                                            defs[id].variants[v].value]
                           IN /\ IsInjective(values)
                              /\ Range(values) \subseteq 0 .. MaxOf(IntBytes[defs[id].repr])
                      /\ \A node \in UNION {Range(ty) : ty \in AllTypes} :
                           /\ node.k \in IntKinds => FitsInt(node)
                           /\ node.cons.min # None /\ node.cons.max # None =>
                                node.cons.min[1] <= node.cons.max[1]
  BY DEF ValuesFit, FitsInt
<1>2. phase = "done" /\ errors = {} /\ phase \notin {"names", "lower"}
  BY <1>1 DEF Accepted
<1>3. defs = DefsOf(table) /\ CleanDefs /\ DOMAIN defs = DOMAIN table.types
  BY <1>1, <1>2, DefsAreSorted DEF CompilerInv
<1>4. ASSUME NEW id \in DOMAIN defs
      PROVE  \E source \in Range(sources) :
               \E j \in DOMAIN source.items : source.items[j] = table.types[id].item
  <2>1. table.types[id].item \in ItemsOf(sources)
    BY <1>1, <1>2, <1>3, <1>4, TableKnown DEF TableOK, SiteOK
  <2>2. QED
    BY <2>1 DEF ItemsOf, Range
<1>5. Parsed(sources)
  BY <1>1, <1>2, TableKnown
<1>6. ASSUME NEW id \in OfTag(defs, "enum")
      PROVE  LET values == [v \in DOMAIN defs[id].variants |-> defs[id].variants[v].value]
             IN IsInjective(values) /\ Range(values) \subseteq 0 .. MaxOf(IntBytes[defs[id].repr])
  <2>1. PICK item : item = table.types[id].item
    OBVIOUS
  <2>2. id \in DOMAIN defs /\ item.tag = "enum"
    BY <1>3, <2>1, SortedBody DEF OfTag
  <2>3. /\ IsSeq(item.variants)
        /\ \A variant \in Range(item.variants) : variant.value # None => variant.value[1] \in Int
    BY <1>4, <1>5, <2>1, <2>2 DEF Parsed, IsSeq
  <2>4. LowerEnum(item).errors = {}
    <3>1. DefErrors(table, id, table.types[id], item) = {}
      BY <1>3, <2>1, <2>2 DEF CleanDefs
    <3>2. QED
      BY <2>2, <3>1 DEF DefErrors
  <2>5. defs[id].repr = EnumRepr(item) /\ defs[id].variants = LowerEnum(item).variants
    <3>1. PICK site, body : site = table.types[id] /\ body = LowerBody(table, id, site, item)
      OBVIOUS
    <3>2. /\ body.repr = EnumRepr(item) /\ body.variants = LowerEnum(item).variants
          /\ "repr" \in DOMAIN body /\ "variants" \in DOMAIN body
      BY <2>2, <3>1 DEF LowerBody
    <3>3. PICK def : def = LowerDef(table, id, site, item)
      OBVIOUS
    <3>4. def.tag = "enum" /\ def.repr = body.repr /\ def.variants = body.variants
      BY <2>2, <3>1, <3>2, <3>3, LoweredHead, LoweredBody
    <3>5. RawDefs(table)[id] = def
      BY <1>3, <2>1, <2>2, <3>1, <3>3 DEF RawDefs
    <3>6. defs[id] = def
      BY <1>3, <2>2, <3>4, <3>5, DefsAreSorted
    <3>7. QED
      BY <3>2, <3>4, <3>6
  <2>6. QED
    BY <2>3, <2>4, <2>5, EnumFits
<1>7. ASSUME NEW id \in DOMAIN defs, NEW ty \in TypesOf(defs[id]), NEW node \in Range(ty)
      PROVE  /\ node.k \in IntKinds => FitsInt(node)
             /\ node.cons.min # None /\ node.cons.max # None =>
                  node.cons.min[1] <= node.cons.max[1]
  <2>1. PICK item : item = table.types[id].item
    OBVIOUS
  <2>2. DefErrors(table, id, table.types[id], item) = {}
    BY <1>3, <1>7, <2>1 DEF CleanDefs
  <2>3. ty \in TypesOf(LowerDef(table, id, table.types[id], item))
    BY <1>3, <1>7, <2>1, SortedBody DEF RawDefs
  <2>4. PICK w \in TypesOf(item) : IsLoweredFrom(table, ty, w, TRUE)
    BY <2>2, <2>3, LoweredTypes DEF TypesLoweredFrom
  <2>5. PICK source, scope, options : /\ ty = LowerType(table, source, scope, w)
                                      /\ TypeErrors(table, source, scope, w, options) = {}
    BY <2>4 DEF IsLoweredFrom
  <2>6. PICK p \in DOMAIN w : node = LowerNode(table, source, scope, w[p])
    BY <1>7, <2>5 DEF Range, LowerType
  <2>7. PICK written, allowed : /\ written = w[p]
                                /\ allowed = IF p = <<>> THEN options ELSE 0
    OBVIOUS
  <2>8. NodeErrors(table, source, scope, written, allowed) = {}
    BY <2>5, <2>6, <2>7 DEF TypeErrors
  <2>9. AreNumbers(written.cons)
    <3>1. written \in Range(w)
      BY <2>6, <2>7 DEF Range
    <3>2. \A con \in Range(written.cons) : con.value # None => con.value[1].value \in Int
      BY <1>4, <1>5, <1>7, <2>1, <2>4, <3>1 DEF Parsed
    <3>3. QED
      BY <3>2 DEF AreNumbers, Range
  <2>10. QED
    BY <2>6, <2>7, <2>8, <2>9, NodeFits
<1>8. QED
  BY <1>6, <1>7 DEF AllTypes

(* The numbers of an accepted schema fit, whatever the sources. *)
THEOREM ValuesAlwaysFit == Spec => []ValuesFit
BY CompilerValues, CompilerInvariance, PTL

---------------------------------------------------------------------------------

(* Induction along references that have no ring: what holds of no           *)
(* declarations, and still does with one more when that refers to them      *)
(* alone, holds of all.                                                     *)
LEMMA AlongReferences ==
  ASSUME NEW refs, IsGraph(refs), IsFiniteSet(DOMAIN refs), ~ HasRing(refs),
         NEW G, {} \in G,
         \A S \in SUBSET DOMAIN refs : \A id \in DOMAIN refs \ S :
           S \in G /\ refs[id] \subseteq S => S \cup {id} \in G
  PROVE  DOMAIN refs \in G
<1> DEFINE Left == {n \in Nat : \E S \in SUBSET DOMAIN refs :
                      S \in G /\ n = Cardinality(DOMAIN refs \ S)}
<1>1. Left # {}
  <2>1. Cardinality(DOMAIN refs) \in Nat
    BY FS_CardinalityType
  <2>2. DOMAIN refs \ {} = DOMAIN refs
    OBVIOUS
  <2>3. \E S \in SUBSET DOMAIN refs : S \in G /\ Cardinality(DOMAIN refs) = Cardinality(DOMAIN refs \ S)
    BY <2>2
  <2>4. QED
    BY <2>1, <2>3
<1>2. PICK n \in Left : \A m \in Left : n <= m
  BY <1>1, LeastNumber
<1>3. PICK S \in SUBSET DOMAIN refs : S \in G /\ n = Cardinality(DOMAIN refs \ S)
  BY <1>2
<1>4. PICK others : others = DOMAIN refs \ S
  OBVIOUS
<1>5. CASE others = {}
  <2>1. S = DOMAIN refs
    BY <1>4, <1>5
  <2>2. QED
    BY <1>3, <2>1
<1>6. CASE others # {}
  <2>1. others \in SUBSET DOMAIN refs
    BY <1>4
  <2>2. PICK id \in others : refs[id] \cap others = {}
    BY <1>6, <2>1 DEF HasRing, Ring
  <2>3. refs[id] \subseteq S
    BY <1>4, <2>1, <2>2 DEF IsGraph
  <2>4. PICK more : more = S \cup {id}
    OBVIOUS
  <2>5. more \in G /\ more \in SUBSET DOMAIN refs
    BY <1>3, <1>4, <2>1, <2>3, <2>4
  <2>6. DOMAIN refs \ more = others \ {id}
    BY <1>4, <2>4
  <2>7. IsFiniteSet(others)
    BY <2>1, FS_Subset
  <2>8. Cardinality(others \ {id}) = Cardinality(others) - 1 /\ Cardinality(others) \in Nat
        /\ IsFiniteSet(others \ {id})
    BY <2>2, <2>7, FS_RemoveElement, FS_CardinalityType
  <2>9. Cardinality(others \ {id}) \in Nat
    BY <2>8, FS_CardinalityType
  <2>10. Cardinality(others \ {id}) \in Left
    BY <2>5, <2>6, <2>9
  <2>11. n <= Cardinality(others \ {id})
    BY <1>2, <2>10
  <2>12. QED
    BY <1>3, <1>4, <2>8, <2>11
<1>7. QED
  BY <1>5, <1>6

-----------------------------------------------------------------------------
(* The parts directly below each part of a type. *)
DirectParts(ty) == [p \in DOMAIN ty |-> {p \o <<i>> : i \in {1, 2}} \cap DOMAIN ty]

(* Going down a type ends. *)
LEMMA TreeEnds ==
  ASSUME NEW ty, IsTree(ty)
  PROVE  IsGraph(DirectParts(ty)) /\ IsFiniteSet(DOMAIN DirectParts(ty)) /\ ~ HasRing(DirectParts(ty))
<1>1. DOMAIN DirectParts(ty) = DOMAIN ty /\ IsGraph(DirectParts(ty)) /\ IsFiniteSet(DOMAIN ty)
  BY DEF DirectParts, IsGraph, IsTree
<1>2. SUFFICES ASSUME NEW ids \in SUBSET DOMAIN ty, Ring(DirectParts(ty), ids) PROVE FALSE
  BY <1>1 DEF HasRing
<1> DEFINE Longer(p) == {q \in DOMAIN ty : Len(q) > Len(p)}
           Counts == {Cardinality(Longer(p)) : p \in ids}
<1>3. \A p \in DOMAIN ty : IsFiniteSet(Longer(p)) /\ Cardinality(Longer(p)) \in Nat
  <2>1. \A p \in DOMAIN ty : Longer(p) \subseteq DOMAIN ty
    OBVIOUS
  <2>2. QED
    BY <1>1, <2>1, FS_Subset, FS_CardinalityType
<1>4. Counts \in SUBSET Nat /\ Counts # {}
  BY <1>2, <1>3 DEF Ring
<1>5. PICK n \in Counts : \A m \in Counts : n <= m
  BY <1>4, LeastNumber
<1>6. PICK p \in ids : n = Cardinality(Longer(p))
  BY <1>5
<1>7. PICK q \in ids : q \in DirectParts(ty)[p]
  BY <1>2, <1>6 DEF Ring
<1>8. PICK i \in {1, 2} : q = p \o <<i>> /\ q \in DOMAIN ty /\ p \in DOMAIN ty
  BY <1>7 DEF DirectParts
<1>9. Len(q) = Len(p) + 1 /\ Len(p) \in Nat
  <2>1. p \in Seq({1, 2})
    BY <1>8 DEF IsTree
  <2>2. QED
    BY <1>8, <2>1
<1>10. \A r \in DOMAIN ty : Len(r) \in Nat
  BY LenProperties DEF IsTree
<1>11. Longer(q) \subseteq Longer(p) /\ q \in Longer(p) /\ q \notin Longer(q)
  BY <1>8, <1>9, <1>10
<1>12. Cardinality(Longer(q)) < Cardinality(Longer(p))
  <2>1. PICK U, V : U = Longer(q) /\ V = Longer(p)
    OBVIOUS
  <2>2. U \subseteq V /\ U # V /\ IsFiniteSet(V)
    BY <1>3, <1>8, <1>11, <2>1
  <2>3. Cardinality(U) < Cardinality(V)
    BY <2>2, FS_Subset, FS_CardinalityType
  <2>4. QED
    BY <2>1, <2>3
<1>13. PICK m : m = Cardinality(Longer(q))
  OBVIOUS
<1>14. m \in Counts /\ m < n /\ m \in Nat /\ n \in Nat
  BY <1>3, <1>6, <1>7, <1>8, <1>12, <1>13
<1>15. n <= m
  BY <1>5, <1>14
<1>16. QED
  BY <1>14, <1>15

(* The kinds of what is made of others. *)
LEMMA TreeArms ==
  ASSUME NEW ty, IsTree(ty), NEW p \in DOMAIN ty
  PROVE  /\ p \in Seq({1, 2})
         /\ ty[p].k \in {"array", "vec", "set", "map"} <=> p \o <<1>> \in DOMAIN ty
         /\ ty[p].k = "map" <=> p \o <<2>> \in DOMAIN ty
         /\ \A i \in {1, 2} : p \o <<i>> \in DOMAIN ty => p \o <<i>> \in DirectParts(ty)[p]
BY DEF IsTree, Arity, DirectParts

-----------------------------------------------------------------------------
(* The recursion of PartSizes. *)
AreSizes(found, ty, size) == size = [p \in DOMAIN ty |-> PartSize(found, ty, size, p)]

(* The size of a part depends on those of its own parts and on the          *)
(* declaration it names.                                                    *)
LEMMA PartSizeLocal ==
  ASSUME NEW ty, IsTree(ty), NEW f, NEW g, NEW a, NEW b, NEW p \in DOMAIN ty,
         \A q \in DirectParts(ty)[p] : f[q] = g[q],
         \A id \in Refs(ty) : a[id] = b[id]
  PROVE  PartSize(a, ty, f, p) = PartSize(b, ty, g, p)
<1>1. PICK node : node = ty[p]
  OBVIOUS
<1>2. node.k \in {"array", "vec", "set", "map"} => f[p \o <<1>>] = g[p \o <<1>>]
  BY <1>1, TreeArms
<1>3. node.k = "map" => f[p \o <<2>>] = g[p \o <<2>>]
  BY <1>1, TreeArms
<1>4. node.k = "named" => a[node.id] = b[node.id]
  BY <1>1 DEF Refs, Range
<1>5. node.k \in Kinds
  BY <1>1 DEF IsTree
<1>6. QED
  BY <1>1, <1>2, <1>3, <1>4, <1>5 DEF PartSize, Kinds

(* It has a solution. *)
LEMMA SizesExist ==
  ASSUME NEW ty, IsTree(ty), NEW found
  PROVE  AreSizes(found, ty, PartSizes(found, ty))
<1> DEFINE Solves(f, S) == \A p \in S : DirectParts(ty)[p] \subseteq S /\ f[p] = PartSize(found, ty, f, p)
           G == {S \in SUBSET DOMAIN ty : \E f : f = [p \in DOMAIN ty |-> f[p]] /\ Solves(f, S)}
<1>1. {} \in G
  <2>1. PICK f : f = [p \in DOMAIN ty |-> 0]
    OBVIOUS
  <2>2. f = [p \in DOMAIN ty |-> f[p]]
    BY <2>1
  <2>3. QED
    BY <2>2
<1>2. ASSUME NEW S \in SUBSET DOMAIN ty, NEW p \in DOMAIN ty \ S, S \in G, DirectParts(ty)[p] \subseteq S
      PROVE  S \cup {p} \in G
  <2>1. PICK f : f = [q \in DOMAIN ty |-> f[q]] /\ Solves(f, S)
    BY <1>2
  <2>2. PICK g : g = [q \in DOMAIN ty |-> IF q = p THEN PartSize(found, ty, f, p) ELSE f[q]]
    OBVIOUS
  <2>3. g = [q \in DOMAIN ty |-> g[q]] /\ \A q \in S : g[q] = f[q]
    BY <1>2, <2>2
  <2>4. g[p] = PartSize(found, ty, f, p)
    BY <2>2
  <2>5. \A q \in S \cup {p} : \A r \in DirectParts(ty)[q] : f[r] = g[r]
    BY <1>2, <2>1, <2>3
  <2>6. \A q \in S \cup {p} : PartSize(found, ty, f, q) = PartSize(found, ty, g, q)
    BY <1>2, <2>5, PartSizeLocal
  <2>7. Solves(g, S \cup {p})
    BY <1>2, <2>1, <2>3, <2>4, <2>6
  <2>8. QED
    BY <1>2, <2>3, <2>7
<1> HIDE DEF G
<1>3. DOMAIN DirectParts(ty) = DOMAIN ty
  BY DEF DirectParts
<1>4. DOMAIN ty \in G
  BY <1>1, <1>2, <1>3, TreeEnds, AlongReferences
<1>5. PICK f : f = [p \in DOMAIN ty |-> f[p]] /\ Solves(f, DOMAIN ty)
  BY <1>4 DEF G
<1>6. f = [p \in DOMAIN ty |-> PartSize(found, ty, f, p)]
  BY <1>5
<1>7. QED
  BY <1>6 DEF PartSizes, AreSizes

(* It has one, which depends on the sizes of what the type names. *)
LEMMA SizesUnique ==
  ASSUME NEW ty, IsTree(ty), NEW a, NEW b, NEW f, NEW g,
         AreSizes(a, ty, f), AreSizes(b, ty, g), \A id \in Refs(ty) : a[id] = b[id]
  PROVE  f = g
<1> DEFINE G == {S \in SUBSET DOMAIN ty : \A p \in S : f[p] = g[p]}
<1>1. {} \in G
  OBVIOUS
<1>2. ASSUME NEW S \in SUBSET DOMAIN ty, NEW p \in DOMAIN ty \ S, S \in G, DirectParts(ty)[p] \subseteq S
      PROVE  S \cup {p} \in G
  <2>1. \A q \in DirectParts(ty)[p] : f[q] = g[q]
    BY <1>2
  <2>2. PartSize(a, ty, f, p) = PartSize(b, ty, g, p)
    BY <1>2, <2>1, PartSizeLocal
  <2>3. f[p] = PartSize(a, ty, f, p) /\ g[p] = PartSize(b, ty, g, p)
    BY DEF AreSizes
  <2>4. QED
    BY <1>2, <2>2, <2>3
<1> HIDE DEF G
<1>3. DOMAIN DirectParts(ty) = DOMAIN ty
  BY DEF DirectParts
<1>4. DOMAIN ty \in G
  BY <1>1, <1>2, <1>3, TreeEnds, AlongReferences
<1>5. \A p \in DOMAIN ty : f[p] = g[p]
  BY <1>4 DEF G
<1>6. f = [p \in DOMAIN ty |-> f[p]] /\ g = [p \in DOMAIN ty |-> g[p]]
  BY DEF AreSizes
<1>7. QED
  BY <1>5, <1>6

(* The size of a type. *)
LEMMA TypeSizeLocal ==
  ASSUME NEW ty, IsTree(ty), NEW a, NEW b, \A id \in Refs(ty) : a[id] = b[id]
  PROVE  TypeSize(a, ty) = TypeSize(b, ty)
BY SizesExist, SizesUnique DEF TypeSize

(* Types that are trees of parts.                                           *)
AreTrees(types) == \A ty \in types : IsTree(ty)

(* The layout of fields looks at the sizes of what they refer to alone.     *)
LEMMA LayoutLocal ==
  ASSUME NEW schema, NEW fields, AreTrees(FieldTypes(fields)), NEW a, NEW b,
         \A ty \in FieldTypes(fields) : \A id \in Refs(ty) : a[id] = b[id]
  PROVE  LayoutOf(schema, a, fields) = LayoutOf(schema, b, fields)
<1>1. ASSUME NEW k \in DOMAIN fields
      PROVE  TypeSize(a, fields[k].ty) = TypeSize(b, fields[k].ty)
  <2>1. PICK ty : ty = fields[k].ty
    OBVIOUS
  <2>2. ty \in FieldTypes(fields)
    BY <2>1 DEF FieldTypes
  <2>3. QED
    BY <2>1, <2>2, TypeSizeLocal DEF AreTrees
<1>2. FieldSizes(a, fields) = FieldSizes(b, fields)
  BY <1>1 DEF FieldSizes
<1>3. QED
  BY <1>2 DEF LayoutOf

(* What a variant carries is among the types of its union.                  *)
LEMMA VariantTypes ==
  ASSUME NEW def, def.tag = "union", NEW v \in DOMAIN def.variants
  PROVE  /\ def.variants[v].data.form = "type" => def.variants[v].data.ty \in BodyTypes(def)
         /\ def.variants[v].data.form = "fields" =>
              FieldTypes(def.variants[v].data.fields) \subseteq BodyTypes(def)
<1> DEFINE TypesIn(w) == CASE def.variants[w].data.form = "type" -> {def.variants[w].data.ty}
                           [] def.variants[w].data.form = "fields" -> FieldTypes(def.variants[w].data.fields)
                           [] OTHER -> {}
<1>1. BodyTypes(def) = UNION {TypesIn(w) : w \in DOMAIN def.variants}
  BY DEF BodyTypes
<1>2. TypesIn(v) \subseteq BodyTypes(def)
  BY <1>1
<1>3. QED
  BY <1>2

(* The size of a declaration depends on those of what it refers to. *)
LEMMA DefSizeLocal ==
  ASSUME NEW schema, NEW def, def.tag \in DefTags, AreTrees(BodyTypes(def)),
         def.tag = "union" => \A v \in DOMAIN def.variants : def.variants[v].data.form \in DataForms,
         NEW a, NEW b, \A id \in DirectRefs(def) : a[id] = b[id]
  PROVE  DefSize(schema, a, def) = DefSize(schema, b, def)
<1>1. \A ty \in BodyTypes(def) : \A id \in Refs(ty) : a[id] = b[id]
  BY DEF DirectRefs
<1>2. CASE def.tag = "enum"
  BY <1>2 DEF DefSize
<1>3. CASE def.tag \in {"struct", "message", "hub"}
  <2>1. BodyTypes(def) = FieldTypes(def.fields)
    BY <1>3 DEF BodyTypes
  <2>2. LayoutOf(schema, a, def.fields) = LayoutOf(schema, b, def.fields)
    BY <1>1, <2>1, LayoutLocal
  <2>3. QED
    BY <1>3, <2>2 DEF DefSize
<1>4. CASE def.tag = "type"
  <2>1. def.target \in BodyTypes(def)
    BY <1>4 DEF BodyTypes
  <2>2. TypeSize(a, def.target) = TypeSize(b, def.target)
    BY <1>1, <2>1, TypeSizeLocal DEF AreTrees
  <2>3. QED
    BY <1>4, <2>2 DEF DefSize
<1>5. CASE def.tag = "union"
  <2>1. ASSUME NEW v \in DOMAIN def.variants
        PROVE  VariantSize(schema, a, def.variants[v].data) = VariantSize(schema, b, def.variants[v].data)
    <3>1. PICK data : data = def.variants[v].data
      OBVIOUS
    <3>2. data.form \in DataForms
      BY <1>5, <3>1
    <3>3. CASE data.form = "type"
      <4>1. data.ty \in BodyTypes(def)
        BY <1>5, <3>1, <3>3, VariantTypes
      <4>2. TypeSize(a, data.ty) = TypeSize(b, data.ty)
        BY <1>1, <4>1, TypeSizeLocal DEF AreTrees
      <4>3. QED
        BY <3>1, <3>3, <4>2 DEF VariantSize
    <3>4. CASE data.form = "fields"
      <4>1. FieldTypes(data.fields) \subseteq BodyTypes(def)
        BY <1>5, <3>1, <3>4, VariantTypes
      <4>2. LayoutOf(schema, a, data.fields) = LayoutOf(schema, b, data.fields)
        BY <1>1, <4>1, LayoutLocal DEF AreTrees
      <4>3. QED
        BY <3>1, <3>4, <4>2 DEF VariantSize
    <3>5. CASE data.form = "unit"
      BY <3>1, <3>5 DEF VariantSize
    <3>6. QED
      BY <3>2, <3>3, <3>4, <3>5 DEF DataForms
  <2>2. [v \in DOMAIN def.variants |-> VariantSize(schema, a, def.variants[v].data)]
          = [v \in DOMAIN def.variants |-> VariantSize(schema, b, def.variants[v].data)]
    BY <2>1
  <2>3. QED
    BY <1>5, <2>2 DEF DefSize
<1>6. QED
  BY <1>2, <1>3, <1>4, <1>5 DEF DefTags

-----------------------------------------------------------------------------
(* The schemas sizes are found for. *)
IsSound(schema) ==
  /\ Len(schema) \in Nat
  /\ IsFiniteSet(DOMAIN schema)
  /\ IsGraph(References(schema)) /\ ~ HasRing(References(schema))
  /\ \A id \in DOMAIN schema :
       /\ schema[id].tag \in DefTags
       /\ AreTrees(BodyTypes(schema[id]))
       /\ schema[id].tag = "union" =>
            \A v \in DOMAIN schema[id].variants : schema[id].variants[v].data.form \in DataForms
       /\ \A other \in DirectRefs(schema[id]) : schema[other].tag # "message"

(* The recursion of DefSizes. *)
SizesOf(schema, found) == found = [id \in DOMAIN schema |-> DefSize(schema, found, schema[id])]

(* Sizes solve their recursion when references have no ring.                *)
LEMMA DefSizesExist ==
  ASSUME NEW schema, IsSound(schema)
  PROVE  SizesOf(schema, DefSizes(schema))
<1> DEFINE refs == References(schema)
           Solves(f, S) == \A id \in S : refs[id] \subseteq S /\ f[id] = DefSize(schema, f, schema[id])
           G == {S \in SUBSET DOMAIN schema :
                   \E f : f = [id \in DOMAIN schema |-> f[id]] /\ Solves(f, S)}
<1>1. {} \in G
  <2>1. PICK f : f = [id \in DOMAIN schema |-> 0]
    OBVIOUS
  <2>2. f = [id \in DOMAIN schema |-> f[id]]
    BY <2>1
  <2>3. QED
    BY <2>2
<1>2. DOMAIN refs = DOMAIN schema /\ \A id \in DOMAIN schema : refs[id] = DirectRefs(schema[id])
  BY DEF References
<1>3. ASSUME NEW S \in SUBSET DOMAIN schema, NEW id \in DOMAIN schema \ S, S \in G, refs[id] \subseteq S
      PROVE  S \cup {id} \in G
  <2>1. PICK f : f = [x \in DOMAIN schema |-> f[x]] /\ Solves(f, S)
    BY <1>3
  <2>2. PICK g : g = [x \in DOMAIN schema |-> IF x = id THEN DefSize(schema, f, schema[id]) ELSE f[x]]
    OBVIOUS
  <2>3. g = [x \in DOMAIN schema |-> g[x]] /\ \A x \in S : g[x] = f[x]
    BY <1>3, <2>2
  <2>4. g[id] = DefSize(schema, f, schema[id])
    BY <2>2
  <2>5. \A x \in S \cup {id} : \A y \in refs[x] : f[y] = g[y]
    BY <1>3, <2>1, <2>3
  <2>6. ASSUME NEW x \in S \cup {id}
        PROVE  DefSize(schema, f, schema[x]) = DefSize(schema, g, schema[x])
    <3>1. PICK def : def = schema[x]
      OBVIOUS
    <3>2. x \in DOMAIN schema
      BY <1>3
    <3>3. \A y \in DirectRefs(def) : f[y] = g[y]
      BY <1>2, <2>5, <3>1, <3>2
    <3>4. /\ def.tag \in DefTags /\ AreTrees(BodyTypes(def))
          /\ def.tag = "union" => \A v \in DOMAIN def.variants : def.variants[v].data.form \in DataForms
      BY <3>1, <3>2 DEF IsSound
    <3>5. QED
      BY <3>1, <3>3, <3>4, DefSizeLocal
  <2>7. Solves(g, S \cup {id})
    BY <1>3, <2>1, <2>3, <2>4, <2>6
  <2>8. QED
    BY <1>3, <2>3, <2>7
<1> HIDE DEF G
<1>4. IsGraph(refs) /\ IsFiniteSet(DOMAIN refs) /\ ~ HasRing(refs)
  BY <1>2 DEF IsSound
<1> HIDE DEF refs
<1>5. DOMAIN schema \in G
  BY <1>1, <1>2, <1>3, <1>4, AlongReferences
<1>6. PICK f : f = [id \in DOMAIN schema |-> f[id]] /\ Solves(f, DOMAIN schema)
  BY <1>5 DEF G
<1>7. f = [id \in DOMAIN schema |-> DefSize(schema, f, schema[id])]
  BY <1>6
<1>8. QED
  BY <1>7 DEF DefSizes, SizesOf

-----------------------------------------------------------------------------
(* The recursion of IsFixed. *)
FixedStep(schema, fixed, id, visiting) ==
  FixedDef(schema, schema[id], id \in visiting,
           [other \in DirectRefs(schema[id]) |-> fixed[other][visiting \cup {id}]])

(* The answers for one declaration, whatever is being visited.              *)
FixedRow(schema, fixed, id) ==
  [visiting \in SUBSET DOMAIN schema |-> FixedStep(schema, fixed, id, visiting)]

(* is_fixed_in of every declaration.                                        *)
Fix(schema) == CHOOSE fixed : fixed = [id \in DOMAIN schema |-> FixedRow(schema, fixed, id)]

(* IsFixed asks it of what a type refers to, with nothing being visited.    *)
LEMMA IsFixedIsFix ==
  ASSUME NEW schema, NEW ty
  PROVE  IsFixed(schema, ty) = FixedType(ty, [id \in Refs(ty) |-> Fix(schema)[id][{}]])
BY DEF IsFixed, Fix, FixedRow, FixedStep

(* The answers for a declaration follow from those for what it refers to.   *)
LEMMA FixedRowLocal ==
  ASSUME NEW schema, NEW f, NEW g, NEW id, \A other \in DirectRefs(schema[id]) : f[other] = g[other]
  PROVE  FixedRow(schema, f, id) = FixedRow(schema, g, id)
<1>1. ASSUME NEW visiting
      PROVE  FixedStep(schema, f, id, visiting) = FixedStep(schema, g, id, visiting)
  <2>1. [other \in DirectRefs(schema[id]) |-> f[other][visiting \cup {id}]]
          = [other \in DirectRefs(schema[id]) |-> g[other][visiting \cup {id}]]
    OBVIOUS
  <2>2. QED
    BY <2>1 DEF FixedStep
<1>2. QED
  BY <1>1 DEF FixedRow

(* is_fixed_in solves its recursion when references have no ring.           *)
LEMMA FixExists ==
  ASSUME NEW schema, IsSound(schema)
  PROVE  Fix(schema) = [id \in DOMAIN schema |-> FixedRow(schema, Fix(schema), id)]
<1> DEFINE refs == References(schema)
           Solves(f, S) == \A id \in S : refs[id] \subseteq S /\ f[id] = FixedRow(schema, f, id)
           G == {S \in SUBSET DOMAIN schema :
                   \E f : f = [id \in DOMAIN schema |-> f[id]] /\ Solves(f, S)}
<1>1. {} \in G
  <2>1. PICK f : f = [id \in DOMAIN schema |-> 0]
    OBVIOUS
  <2>2. f = [id \in DOMAIN schema |-> f[id]]
    BY <2>1
  <2>3. QED
    BY <2>2
<1>2. DOMAIN refs = DOMAIN schema /\ \A id \in DOMAIN schema : refs[id] = DirectRefs(schema[id])
  BY DEF References
<1>3. ASSUME NEW S \in SUBSET DOMAIN schema, NEW id \in DOMAIN schema \ S, S \in G, refs[id] \subseteq S
      PROVE  S \cup {id} \in G
  <2>1. PICK f : f = [x \in DOMAIN schema |-> f[x]] /\ Solves(f, S)
    BY <1>3
  <2>2. PICK g : g = [x \in DOMAIN schema |-> IF x = id THEN FixedRow(schema, f, id) ELSE f[x]]
    OBVIOUS
  <2>3. g = [x \in DOMAIN schema |-> g[x]] /\ \A x \in S : g[x] = f[x]
    BY <1>3, <2>2
  <2>4. g[id] = FixedRow(schema, f, id)
    BY <2>2
  <2>5. \A x \in S \cup {id} : \A y \in refs[x] : f[y] = g[y]
    BY <1>3, <2>1, <2>3
  <2>6. \A x \in S \cup {id} : FixedRow(schema, f, x) = FixedRow(schema, g, x)
    BY <1>2, <1>3, <2>5, FixedRowLocal
  <2>7. Solves(g, S \cup {id})
    BY <1>3, <2>1, <2>3, <2>4, <2>6
  <2>8. QED
    BY <1>3, <2>3, <2>7
<1> HIDE DEF G
<1>4. IsGraph(refs) /\ IsFiniteSet(DOMAIN refs) /\ ~ HasRing(refs)
  BY <1>2 DEF IsSound
<1> HIDE DEF refs
<1>5. DOMAIN schema \in G
  BY <1>1, <1>2, <1>3, <1>4, AlongReferences
<1>6. PICK f : f = [id \in DOMAIN schema |-> f[id]] /\ Solves(f, DOMAIN schema)
  BY <1>5 DEF G
<1>7. f = [id \in DOMAIN schema |-> FixedRow(schema, f, id)]
  BY <1>6
<1>8. QED
  BY <1>7 DEF Fix

-----------------------------------------------------------------------------
(* Resolved's recursion. *)
BehindStep(schema, behind, n, id) ==
  LET target == schema[id].target
  IN IF n > 0 /\ NamesAType(schema, target) THEN behind[n - 1][Root(target).id] ELSE target

(* What every alias stands for, when n more may be looked behind.           *)
BehindRow(schema, behind, n) == [id \in DOMAIN schema |-> BehindStep(schema, behind, n, id)]

(* The same for every n.                                                    *)
Behind(schema) ==
  CHOOSE behind : behind = [n \in 0 .. Len(schema) |-> BehindRow(schema, behind, n)]

(* Resolved looks behind as many aliases as there are declarations.         *)
LEMMA ResolvedIsBehind ==
  ASSUME NEW schema, NEW ty
  PROVE  Resolved(schema, ty) =
           IF NamesAType(schema, ty) THEN Behind(schema)[Len(schema)][Root(ty).id] ELSE ty
BY DEF Resolved, Behind, BehindRow, BehindStep

(* Looking behind aliases solves its recursion, which counts down.          *)
LEMMA BehindExists ==
  ASSUME NEW schema, Len(schema) \in Nat
  PROVE  Behind(schema) = [n \in 0 .. Len(schema) |-> BehindRow(schema, Behind(schema), n)]
<1> DEFINE Solves(f, k) == \A n \in 0 .. k : f[n] = BehindRow(schema, f, n)
           Solved == {k \in 0 .. Len(schema) :
                        \E f : f = [n \in 0 .. Len(schema) |-> f[n]] /\ Solves(f, k)}
<1>1. ASSUME NEW f, NEW g, NEW n \in Nat, n > 0 => f[n - 1] = g[n - 1]
      PROVE  BehindRow(schema, f, n) = BehindRow(schema, g, n)
  <2>1. \A id \in DOMAIN schema : BehindStep(schema, f, n, id) = BehindStep(schema, g, n, id)
    BY <1>1 DEF BehindStep
  <2>2. QED
    BY <2>1 DEF BehindRow
<1>2. 0 \in Solved
  <2>1. PICK f : f = [n \in 0 .. Len(schema) |-> BehindRow(schema, <<>>, n)]
    OBVIOUS
  <2>2. f[0] = BehindRow(schema, f, 0)
    <3>1. BehindRow(schema, <<>>, 0) = BehindRow(schema, f, 0)
      BY <1>1
    <3>2. QED
      BY <2>1, <3>1
  <2>3. f = [n \in 0 .. Len(schema) |-> f[n]] /\ Solves(f, 0)
    BY <2>1, <2>2
  <2>4. QED
    BY <2>3
<1>3. ASSUME NEW k \in 1 .. Len(schema), k - 1 \in Solved PROVE k \in Solved
  <2>1. PICK f : f = [n \in 0 .. Len(schema) |-> f[n]] /\ Solves(f, k - 1)
    BY <1>3
  <2>2. PICK g : g = [n \in 0 .. Len(schema) |-> IF n = k THEN BehindRow(schema, f, k) ELSE f[n]]
    OBVIOUS
  <2>3. \A n \in 0 .. (k - 1) : g[n] = f[n]
    BY <2>2
  <2>4. \A n \in 0 .. k : BehindRow(schema, f, n) = BehindRow(schema, g, n)
    <3>1. \A n \in 0 .. k : n \in Nat /\ (n > 0 => f[n - 1] = g[n - 1])
      BY <2>3
    <3>2. QED
      BY <1>1, <3>1
  <2>5. \A n \in 0 .. k : g[n] = BehindRow(schema, g, n)
    <3>1. g[k] = BehindRow(schema, g, k)
      BY <2>2, <2>4
    <3>2. \A n \in 0 .. (k - 1) : g[n] = BehindRow(schema, g, n)
      BY <2>1, <2>3, <2>4
    <3>3. \A n \in 0 .. k : n = k \/ n \in 0 .. (k - 1)
      OBVIOUS
    <3>4. QED
      BY <3>1, <3>2, <3>3
  <2>6. g = [n \in 0 .. Len(schema) |-> g[n]]
    BY <2>2
  <2>7. QED
    BY <2>5, <2>6
<1> HIDE DEF Solved
<1>4. Len(schema) \in Solved
  <2>1. PICK last \in Nat : last = Len(schema)
    OBVIOUS
  <2>2. \A k \in 1 .. last : k - 1 \in Solved => k \in Solved
    BY <1>3, <2>1
  <2>3. \A k \in 0 .. last : k \in Solved
    BY <1>2, <2>2, UpTo
  <2>4. QED
    BY <2>1, <2>3
<1>5. PICK f : f = [n \in 0 .. Len(schema) |-> f[n]] /\ Solves(f, Len(schema))
  BY <1>4 DEF Solved
<1>6. f = [n \in 0 .. Len(schema) |-> BehindRow(schema, f, n)]
  BY <1>5
<1>7. QED
  BY <1>6 DEF Behind

---------------------------------------------------------------------------------

(* Which sizes are fixed. *)
LEMMA FixedSizes ==
  /\ \A n : Fixed(n).fixed = TRUE
  /\ \A n : Var(n).fixed = FALSE
BY DEF Fixed, Var

(* A scalar is of a fixed size.                                             *)
LEMMA FixedScalar == ASSUME NEW node PROVE ScalarSize(node).fixed = TRUE
<1>1. PICK n : ScalarSize(node) = Fixed(n)
  BY DEF ScalarSize
<1>2. QED
  BY <1>1, FixedSizes

(* Bytes are when their constraints give them one length.                   *)
LEMMA FixedBytes ==
  ASSUME NEW node
  PROVE  /\ BytesSize(node).fixed \in BOOLEAN
         /\ BytesSize(node).fixed <=> (FixedLength(node.cons) # None)
BY DEF BytesSize, Fixed, Var

(* An array is when its elements are.                                       *)
LEMMA FixedArray ==
  ASSUME NEW size, NEW len
  PROVE  /\ ArraySize(size, len).fixed \in BOOLEAN
         /\ ArraySize(size, len).fixed <=> size.fixed
BY DEF ArraySize, Fixed, Var

(* A size is of a kind. *)
AreOfAKind(found, ids) == \A id \in ids : found[id].fixed \in BOOLEAN

(* Which parts of a type are of a fixed size. *)
LEMMA PartIsFixed ==
  ASSUME NEW ty, IsTree(ty), NEW found, AreOfAKind(found, Refs(ty)),
         NEW size, AreSizes(found, ty, size), NEW p \in DOMAIN ty,
         \A q \in DirectParts(ty)[p] : size[q].fixed \in BOOLEAN
  PROVE  /\ size[p].fixed \in BOOLEAN
         /\ size[p].fixed <=> /\ FixedNode(ty[p])
                              /\ ty[p].k = "named" => found[ty[p].id].fixed
                              /\ \A q \in DirectParts(ty)[p] : size[q].fixed
<1>1. PICK node : node = ty[p]
  OBVIOUS
<1>2. size[p] = PartSize(found, ty, size, p) /\ node.k \in Kinds
  BY <1>1 DEF AreSizes, IsTree
<1>3. CASE node.k \in ScalarKinds
  <2>1. node.k \notin {"string", "bytes", "array", "vec", "set", "map", "named"}
    BY <1>3 DEF ScalarKinds, IntKinds, IntBytes, ScalarBytes
  <2>2. size[p].fixed = TRUE
    <3>1. PartSize(found, ty, size, p) = ScalarSize(node)
      BY <1>1, <1>3, <2>1 DEF PartSize
    <3>2. QED
      BY <1>2, <3>1, FixedScalar
  <2>3. DirectParts(ty)[p] = {}
    <3>1. p \o <<1>> \notin DOMAIN ty /\ p \o <<2>> \notin DOMAIN ty
      BY <1>1, <2>1, TreeArms
    <3>2. QED
      BY <3>1 DEF DirectParts
  <2>4. QED
    BY <1>1, <2>1, <2>2, <2>3 DEF FixedNode
<1>4. CASE node.k \in {"string", "bytes"}
  <2>1. size[p] = BytesSize(node)
    BY <1>1, <1>2, <1>4 DEF PartSize, ScalarKinds, IntKinds, IntBytes, ScalarBytes
  <2>2. /\ size[p].fixed \in BOOLEAN
        /\ size[p].fixed <=> (FixedLength(node.cons) # None)
    BY <2>1, FixedBytes
  <2>3. DirectParts(ty)[p] = {}
    BY <1>1, <1>4, TreeArms DEF DirectParts
  <2>4. QED
    BY <1>1, <1>4, <2>2, <2>3 DEF FixedNode
<1>5. CASE node.k = "array"
  <2>1. p \o <<1>> \in DirectParts(ty)[p] /\ p \o <<2>> \notin DOMAIN ty
    BY <1>1, <1>5, TreeArms
  <2>2. \A q \in DirectParts(ty)[p] : q = p \o <<1>>
    BY <2>1 DEF DirectParts
  <2>3. size[p] = ArraySize(size[p \o <<1>>], node.len)
    BY <1>1, <1>2, <1>5 DEF PartSize, ScalarKinds, IntKinds, IntBytes, ScalarBytes
  <2>4. size[p].fixed \in BOOLEAN /\ (size[p].fixed <=> size[p \o <<1>>].fixed)
    BY <2>3, FixedArray
  <2>5. FixedNode(node)
    BY <1>5 DEF FixedNode
  <2>6. QED
    BY <1>1, <1>5, <2>1, <2>2, <2>4, <2>5
<1>6. CASE node.k \in {"vec", "set", "map"}
  <2>1. PICK max : size[p] = Var(max)
    BY <1>1, <1>2, <1>6 DEF PartSize, ScalarKinds, IntKinds, IntBytes, ScalarBytes
  <2>2. ~ FixedNode(node)
    BY <1>6 DEF FixedNode
  <2>3. QED
    BY <1>1, <2>1, <2>2, FixedSizes
<1>7. CASE node.k = "named"
  <2>1. size[p] = found[node.id]
    BY <1>1, <1>2, <1>7 DEF PartSize, ScalarKinds, IntKinds, IntBytes, ScalarBytes
  <2>2. DirectParts(ty)[p] = {}
    BY <1>1, <1>7, TreeArms DEF DirectParts
  <2>3. node.id \in Refs(ty)
    BY <1>1, <1>7 DEF Refs, Range
  <2>4. FixedNode(node)
    BY <1>7 DEF FixedNode
  <2>5. QED
    BY <1>1, <1>7, <2>1, <2>2, <2>3, <2>4 DEF AreOfAKind
<1>8. QED
  BY <1>2, <1>3, <1>4, <1>5, <1>6, <1>7 DEF Kinds

(* Every size of a part is of a kind. *)
LEMMA PartsOfAKind ==
  ASSUME NEW ty, IsTree(ty), NEW found, AreOfAKind(found, Refs(ty)),
         NEW size, AreSizes(found, ty, size)
  PROVE  \A p \in DOMAIN ty : size[p].fixed \in BOOLEAN
<1> DEFINE G == {S \in SUBSET DOMAIN ty : \A p \in S : size[p].fixed \in BOOLEAN}
<1>1. {} \in G
  OBVIOUS
<1>2. ASSUME NEW S \in SUBSET DOMAIN ty, NEW p \in DOMAIN ty \ S, S \in G, DirectParts(ty)[p] \subseteq S
      PROVE  S \cup {p} \in G
  <2>1. \A q \in DirectParts(ty)[p] : size[q].fixed \in BOOLEAN
    BY <1>2
  <2>2. size[p].fixed \in BOOLEAN
    BY <2>1, PartIsFixed
  <2>3. QED
    BY <1>2, <2>2
<1> HIDE DEF G
<1>3. DOMAIN DirectParts(ty) = DOMAIN ty
  BY DEF DirectParts
<1>4. DOMAIN ty \in G
  BY <1>1, <1>2, <1>3, TreeEnds, AlongReferences
<1>5. QED
  BY <1>4 DEF G

(* A type is of a fixed size when all its parts are. *)
LEMMA TypeIsFixed ==
  ASSUME NEW ty, IsTree(ty), NEW found, AreOfAKind(found, Refs(ty)),
         NEW named, \A id \in Refs(ty) : named[id] <=> found[id].fixed
  PROVE  /\ TypeSize(found, ty).fixed \in BOOLEAN
         /\ TypeSize(found, ty).fixed <=> FixedType(ty, named)
<1>1. PICK size : size = PartSizes(found, ty) /\ AreSizes(found, ty, size)
  BY SizesExist
<1>2. \A p \in DOMAIN ty : size[p].fixed \in BOOLEAN
  BY <1>1, PartsOfAKind
<1>3. \A p \in DOMAIN ty : DirectParts(ty)[p] \subseteq DOMAIN ty
  BY DEF DirectParts
<1>4. \A p \in DOMAIN ty : size[p].fixed <=> /\ FixedNode(ty[p])
                                             /\ ty[p].k = "named" => found[ty[p].id].fixed
                                             /\ \A q \in DirectParts(ty)[p] : size[q].fixed
  BY <1>1, <1>2, <1>3, PartIsFixed
<1>5. TypeSize(found, ty) = size[<<>>] /\ <<>> \in DOMAIN ty
  BY <1>1 DEF TypeSize, IsTree
<1>6. ASSUME size[<<>>].fixed PROVE \A p \in DOMAIN ty : size[p].fixed
  <2> DEFINE Bad == {Len(p) : p \in {q \in DOMAIN ty : ~ size[q].fixed}}
  <2>1. \A p \in DOMAIN ty : p \in Seq({1, 2}) /\ Len(p) \in Nat
    BY LenProperties DEF IsTree
  <2>2. SUFFICES ASSUME Bad # {} PROVE FALSE
    OBVIOUS
  <2>3. PICK n \in Bad : \A m \in Bad : n <= m
    BY <2>1, <2>2, LeastNumber
  <2>4. PICK p \in DOMAIN ty : ~ size[p].fixed /\ n = Len(p)
    BY <2>3
  <2>5. p # <<>> /\ p \in Seq({1, 2})
    BY <1>6, <2>1, <2>4
  <2>6. PICK q, i : q = SubSeq(p, 1, Len(p) - 1) /\ i = p[Len(p)]
    OBVIOUS
  <2>7. q \in DOMAIN ty /\ i \in {1, 2} /\ p = q \o <<i>> /\ Len(q) = Len(p) - 1
    <3>1. q \in DOMAIN ty
      BY <2>4, <2>5, <2>6 DEF IsTree
    <3>2. Len(p) \in Nat \ {0}
      BY <2>5, EmptySeq, LenProperties
    <3>3. i \in {1, 2} /\ Len(q) = Len(p) - 1 /\ q \in Seq({1, 2})
      <4>1. Len(p) \in 1 .. Len(p) /\ Len(p) - 1 \in 0 .. Len(p)
        BY <3>2
      <4>2. i \in {1, 2}
        BY <2>5, <2>6, <4>1, ElementOfSeq
      <4>3. q \in Seq({1, 2}) /\ Len(q) = Len(p) - 1
        <5>1. \A j \in 1 .. (Len(p) - 1) : p[j] \in {1, 2}
          BY <2>5, <3>2, ElementOfSeq
        <5>2. PICK last \in Nat : last = Len(p) - 1
          <6>1. PICK len : len = Len(p)
            OBVIOUS
          <6>2. len \in Nat /\ len # 0
            BY <3>2, <6>1
          <6>3. len - 1 \in Nat
            BY <6>2
          <6>4. QED
            BY <6>1, <6>3
        <5>3. SubSeq(p, 1, last) \in Seq({1, 2}) /\ Len(SubSeq(p, 1, last)) = last
          BY <5>1, <5>2, SubSeqProperties
        <5>4. QED
          BY <2>6, <5>2, <5>3
      <4>4. QED
        BY <4>2, <4>3
    <3>4. p = q \o <<i>>
      BY <2>5, <2>6, <3>2, <3>3
    <3>5. QED
      BY <3>1, <3>3, <3>4
  <2>8. p \in DirectParts(ty)[q]
    BY <2>4, <2>7, TreeArms
  <2>9. ~ size[q].fixed
    BY <1>4, <2>4, <2>7, <2>8
  <2>10. Len(q) \in Bad
    BY <2>7, <2>9
  <2>11. n <= Len(q) /\ Len(p) \in Nat
    BY <2>1, <2>3, <2>10, <2>4
  <2>12. QED
    BY <2>4, <2>7, <2>11
<1>7. ASSUME \A p \in DOMAIN ty : FixedNode(ty[p]) /\ (ty[p].k = "named" => found[ty[p].id].fixed)
      PROVE  size[<<>>].fixed
  <2>1. PICK ids : ids = {p \in DOMAIN ty : ~ size[p].fixed}
    OBVIOUS
  <2>2. ASSUME NEW p \in ids PROVE DirectParts(ty)[p] \cap ids # {}
    <3>1. PICK q \in DirectParts(ty)[p] : ~ size[q].fixed
      BY <1>4, <1>7, <2>1, <2>2
    <3>2. q \in ids
      BY <1>3, <2>1, <2>2, <3>1
    <3>3. QED
      BY <3>1, <3>2
  <2>3. ids \in SUBSET DOMAIN DirectParts(ty)
    BY <2>1 DEF DirectParts
  <2>4. ids = {}
    BY <2>2, <2>3, TreeEnds DEF HasRing, Ring
  <2>5. QED
    BY <1>5, <2>1, <2>4
<1>8. FixedType(ty, named)
        <=> \A p \in DOMAIN ty : FixedNode(ty[p]) /\ (ty[p].k = "named" => found[ty[p].id].fixed)
  <2>1. \A p \in DOMAIN ty : ty[p].k = "named" => ty[p].id \in Refs(ty)
    BY DEF Refs, Range
  <2>2. \A id \in Refs(ty) : \E p \in DOMAIN ty : ty[p].k = "named" /\ ty[p].id = id
    BY DEF Refs, Range
  <2>3. (\A id \in Refs(ty) : named[id])
          <=> \A p \in DOMAIN ty : ty[p].k = "named" => found[ty[p].id].fixed
    BY <2>1, <2>2
  <2>4. QED
    BY <2>3 DEF FixedType
<1>9. QED
  BY <1>2, <1>4, <1>5, <1>6, <1>7, <1>8

(* What a type of one node takes. *)
LEMMA RootSize ==
  ASSUME NEW ty, IsTree(ty), NEW found
  PROVE  /\ Root(ty).k = "bool" => TypeSize(found, ty).fixed = TRUE
         /\ Root(ty).k = "named" => TypeSize(found, ty) = found[Root(ty).id] /\ Root(ty).id \in Refs(ty)
<1>1. PICK node : node = Root(ty) /\ node = ty[<<>>]
  BY DEF Root
<1>2. PICK size : size = PartSizes(found, ty) /\ AreSizes(found, ty, size)
  BY SizesExist
<1>3. <<>> \in DOMAIN ty
  BY DEF IsTree
<1>4. TypeSize(found, ty) = PartSize(found, ty, size, <<>>)
  BY <1>2, <1>3 DEF TypeSize, AreSizes
<1>5. ASSUME node.k = "bool" PROVE TypeSize(found, ty).fixed = TRUE
  <2>1. node.k \in ScalarKinds /\ node.k \notin {"string", "bytes", "array", "vec", "set", "map", "named"}
    BY <1>5 DEF ScalarKinds, ScalarBytes
  <2>2. PartSize(found, ty, size, <<>>) = ScalarSize(node)
    BY <1>1, <2>1 DEF PartSize
  <2>3. QED
    BY <1>4, <2>2, FixedScalar
<1>6. ASSUME node.k = "named" PROVE TypeSize(found, ty) = found[node.id] /\ node.id \in Refs(ty)
  <2>1. node.k \notin ScalarKinds
    BY <1>6 DEF ScalarKinds, IntKinds, IntBytes, ScalarBytes
  <2>2. PartSize(found, ty, size, <<>>) = found[node.id]
    BY <1>1, <1>6, <2>1 DEF PartSize
  <2>3. node.id \in Refs(ty)
    BY <1>1, <1>3, <1>6 DEF Refs, Range
  <2>4. QED
    BY <1>4, <2>2, <2>3
<1>7. QED
  BY <1>1, <1>5, <1>6

(* What stands for a bool, through any number of types, is of a fixed size. *)
LEMMA BoolIsFixed ==
  ASSUME NEW schema, IsSound(schema), NEW found, SizesOf(schema, found),
         NEW ty, IsTree(ty), Refs(ty) \subseteq DOMAIN schema,
         Root(Resolved(schema, ty)).k = "bool"
  PROVE  TypeSize(found, ty).fixed = TRUE
<1>1. PICK last \in Nat : last = Len(schema)
  BY DEF IsSound
<1>2. PICK behind : /\ behind = Behind(schema)
                    /\ behind = [n \in 0 .. last |-> BehindRow(schema, behind, n)]
  BY <1>1, BehindExists
<1>3. ASSUME NEW id \in DOMAIN schema, schema[id].tag = "type"
      PROVE  /\ IsTree(schema[id].target)
             /\ Refs(schema[id].target) \subseteq DOMAIN schema
             /\ found[id] = TypeSize(found, schema[id].target)
  <2>1. schema[id].target \in BodyTypes(schema[id])
    BY <1>3 DEF BodyTypes
  <2>2. Refs(schema[id].target) \subseteq DirectRefs(schema[id])
    BY <2>1 DEF DirectRefs
  <2>3. References(schema)[id] = DirectRefs(schema[id]) /\ DOMAIN References(schema) = DOMAIN schema
    BY <1>3 DEF References
  <2>4. DirectRefs(schema[id]) \subseteq DOMAIN schema
    BY <1>3, <2>3 DEF IsSound, IsGraph
  <2>5. IsTree(schema[id].target)
    BY <1>3, <2>1 DEF IsSound, AreTrees
  <2>6. found[id] = DefSize(schema, found, schema[id])
    BY <1>3 DEF SizesOf
  <2>7. QED
    BY <1>3, <2>2, <2>4, <2>5, <2>6 DEF DefSize
<1> DEFINE Fits == {n \in 0 .. last :
                      \A id \in DOMAIN schema :
                        schema[id].tag = "type" /\ Root(behind[n][id]).k = "bool"
                          => found[id].fixed = TRUE}
<1>4. ASSUME NEW n \in 0 .. last, n > 0 => n - 1 \in Fits PROVE n \in Fits
  <2>1. SUFFICES ASSUME NEW id \in DOMAIN schema, schema[id].tag = "type",
                        Root(behind[n][id]).k = "bool"
                 PROVE  found[id].fixed = TRUE
    OBVIOUS
  <2>2. PICK target : target = schema[id].target
    OBVIOUS
  <2>3. IsTree(target) /\ Refs(target) \subseteq DOMAIN schema /\ found[id] = TypeSize(found, target)
    BY <1>3, <2>1, <2>2
  <2>4. behind[n][id] = BehindStep(schema, behind, n, id)
    BY <1>2, <2>1 DEF BehindRow
  <2>5. CASE n > 0 /\ NamesAType(schema, target)
    <3>1. PICK other : other = Root(target).id
      OBVIOUS
    <3>2. behind[n][id] = behind[n - 1][other]
      BY <2>2, <2>4, <2>5, <3>1 DEF BehindStep
    <3>3. other \in DOMAIN schema /\ schema[other].tag = "type" /\ found[id] = found[other]
      BY <2>3, <2>5, <3>1, RootSize DEF NamesAType
    <3>4. QED
      BY <1>4, <2>1, <2>5, <3>2, <3>3
  <2>6. CASE ~ (n > 0 /\ NamesAType(schema, target))
    <3>1. Root(target).k = "bool"
      BY <2>1, <2>2, <2>4, <2>6 DEF BehindStep
    <3>2. QED
      BY <2>3, <3>1, RootSize
  <2>7. QED
    BY <2>5, <2>6
<1> HIDE DEF Fits
<1>5. last \in Fits
  <2>1. 0 \in Fits
    BY <1>4
  <2>2. \A n \in 1 .. last : n - 1 \in Fits => n \in Fits
    BY <1>4
  <2>3. \A n \in 0 .. last : n \in Fits
    BY <2>1, <2>2, UpTo
  <2>4. QED
    BY <2>3
<1>6. CASE NamesAType(schema, ty)
  <2>1. PICK other : other = Root(ty).id
    OBVIOUS
  <2>2. other \in DOMAIN schema /\ schema[other].tag = "type" /\ TypeSize(found, ty) = found[other]
    BY <1>6, <2>1, RootSize DEF NamesAType
  <2>3. Resolved(schema, ty) = behind[last][other]
    BY <1>1, <1>2, <1>6, <2>1, ResolvedIsBehind
  <2>4. QED
    BY <1>5, <2>2, <2>3 DEF Fits
<1>7. CASE ~ NamesAType(schema, ty)
  <2>1. Root(ty).k = "bool"
    BY <1>7, ResolvedIsBehind
  <2>2. QED
    BY <2>1, RootSize
<1>8. QED
  BY <1>6, <1>7

-----------------------------------------------------------------------------
(* What an object is laid out to take is fixed. *)
LEMMA ObjectIsFixed ==
  ASSUME NEW schema, NEW fields, NEW found
  PROVE  /\ ObjectLayout(schema, fields, found).size.fixed \in BOOLEAN
         /\ ObjectLayout(schema, fields, found).size.fixed
              <=> \A k \in DOMAIN fields :
                    Root(Resolved(schema, fields[k].ty)).k # "bool" => found[k].fixed /\ ~ fields[k].optional
<1> DEFINE bool == {k \in DOMAIN fields : Root(Resolved(schema, fields[k].ty)).k = "bool"}
           var == {k \in DOMAIN fields \ bool : ~ found[k].fixed}
           opt == {k \in DOMAIN fields \ (bool \cup var) : fields[k].optional}
<1>1. \E head, max : ObjectLayout(schema, fields, found).size
                       = IF var \cup opt = {} THEN Fixed(head) ELSE Var(max)
  BY DEF ObjectLayout
<1>2. /\ ObjectLayout(schema, fields, found).size.fixed \in BOOLEAN
      /\ ObjectLayout(schema, fields, found).size.fixed <=> (var \cup opt = {})
  BY <1>1, FixedSizes
<1>3. var \cup opt = {}
        <=> \A k \in DOMAIN fields :
              Root(Resolved(schema, fields[k].ty)).k # "bool" => found[k].fixed /\ ~ fields[k].optional
  OBVIOUS
<1>4. QED
  BY <1>2, <1>3

(* The fields of a declaration. *)
LEMMA FieldsAreFixed ==
  ASSUME NEW schema, IsSound(schema), NEW found, SizesOf(schema, found),
         NEW fields, AreTrees(FieldTypes(fields)),
         NEW refs \in SUBSET DOMAIN schema, \A ty \in FieldTypes(fields) : Refs(ty) \subseteq refs,
         AreOfAKind(found, refs), NEW named, \A id \in refs : named[id] <=> found[id].fixed
  PROVE  /\ LayoutOf(schema, found, fields).size.fixed \in BOOLEAN
         /\ LayoutOf(schema, found, fields).size.fixed
              <=> \A k \in DOMAIN fields : FixedField(schema, fields[k], named)
<1>1. PICK own : own = FieldSizes(found, fields)
  OBVIOUS
<1>2. /\ LayoutOf(schema, found, fields).size.fixed \in BOOLEAN
      /\ LayoutOf(schema, found, fields).size.fixed
           <=> \A k \in DOMAIN fields :
                 Root(Resolved(schema, fields[k].ty)).k # "bool" => own[k].fixed /\ ~ fields[k].optional
  BY <1>1, ObjectIsFixed DEF LayoutOf
<1>3. ASSUME NEW k \in DOMAIN fields
      PROVE  (Root(Resolved(schema, fields[k].ty)).k # "bool" => own[k].fixed /\ ~ fields[k].optional)
               <=> FixedField(schema, fields[k], named)
  <2>1. PICK ty : ty = fields[k].ty
    OBVIOUS
  <2>2. ty \in FieldTypes(fields)
    BY <2>1 DEF FieldTypes
  <2>3. IsTree(ty) /\ Refs(ty) \subseteq refs
    BY <2>2 DEF AreTrees
  <2>4. own[k] = TypeSize(found, ty)
    BY <1>1, <2>1 DEF FieldSizes
  <2>5. TypeSize(found, ty).fixed <=> FixedType(ty, named)
    BY <2>3, TypeIsFixed DEF AreOfAKind
  <2>6. Root(Resolved(schema, ty)).k = "bool" => TypeSize(found, ty).fixed = TRUE
    BY <2>3, BoolIsFixed
  <2>7. QED
    BY <2>1, <2>4, <2>5, <2>6 DEF FixedField
<1>4. QED
  BY <1>2, <1>3

(* The size of a declaration is fixed when is_fixed_in says so of it, given *)
(* that the sizes of what it refers to are.                                 *)
LEMMA DefIsFixed ==
  ASSUME NEW schema, IsSound(schema), NEW found, SizesOf(schema, found),
         NEW id \in DOMAIN schema, AreOfAKind(found, DirectRefs(schema[id])),
         NEW named, \A other \in DirectRefs(schema[id]) : named[other] <=> found[other].fixed
  PROVE  /\ found[id].fixed \in BOOLEAN
         /\ schema[id].tag # "message" => (found[id].fixed <=> FixedDef(schema, schema[id], FALSE, named))
<1>1. PICK def, refs : def = schema[id] /\ refs = DirectRefs(def)
  OBVIOUS
<1>2. /\ def.tag \in DefTags /\ AreTrees(BodyTypes(def))
      /\ found[id] = DefSize(schema, found, def)
  BY <1>1 DEF IsSound, SizesOf
<1>3. \A ty \in BodyTypes(def) : Refs(ty) \subseteq refs
  BY <1>1 DEF DirectRefs
<1>4. refs \in SUBSET DOMAIN schema
  BY <1>1 DEF IsSound, IsGraph, References
<1>5. AreOfAKind(found, refs) /\ \A other \in refs : named[other] <=> found[other].fixed
  BY <1>1
<1>6. CASE def.tag = "enum"
  <2>1. DefSize(schema, found, def) = Fixed(IntBytes[def.repr])
    BY <1>6 DEF DefSize
  <2>2. found[id].fixed = TRUE
    BY <1>2, <2>1, FixedSizes
  <2>3. FixedDef(schema, def, FALSE, named)
    BY <1>6 DEF FixedDef
  <2>4. QED
    BY <1>1, <2>2, <2>3
<1>7. CASE def.tag \in {"struct", "message", "hub"}
  <2>1. BodyTypes(def) = FieldTypes(def.fields)
    BY <1>7 DEF BodyTypes
  <2>2. found[id] = LayoutOf(schema, found, def.fields).size
    BY <1>2, <1>7 DEF DefSize
  <2>3. /\ found[id].fixed \in BOOLEAN
        /\ found[id].fixed <=> \A k \in DOMAIN def.fields : FixedField(schema, def.fields[k], named)
    BY <1>2, <1>3, <1>4, <1>5, <2>1, <2>2, FieldsAreFixed
  <2>4. def.tag # "message" =>
          (FixedDef(schema, def, FALSE, named)
             <=> \A k \in DOMAIN def.fields : FixedField(schema, def.fields[k], named))
    BY <1>7 DEF FixedDef
  <2>5. QED
    BY <1>1, <2>3, <2>4
<1>8. CASE def.tag = "type"
  <2>1. def.target \in BodyTypes(def)
    BY <1>8 DEF BodyTypes
  <2>2. IsTree(def.target) /\ Refs(def.target) \subseteq refs
    BY <1>2, <1>3, <2>1 DEF AreTrees
  <2>3. found[id] = TypeSize(found, def.target)
    BY <1>2, <1>8 DEF DefSize
  <2>4. found[id].fixed \in BOOLEAN /\ (found[id].fixed <=> FixedType(def.target, named))
    BY <1>5, <2>2, <2>3, TypeIsFixed DEF AreOfAKind
  <2>5. FixedDef(schema, def, FALSE, named) <=> FixedType(def.target, named)
    BY <1>8 DEF FixedDef
  <2>6. QED
    BY <1>1, <2>4, <2>5
<1>9. CASE def.tag = "union"
  <2>1. PICK max : DefSize(schema, found, def) = Var(max)
    BY <1>9 DEF DefSize, UnionSize
  <2>2. found[id].fixed = FALSE
    BY <1>2, <2>1, FixedSizes
  <2>3. ~ FixedDef(schema, def, FALSE, named)
    BY <1>9 DEF FixedDef
  <2>4. QED
    BY <1>1, <2>2, <2>3
<1>10. QED
  BY <1>2, <1>6, <1>7, <1>8, <1>9 DEF DefTags

(* Every declaration's size is of a kind. *)
LEMMA DefsOfAKind ==
  ASSUME NEW schema, IsSound(schema), NEW found, SizesOf(schema, found)
  PROVE  AreOfAKind(found, DOMAIN schema)
<1> DEFINE refs == References(schema)
           G == {S \in SUBSET DOMAIN schema : AreOfAKind(found, S)}
<1>1. {} \in G
  BY DEF AreOfAKind
<1>2. DOMAIN refs = DOMAIN schema /\ \A id \in DOMAIN schema : refs[id] = DirectRefs(schema[id])
  BY DEF References
<1>3. ASSUME NEW S \in SUBSET DOMAIN schema, NEW id \in DOMAIN schema \ S, S \in G, refs[id] \subseteq S
      PROVE  S \cup {id} \in G
  <2>1. AreOfAKind(found, DirectRefs(schema[id])) /\ AreOfAKind(found, S)
    BY <1>2, <1>3 DEF AreOfAKind
  <2>2. PICK named : named = [other \in DirectRefs(schema[id]) |-> found[other].fixed]
    OBVIOUS
  <2>3. \A other \in DirectRefs(schema[id]) : named[other] <=> found[other].fixed
    BY <2>2
  <2>4. found[id].fixed \in BOOLEAN
    <3>1. id \in DOMAIN schema
      BY <1>3
    <3> HIDE DEF refs, G
    <3>2. /\ found[id].fixed \in BOOLEAN
          /\ schema[id].tag # "message" =>
               (found[id].fixed <=> FixedDef(schema, schema[id], FALSE, named))
      BY <2>1, <2>3, <3>1, DefIsFixed
    <3>3. QED
      BY <3>2
  <2>5. QED
    BY <1>3, <2>1, <2>4 DEF AreOfAKind
<1> HIDE DEF G
<1>4. IsGraph(refs) /\ IsFiniteSet(DOMAIN refs) /\ ~ HasRing(refs)
  BY <1>2 DEF IsSound
<1> HIDE DEF refs
<1>5. DOMAIN schema \in G
  BY <1>1, <1>2, <1>3, <1>4, AlongReferences
<1>6. QED
  BY <1>5 DEF G

(* is_fixed of a declaration that can be named, while none of those its     *)
(* visit reaches is being visited.                                          *)
LEMMA FixIsFixed ==
  ASSUME NEW schema, IsSound(schema), NEW found, SizesOf(schema, found),
         NEW id \in DOMAIN schema, schema[id].tag # "message"
  PROVE  Fix(schema)[id][{}] <=> found[id].fixed
<1> DEFINE refs == References(schema)
           Agrees(x, visiting) == Fix(schema)[x][visiting] <=> found[x].fixed
           G == {S \in SUBSET DOMAIN schema :
                   \A x \in S : \A visiting \in SUBSET DOMAIN schema :
                     schema[x].tag # "message" /\ visiting \cap S = {} => Agrees(x, visiting)}
<1>1. {} \in G
  OBVIOUS
<1>2. DOMAIN refs = DOMAIN schema /\ \A x \in DOMAIN schema : refs[x] = DirectRefs(schema[x])
  BY DEF References
<1>3. AreOfAKind(found, DOMAIN schema)
  BY DefsOfAKind
<1>4. ASSUME NEW S \in SUBSET DOMAIN schema, NEW x \in DOMAIN schema \ S, S \in G, refs[x] \subseteq S
      PROVE  S \cup {x} \in G
  <2>1. ASSUME NEW visiting \in SUBSET DOMAIN schema, schema[x].tag # "message", x \notin visiting,
               visiting \cap S = {}
        PROVE  Agrees(x, visiting)
    <3>1. PICK named : named = [other \in DirectRefs(schema[x]) |-> Fix(schema)[other][visiting \cup {x}]]
      OBVIOUS
    <3>2. ASSUME NEW other \in DirectRefs(schema[x]) PROVE named[other] <=> found[other].fixed
      <4>1. other \in S /\ schema[other].tag # "message"
        BY <1>2, <1>4, <3>2 DEF IsSound
      <4>2. visiting \cup {x} \in SUBSET DOMAIN schema /\ (visiting \cup {x}) \cap S = {}
        BY <1>4, <2>1
      <4>3. Agrees(other, visiting \cup {x})
        BY <1>4, <4>1, <4>2
      <4>4. QED
        BY <3>1, <4>3
    <3>3. AreOfAKind(found, DirectRefs(schema[x]))
      BY <1>2, <1>3, <1>4 DEF AreOfAKind
    <3>4. found[x].fixed <=> FixedDef(schema, schema[x], FALSE, named)
      BY <1>4, <2>1, <3>2, <3>3, DefIsFixed
    <3>5. Fix(schema)[x] = FixedRow(schema, Fix(schema), x)
      <4>1. PICK f : f = Fix(schema) /\ f = [y \in DOMAIN schema |-> FixedRow(schema, f, y)]
        BY FixExists
      <4>2. QED
        BY <1>4, <4>1
    <3>6. Fix(schema)[x][visiting] = FixedStep(schema, Fix(schema), x, visiting)
      BY <2>1, <3>5 DEF FixedRow
    <3>7. FixedStep(schema, Fix(schema), x, visiting) = FixedDef(schema, schema[x], x \in visiting, named)
      BY <3>1 DEF FixedStep
    <3>8. (x \in visiting) = FALSE
      BY <2>1
    <3>9. QED
      BY <3>4, <3>6, <3>7, <3>8
  <2>2. ASSUME NEW y \in S, NEW visiting \in SUBSET DOMAIN schema, schema[y].tag # "message",
               visiting \cap (S \cup {x}) = {}
        PROVE  Agrees(y, visiting)
    BY <1>4, <2>2
  <2>3. QED
    BY <1>4, <2>1, <2>2
<1> HIDE DEF G
<1>5. IsGraph(refs) /\ IsFiniteSet(DOMAIN refs) /\ ~ HasRing(refs)
  BY <1>2 DEF IsSound
<1> HIDE DEF refs
<1>6. DOMAIN schema \in G
  BY <1>1, <1>2, <1>4, <1>5, AlongReferences
<1>7. {} \in SUBSET DOMAIN schema /\ {} \cap DOMAIN schema = {}
  OBVIOUS
<1>8. QED
  BY <1>6, <1>7 DEF G

(* ir.rs and ir/wire.rs agree on each type that can be written. *)
LEMMA FixedAgrees ==
  ASSUME NEW schema, IsSound(schema), NEW found, SizesOf(schema, found),
         NEW ty, IsTree(ty), Refs(ty) \subseteq DOMAIN schema,
         \A id \in Refs(ty) : schema[id].tag # "message"
  PROVE  IsFixed(schema, ty) = TypeSize(found, ty).fixed
<1>1. PICK named : named = [id \in Refs(ty) |-> Fix(schema)[id][{}]]
  OBVIOUS
<1>2. \A id \in Refs(ty) : named[id] <=> found[id].fixed
  BY <1>1, FixIsFixed
<1>3. AreOfAKind(found, Refs(ty))
  BY DefsOfAKind DEF AreOfAKind
<1>4. TypeSize(found, ty).fixed \in BOOLEAN /\ (TypeSize(found, ty).fixed <=> FixedType(ty, named))
  BY <1>2, <1>3, TypeIsFixed
<1>5. IsFixed(schema, ty) = FixedType(ty, named)
  BY <1>1, IsFixedIsFix
<1>6. FixedType(ty, named) \in BOOLEAN
  BY DEF FixedType
<1>7. QED
  BY <1>4, <1>5, <1>6

---------------------------------------------------------------------------------

(* Lowering keeps the shape of a type. *)
LEMMA LoweredTree ==
  ASSUME NEW t, NEW source, NEW scope, NEW w, IsTree(w)
  PROVE  IsTree(LowerType(t, source, scope, w))
<1>1. PICK ty : ty = LowerType(t, source, scope, w)
  OBVIOUS
<1>2. DOMAIN ty = DOMAIN w
  BY <1>1 DEF LowerType
<1>3. ASSUME NEW p \in DOMAIN w
      PROVE  ty[p].k \in Kinds /\ Arity(ty[p].k) = Arity(w[p].k)
  <2>1. PICK node : node = w[p]
    OBVIOUS
  <2>2. ty[p] = LowerNode(t, source, scope, node) /\ node.k \in Kinds
    BY <1>1, <1>3, <2>1 DEF LowerType, IsTree
  <2>3. CASE node.k = "named"
    <3>1. ty[p].k \in {"bool", "named"}
      BY <2>2, <2>3 DEF LowerNode
    <3>2. \A k \in {"bool", "named"} : Arity(k) = 0 /\ k \in Kinds
      BY DEF Arity, Kinds, ScalarKinds, ScalarBytes
    <3>3. QED
      BY <2>1, <2>3, <3>1, <3>2
  <2>4. CASE node.k # "named"
    <3>1. ty[p].k = node.k
      BY <2>2, <2>4 DEF LowerNode
    <3>2. QED
      BY <2>1, <2>2, <3>1
  <2>5. QED
    BY <2>3, <2>4
<1>4. QED
  BY <1>1, <1>2, <1>3 DEF IsTree

(* The positions of a part. *)
LEMMA PartPositions ==
  ASSUME NEW ty, DOMAIN ty \subseteq Seq({1, 2}), NEW p \in Seq({1, 2})
  PROVE  /\ DOMAIN PartAt(ty, p) \subseteq Seq({1, 2})
         /\ \A q \in Seq({1, 2}) : q \in DOMAIN PartAt(ty, p) <=> p \o q \in DOMAIN ty
         /\ \A q \in DOMAIN PartAt(ty, p) : PartAt(ty, p)[q] = ty[p \o q]
<1> DEFINE below == {r \in DOMAIN ty : IsPrefix(p, r)}
           rest == {SubSeq(r, Len(p) + 1, Len(r)) : r \in below}
<1>1. PartAt(ty, p) = [q \in rest |-> ty[p \o q]]
  BY DEF PartAt
<1>2. ASSUME NEW r \in below
      PROVE  SubSeq(r, Len(p) + 1, Len(r)) \in Seq({1, 2}) /\ p \o SubSeq(r, Len(p) + 1, Len(r)) = r
  <2>1. r \in Seq({1, 2})
    OBVIOUS
  <2>2. /\ Len(p) <= Len(r) /\ Len(p) \in Nat /\ Len(r) \in Nat
        /\ \A j \in 1 .. Len(p) : p[j] = r[j]
    <3>1. Len(p) <= Len(r) /\ SubSeq(p, 1, Len(p)) = SubSeq(r, 1, Len(p))
      BY DEF IsPrefix
    <3>2. Len(p) \in Nat /\ Len(r) \in Nat
      BY <2>1, LenProperties
    <3>3. \A j \in 1 .. Len(p) : SubSeq(p, 1, Len(p))[j] = p[j] /\ SubSeq(r, 1, Len(p))[j] = r[j]
      BY <2>1, <3>1, <3>2
    <3>4. QED
      BY <3>1, <3>2, <3>3
  <2>3. PICK q : q = SubSeq(r, Len(p) + 1, Len(r))
    OBVIOUS
  <2>4. \A j \in (Len(p) + 1) .. Len(r) : r[j] \in {1, 2}
    BY <2>1, <2>2, ElementOfSeq
  <2>5. /\ q \in Seq({1, 2}) /\ Len(q) = Len(r) - Len(p)
        /\ \A j \in 1 .. Len(q) : q[j] = r[Len(p) + j]
    BY <2>1, <2>2, <2>3, <2>4
  <2>6. p \o q \in Seq({1, 2}) /\ Len(p \o q) = Len(r)
    BY <2>2, <2>5
  <2>7. \A j \in 1 .. Len(r) : (p \o q)[j] = r[j]
    BY <2>2, <2>5
  <2>8. p \o q = r
    BY <2>1, <2>6, <2>7, SeqEqual
  <2>9. QED
    BY <2>3, <2>5, <2>8
<1>3. ASSUME NEW q \in Seq({1, 2}), p \o q \in DOMAIN ty
      PROVE  q \in rest
  <2>1. PICK r : r = p \o q
    OBVIOUS
  <2>2. r \in Seq({1, 2}) /\ Len(r) = Len(p) + Len(q) /\ Len(p) \in Nat /\ Len(q) \in Nat
    BY <2>1
  <2>3. SubSeq(p, 1, Len(p)) = SubSeq(r, 1, Len(p))
    BY <2>1, <2>2
  <2>4. r \in below
    <3>1. IsPrefix(p, r)
      BY <2>2, <2>3 DEF IsPrefix
    <3>2. QED
      BY <1>3, <2>1, <3>1
  <2>5. SubSeq(r, Len(p) + 1, Len(r)) = q
    BY <2>1, <2>2
  <2>6. QED
    BY <2>4, <2>5
<1>4. QED
  BY <1>1, <1>2, <1>3

(* A part of a type is a type. *)
LEMMA PartIsTree ==
  ASSUME NEW ty, IsTree(ty), NEW p \in DOMAIN ty
  PROVE  IsTree(PartAt(ty, p)) /\ Refs(PartAt(ty, p)) \subseteq Refs(ty)
         /\ Root(PartAt(ty, p)) = ty[p]
<1>1. PICK part : part = PartAt(ty, p)
  OBVIOUS
<1>2. DOMAIN ty \subseteq Seq({1, 2}) /\ p \in Seq({1, 2})
  BY DEF IsTree
<1>3. /\ DOMAIN part \subseteq Seq({1, 2})
      /\ \A q \in Seq({1, 2}) : q \in DOMAIN part <=> p \o q \in DOMAIN ty
      /\ \A q \in DOMAIN part : part[q] = ty[p \o q]
  BY <1>1, <1>2, PartPositions
<1>4. IsFiniteSet(DOMAIN part)
  <2> DEFINE below == {r \in DOMAIN ty : IsPrefix(p, r)}
  <2>1. DOMAIN part = {SubSeq(r, Len(p) + 1, Len(r)) : r \in below}
    BY <1>1 DEF PartAt
  <2>2. IsFiniteSet(below)
    BY FS_Subset DEF IsTree
  <2>3. PICK f : f = [r \in below |-> SubSeq(r, Len(p) + 1, Len(r))]
    OBVIOUS
  <2>4. f \in Surjection(below, DOMAIN part)
    BY <2>1, <2>3 DEF Surjection
  <2>5. QED
    BY <2>2, <2>4, FS_Surjection
<1>5. p \o <<>> = p /\ <<>> \in Seq({1, 2})
  BY <1>2
<1>6. <<>> \in DOMAIN part /\ part[<<>>] = ty[p]
  BY <1>3, <1>5
<1>7. ASSUME NEW q \in DOMAIN part
      PROVE  /\ part[q].k \in Kinds
             /\ q # <<>> => SubSeq(q, 1, Len(q) - 1) \in DOMAIN part
             /\ \A i \in {1, 2} : q \o <<i>> \in DOMAIN part <=> i <= Arity(part[q].k)
  <2>1. q \in Seq({1, 2}) /\ p \o q \in DOMAIN ty /\ part[q] = ty[p \o q]
    BY <1>3, <1>7
  <2>2. part[q].k \in Kinds
    BY <2>1 DEF IsTree
  <2>3. ASSUME q # <<>> PROVE SubSeq(q, 1, Len(q) - 1) \in DOMAIN part
    <3>1. PICK r : r = p \o q
      OBVIOUS
    <3>2. Len(q) \in Nat \ {0} /\ Len(p) \in Nat /\ r \in Seq({1, 2}) /\ Len(r) = Len(p) + Len(q)
      BY <1>2, <2>1, <2>3, <3>1, EmptySeq
    <3>3. SubSeq(r, 1, Len(r) - 1) \in DOMAIN ty
      <4>1. r # <<>> /\ r \in DOMAIN ty
        BY <2>1, <3>1, <3>2
      <4>2. QED
        BY <4>1 DEF IsTree
    <3>4. PICK s : s = SubSeq(q, 1, Len(q) - 1)
      OBVIOUS
    <3>5. s \in Seq({1, 2}) /\ Len(s) = Len(q) - 1 /\ \A j \in 1 .. Len(s) : s[j] = q[j]
      <4>1. \A j \in 1 .. (Len(q) - 1) : q[j] \in {1, 2}
        BY <2>1, <3>2, ElementOfSeq
      <4>2. PICK last \in Nat : last = Len(q) - 1
        <5>1. PICK len : len = Len(q)
          OBVIOUS
        <5>2. len \in Nat /\ len # 0
          BY <3>2, <5>1
        <5>3. len - 1 \in Nat
          BY <5>2
        <5>4. QED
          BY <5>1, <5>3
      <4>3. /\ SubSeq(q, 1, last) \in Seq({1, 2}) /\ Len(SubSeq(q, 1, last)) = last
            /\ \A j \in 1 .. last : SubSeq(q, 1, last)[j] = q[1 + j - 1]
        BY <4>1, <4>2, SubSeqProperties
      <4>4. QED
        BY <3>4, <4>2, <4>3
    <3>6. p \o s = SubSeq(r, 1, Len(r) - 1)
      <4>1. PICK last \in Nat : last = Len(r) - 1
        <5>1. PICK len : len = Len(r)
          OBVIOUS
        <5>2. len \in Nat /\ len # 0
          BY <3>2, <5>1
        <5>3. len - 1 \in Nat
          BY <5>2
        <5>4. QED
          BY <5>1, <5>3
      <4>2. \A j \in 1 .. last : r[j] \in {1, 2}
        BY <3>2, <4>1, ElementOfSeq
      <4>3. /\ SubSeq(r, 1, last) \in Seq({1, 2}) /\ Len(SubSeq(r, 1, last)) = last
            /\ \A j \in 1 .. last : SubSeq(r, 1, last)[j] = r[1 + j - 1]
        BY <4>1, <4>2, SubSeqProperties
      <4>4. p \o s \in Seq({1, 2}) /\ Len(p \o s) = last
        <5>1. p \o s \in Seq({1, 2}) /\ Len(p \o s) = Len(p) + Len(s)
          BY <1>2, <3>5, ConcatProperties
        <5>2. QED
          BY <3>2, <3>5, <4>1, <5>1
      <4>5. ASSUME NEW j \in 1 .. last PROVE (p \o s)[j] = r[j]
        <5>1. /\ (p \o s)[j] = IF j <= Len(p) THEN p[j] ELSE s[j - Len(p)]
              /\ r[j] = IF j <= Len(p) THEN p[j] ELSE q[j - Len(p)]
          <6>1. j \in 1 .. (Len(p) + Len(s)) /\ j \in 1 .. (Len(p) + Len(q))
            BY <3>2, <3>5, <4>1
          <6>2. QED
            BY <1>2, <2>1, <3>1, <3>5, <6>1, ConcatProperties
        <5>2. ~ j <= Len(p) => j - Len(p) \in 1 .. Len(s)
          BY <3>2, <3>5, <4>1
        <5>3. QED
          BY <3>5, <5>1, <5>2
      <4>6. QED
        BY <4>1, <4>3, <4>4, <4>5, SeqEqual
    <3>7. QED
      BY <1>3, <3>3, <3>4, <3>5, <3>6
  <2>4. ASSUME NEW i \in {1, 2} PROVE q \o <<i>> \in DOMAIN part <=> i <= Arity(part[q].k)
    <3>1. p \o (q \o <<i>>) = (p \o q) \o <<i>> /\ q \o <<i>> \in Seq({1, 2})
      BY <1>2, <2>1, <2>4
    <3>2. (p \o q) \o <<i>> \in DOMAIN ty <=> i <= Arity(ty[p \o q].k)
      BY <2>1, <2>4 DEF IsTree
    <3>3. QED
      BY <1>3, <2>1, <3>1, <3>2
  <2>5. QED
    BY <2>2, <2>3, <2>4
<1>8. IsTree(part)
  BY <1>3, <1>4, <1>6, <1>7 DEF IsTree
<1>9. Refs(part) \subseteq Refs(ty)
  <2>1. Range(part) \subseteq Range(ty)
    BY <1>3 DEF Range
  <2>2. QED
    BY <2>1 DEF Refs
<1>10. QED
  BY <1>1, <1>6, <1>8, <1>9 DEF Root

(* The types of a lowered schema. *)
LEMMA DefTrees ==
  ASSUME NEW text, Parsed(text), NEW t, TableOK(text, t),
         NEW id \in DOMAIN t.types, NEW ty \in TypesOf(DefsOf(t)[id])
  PROVE  IsTree(ty)
<1>1. ty \in TypesOf(LowerDef(t, id, t.types[id], t.types[id].item))
  BY SortedBody DEF RawDefs
<1>2. PICK w \in TypesOf(t.types[id].item) : \E clean : IsLoweredFrom(t, ty, w, clean)
  BY <1>1, LoweredTypes DEF TypesLoweredFrom
<1>3. PICK source, scope : ty = LowerType(t, source, scope, w)
  BY <1>2 DEF IsLoweredFrom
<1>4. t.types[id].item \in ItemsOf(text)
  BY DEF TableOK, SiteOK
<1>5. PICK from \in Range(text) : t.types[id].item \in Range(from.items)
  BY <1>4 DEF ItemsOf
<1>6. PICK j \in DOMAIN from.items : t.types[id].item = from.items[j]
  BY <1>5 DEF Range
<1>7. IsTree(w)
  BY <1>2, <1>6 DEF Parsed
<1>8. QED
  BY <1>3, <1>7, LoweredTree

(* The forms of a lowered schema. *)
LEMMA DefForms ==
  ASSUME NEW text, Parsed(text), NEW t, TableOK(text, t), NEW id \in DOMAIN t.types
  PROVE  LET def == DefsOf(t)[id]
         IN /\ def.tag \in DefTags
            /\ def.tag = "union" => \A v \in DOMAIN def.variants : def.variants[v].data.form \in DataForms
<1>1. PICK item, def : item = t.types[id].item /\ def = DefsOf(t)[id]
  OBVIOUS
<1>2. item \in ItemsOf(text) /\ item.tag # "const"
  BY <1>1 DEF TableOK, SiteOK
<1>3. PICK from \in Range(text) : item \in Range(from.items)
  BY <1>2 DEF ItemsOf
<1>4. PICK j \in DOMAIN from.items : item = from.items[j]
  BY <1>3 DEF Range
<1>5. /\ item.tag \in DefTags \cup {"const"}
      /\ item.tag = "union" => \A v \in DOMAIN item.variants : item.variants[v].data.form \in DataForms
  BY <1>4 DEF Parsed
<1>6. def.tag = item.tag
  BY <1>1, SortedBody
<1>7. ASSUME item.tag = "union"
      PROVE  \A v \in DOMAIN def.variants : def.variants[v].data.form \in DataForms
  <2>1. RawDefs(t)[id] = LowerDef(t, id, t.types[id], item) /\ RawDefs(t)[id].tag = item.tag
    BY <1>1, LoweredHead DEF RawDefs
  <2>2. def = LowerDef(t, id, t.types[id], item)
    BY <1>1, <1>7, <2>1, DefsAreSorted
  <2>3. PICK body : body = LowerBody(t, id, t.types[id], item)
    OBVIOUS
  <2>4. body = [variants |->
                  [v \in DOMAIN item.variants |->
                     [name |-> item.variants[v].name,
                      data |-> LowerData(t, t.types[id].source, id, item.variants[v].data)]]]
    BY <1>7, <2>3 DEF LowerBody
  <2>5. def.variants = body.variants
    <3>1. "variants" \in DOMAIN body
      BY <2>4
    <3>2. QED
      BY <2>2, <2>3, <3>1, LoweredBody
  <2>6. ASSUME NEW v \in DOMAIN item.variants
        PROVE  LowerData(t, t.types[id].source, id, item.variants[v].data).form = item.variants[v].data.form
    BY DEF LowerData
  <2>7. QED
    BY <1>5, <1>7, <2>4, <2>5, <2>6
<1>8. QED
  BY <1>1, <1>2, <1>5, <1>6, <1>7

(* The types that must be of a fixed size. *)
ChecksOf(schema) == UNION {DefChecks(schema[id]) : id \in DOMAIN schema}

(* Every type that must be fixed is.                                        *)
AllFixed(schema) == \A ty \in ChecksOf(schema) : IsFixed(schema, ty)

(* What each phase knows of the checks, the graph, its rings and the sizes. *)
CheckedInv ==
  /\ phase = "names" => checks = {}
  /\ phase \in {"lower", "fixed"} => checks = ChecksOf(defs)
  /\ phase \in {"cycles", "search", "wire", "done"} /\ errors = {} => AllFixed(defs)
  /\ phase = "search" => graph = References(defs) /\ errors = {}
  /\ phase \in {"wire", "done"} /\ errors = {} => ~ HasRing(References(defs))
  /\ phase = "done" /\ errors = {} => sizes = DefSizes(defs)

(* Sorting links leaves the checks alone. *)
LEMMA SortedChecks ==
  ASSUME NEW t
  PROVE  ChecksOf(DefsOf(t)) = ChecksOf(RawDefs(t))
<1>1. DOMAIN DefsOf(t) = DOMAIN t.types /\ DOMAIN RawDefs(t) = DOMAIN t.types
  BY DefsAreSorted
<1>2. ASSUME NEW id \in DOMAIN t.types
      PROVE  DefChecks(DefsOf(t)[id]) = DefChecks(RawDefs(t)[id])
  <2>1. PICK raw, def : raw = RawDefs(t)[id] /\ def = DefsOf(t)[id]
    OBVIOUS
  <2>2. def.tag = raw.tag
    <3>1. raw = LowerDef(t, id, t.types[id], t.types[id].item)
      BY <2>1 DEF RawDefs
    <3>2. QED
      BY <2>1, <3>1, SortedBody, LoweredHead
  <2>3. CASE raw.tag # "message"
    BY <2>1, <2>3, <1>2, DefsAreSorted
  <2>4. CASE raw.tag = "message"
    <3>1. BodyTypes(def) = BodyTypes(raw)
      BY <2>1, SortedBody
    <3>2. QED
      BY <2>1, <2>2, <2>4, <3>1 DEF DefChecks
  <2>5. QED
    BY <2>3, <2>4
<1>3. QED
  BY <1>1, <1>2 DEF ChecksOf

(* It holds before anything is compiled.                                    *)
LEMMA CheckedInit == Init => CheckedInv
BY DEF Init, CheckedInv

(* Every step keeps it.                                                     *)
LEMMA CheckedNext ==
  ASSUME CompilerInv, CyclesExactly, CheckedInv, [Next]_vars
  PROVE  CheckedInv'
<1>1. CASE ResolveNames
  <2>1. defs = <<>> /\ checks = {} /\ phase' = "lower" /\ UNCHANGED <<defs, checks>>
    BY <1>1 DEF ResolveNames, CompilerInv, CheckedInv
  <2>2. ChecksOf(<<>>) = {}
    BY DEF ChecksOf
  <2>3. QED
    BY <2>1, <2>2 DEF CheckedInv
<1>2. CASE LowerNextDef
  <2>1. phase = "lower" /\ phase' = "lower"
    BY <1>2 DEF LowerNextDef
  <2>2. PICK id \in DOMAIN table.types :
          /\ id = Len(defs) + 1
          /\ defs' = Append(defs, LowerDef(table, id, table.types[id], table.types[id].item))
          /\ checks' = checks \cup DefChecks(defs'[id])
    BY <1>2 DEF LowerNextDef
  <2>3. PICK n \in Nat : n = Len(defs) /\ DOMAIN defs = 1 .. n
    BY <2>1, SeqFacts DEF CompilerInv
  <2>4. /\ DOMAIN defs' = 1 .. (n + 1) /\ \A k \in 1 .. n : defs'[k] = defs[k]
    BY <2>1, <2>2, <2>3, AppendSeq, SeqFacts DEF CompilerInv
  <2>5. \A k \in 1 .. (n + 1) : k = id \/ k \in 1 .. n
    BY <2>2, <2>3
  <2>6. id \in DOMAIN defs' /\ \A k \in DOMAIN defs : k \in DOMAIN defs' /\ defs'[k] = defs[k]
    BY <2>2, <2>3, <2>4
  <2>7. ChecksOf(defs') = ChecksOf(defs) \cup DefChecks(defs'[id])
    BY <2>3, <2>4, <2>5, <2>6 DEF ChecksOf
  <2>8. QED
    BY <2>1, <2>2, <2>7 DEF CheckedInv
<1>3. CASE LowerNextConst
  BY <1>3 DEF LowerNextConst, CheckedInv
<1>4. CASE SortKinds
  <2>1. /\ phase = "lower" /\ phase' = "fixed" /\ DOMAIN defs = DOMAIN table.types
        /\ UNCHANGED <<table, checks>> /\ checks = ChecksOf(defs)
    BY <1>4 DEF SortKinds, CheckedInv
  <2>2. defs' = DefsOf(table)
    BY <1>4, <2>1, SortKindsInv DEF CompilerInv
  <2>3. defs = RawDefs(table)
    <3>1. /\ IsSeq(defs)
          /\ \A id \in DOMAIN defs :
               defs[id] = LowerDef(table, id, table.types[id], table.types[id].item)
      BY <2>1 DEF CompilerInv
    <3>2. defs = [id \in DOMAIN defs |-> defs[id]]
      BY <3>1 DEF IsSeq
    <3>3. defs = [id \in DOMAIN table.types |->
                    LowerDef(table, id, table.types[id], table.types[id].item)]
      BY <2>1, <3>1, <3>2
    <3>4. QED
      BY <3>3 DEF RawDefs
  <2>4. ChecksOf(defs') = ChecksOf(defs)
    BY <2>2, <2>3, SortedChecks
  <2>5. QED
    BY <2>1, <2>4 DEF CheckedInv
<1>5. CASE CheckFixed
  <2>1. /\ phase = "fixed" /\ phase' = "cycles" /\ UNCHANGED defs
        /\ errors' = errors \cup Error(\E ty \in checks : ~ IsFixed(defs, ty), "variable-size")
        /\ checks = ChecksOf(defs)
    BY <1>5 DEF CheckFixed, CheckedInv
  <2>2. errors' = {} => AllFixed(defs)
    BY <2>1 DEF Error, AllFixed
  <2>3. QED
    BY <2>1, <2>2 DEF CheckedInv, AllFixed, ChecksOf
<1>6. CASE CheckCycles
  BY <1>6 DEF CheckCycles, StartSearch, CheckedInv, AllFixed, ChecksOf
<1>7. CASE SearchCycles
  <2>1. UNCHANGED graph
    BY <1>7 DEF SearchCycles, Search, VisitNext, VisitTarget, Visit, Return
  <2>2. QED
    BY <1>7, <2>1 DEF SearchCycles, CheckedInv, AllFixed, ChecksOf
<1>8. CASE ReportCycles
  <2>1. /\ phase = "search" /\ Searched /\ errors' = Error(recursive # {}, "recursive")
        /\ phase' = "wire" /\ UNCHANGED defs
    BY <1>8 DEF ReportCycles
  <2>2. graph = References(defs) /\ AllFixed(defs)
    BY <2>1 DEF CheckedInv
  <2>3. errors' = {} => ~ HasRing(References(defs))
    BY <2>1, <2>2 DEF CyclesExactly, Error
  <2>4. QED
    BY <2>1, <2>2, <2>3 DEF CheckedInv, AllFixed, ChecksOf
<1>9. CASE CheckWire
  BY <1>9 DEF CheckWire, CheckedInv, AllFixed, ChecksOf
<1>10. CASE Reject
  BY <1>10 DEF Reject, CheckedInv
<1>11. CASE UNCHANGED vars
  BY <1>11 DEF vars, searchVars, CheckedInv, AllFixed, ChecksOf
<1>12. QED
  BY <1>1, <1>2, <1>3, <1>4, <1>5, <1>6, <1>7, <1>8, <1>9, <1>10, <1>11 DEF Next

(* The checks of lowering are made on what was lowered, the search for      *)
(* rings on its references, and the sizes of an accepted schema are those   *)
(* of its declarations.                                                     *)
THEOREM CheckedInvariance == Spec => []CheckedInv
<1>1. CompilerInv /\ CyclesExactly /\ CheckedInv /\ [Next]_vars => CheckedInv'
  BY CheckedNext
<1>2. QED
  BY <1>1, CheckedInit, CompilerInvariance, CompilerFindsCycles, PTL DEF Spec

(* An accepted schema. *)
LEMMA AcceptedSound ==
  ASSUME CompilerInv, CheckedInv, Accepted
  PROVE  /\ IsSound(defs) /\ SizesOf(defs, sizes)
         /\ \A id \in DOMAIN defs : \A ty \in TypesOf(defs[id]) :
              /\ IsTree(ty) /\ Refs(ty) \subseteq DOMAIN defs
              /\ \A other \in Refs(ty) : defs[other].tag # "message"
<1>1. phase \notin {"names", "lower"} /\ phase = "done" /\ errors = {}
  BY DEF Accepted
<1>2. Parsed(sources) /\ TableOK(sources, table) /\ defs = DefsOf(table)
  BY <1>1, TableKnown DEF CompilerInv
<1>3. PICK n \in Nat : DOMAIN table.types = 1 .. n
  BY <1>2, SeqFacts DEF TableOK
<1>4. DOMAIN defs = 1 .. n /\ DOMAIN defs = DOMAIN table.types
  BY <1>2, <1>3, DefsAreSorted
<1>5. \A id \in DOMAIN defs : \A ty \in TypesOf(defs[id]) :
        /\ IsTree(ty) /\ Refs(ty) \subseteq DOMAIN defs
        /\ \A other \in Refs(ty) : defs[other].tag # "message"
  BY <1>2, <1>4, DefTrees, DefsRefs
<1>6. Len(defs) \in Nat
  <2>1. defs = [id \in 1 .. n |-> defs[id]]
    BY <1>2, <1>4, DefsAreSorted DEF SortLinks
  <2>2. defs \in Seq({defs[id] : id \in 1 .. n})
    BY <2>1
  <2>3. QED
    BY <2>2, LenProperties
<1>7. IsGraph(References(defs)) /\ IsFiniteSet(DOMAIN defs)
  BY AcceptedGraphs
<1>8. ~ HasRing(References(defs)) /\ sizes = DefSizes(defs)
  BY <1>1 DEF CheckedInv
<1>9. ASSUME NEW id \in DOMAIN defs
      PROVE  /\ defs[id].tag \in DefTags
             /\ AreTrees(BodyTypes(defs[id]))
             /\ defs[id].tag = "union" =>
                  \A v \in DOMAIN defs[id].variants : defs[id].variants[v].data.form \in DataForms
             /\ \A other \in DirectRefs(defs[id]) : defs[other].tag # "message"
  <2>1. BodyTypes(defs[id]) \subseteq TypesOf(defs[id])
    BY DEF TypesOf
  <2>2. AreTrees(BodyTypes(defs[id])) /\ \A other \in DirectRefs(defs[id]) : defs[other].tag # "message"
    BY <1>5, <2>1 DEF AreTrees, DirectRefs
  <2>3. QED
    BY <1>2, <1>4, <2>2, DefForms
<1>10. IsSound(defs)
  BY <1>6, <1>7, <1>8, <1>9 DEF IsSound
<1>11. QED
  BY <1>5, <1>8, <1>10, DefSizesExist

(* A part of a type of an accepted schema is a tree and refers to no        *)
(* message, and both ways to tell whether it is of a fixed size agree on it. *)
LEMMA PartAgrees ==
  ASSUME CompilerInv, CheckedInv, Accepted, NEW part \in AllParts
  PROVE  /\ IsTree(part) /\ IsFixed(defs, part) = TypeSize(sizes, part).fixed
         /\ Refs(part) \subseteq DOMAIN defs /\ \A other \in Refs(part) : defs[other].tag # "message"
<1>1. PICK id \in DOMAIN defs : \E ty \in TypesOf(defs[id]) : part \in Parts(ty)
  BY DEF AllParts, AllTypes
<1>2. PICK ty \in TypesOf(defs[id]) : part \in Parts(ty)
  BY <1>1
<1>3. PICK p \in DOMAIN ty : part = PartAt(ty, p)
  BY <1>2 DEF Parts
<1>4. /\ IsTree(ty) /\ Refs(ty) \subseteq DOMAIN defs
      /\ \A other \in Refs(ty) : defs[other].tag # "message"
  BY <1>1, <1>2, AcceptedSound
<1>5. IsTree(part) /\ Refs(part) \subseteq Refs(ty)
  BY <1>3, <1>4, PartIsTree
<1>6. IsSound(defs) /\ SizesOf(defs, sizes)
  BY AcceptedSound
<1>7. IsFixed(defs, part) = TypeSize(sizes, part).fixed
  BY <1>4, <1>5, <1>6, FixedAgrees
<1>8. QED
  BY <1>4, <1>5, <1>7

(* Schema::is_fixed_in and the wire layout tell the fixed-size types apart  *)
(* alike, whatever the sources of an accepted schema.                       *)
THEOREM FixedAlwaysAgrees == Spec => []FixedAgreesWithLayout
<1>1. CompilerInv /\ CheckedInv => FixedAgreesWithLayout
  BY PartAgrees DEF FixedAgreesWithLayout
<1>2. QED
  BY <1>1, CompilerInvariance, CheckedInvariance, PTL

-----------------------------------------------------------------------------
(* One element more. *)
LEMMA OneMore ==
  ASSUME NEW p \in Seq({1, 2}), NEW i \in {1, 2}
  PROVE  /\ p \o <<i>> \in Seq({1, 2}) /\ Len(p \o <<i>>) = Len(p) + 1
         /\ \A j \in 1 .. (Len(p) + 1) : (p \o <<i>>)[j] = IF j <= Len(p) THEN p[j] ELSE i
<1>1. PICK q \in Seq({1, 2}) : q = <<i>> /\ Len(q) = 1 /\ q[1] = i
  <2>1. <<i>> \in Seq({1, 2}) /\ Len(<<i>>) = 1 /\ <<i>>[1] = i
    OBVIOUS
  <2>2. QED
    BY <2>1
<1>2. PICK n \in Nat : n = Len(p)
  BY LenProperties
<1>3. /\ p \o q \in Seq({1, 2}) /\ Len(p \o q) = n + 1
      /\ \A j \in 1 .. (n + 1) : (p \o q)[j] = IF j <= n THEN p[j] ELSE q[j - n]
  BY <1>1, <1>2, ConcatProperties
<1>4. \A j \in 1 .. (n + 1) : j <= n \/ j - n = 1
  OBVIOUS
<1>5. QED
  BY <1>1, <1>2, <1>3, <1>4

(* The first elements of a sequence. *)
LEMMA FirstOnes ==
  ASSUME NEW p \in Seq({1, 2}), NEW m \in 0 .. Len(p)
  PROVE  /\ SubSeq(p, 1, m) \in Seq({1, 2}) /\ Len(SubSeq(p, 1, m)) = m
         /\ \A j \in 1 .. m : SubSeq(p, 1, m)[j] = p[j]
         /\ m = Len(p) => SubSeq(p, 1, m) = p
         /\ m > 0 => SubSeq(SubSeq(p, 1, m), 1, m - 1) = SubSeq(p, 1, m - 1)
         /\ m < Len(p) => SubSeq(p, 1, m + 1) = SubSeq(p, 1, m) \o <<p[m + 1]>>
         /\ \A i \in {1, 2} : SubSeq(p \o <<i>>, 1, m) = SubSeq(p, 1, m)
<1>1. PICK n \in Nat : n = Len(p)
  BY LenProperties
<1>2. \A k \in 0 .. n : /\ SubSeq(p, 1, k) \in Seq({1, 2}) /\ Len(SubSeq(p, 1, k)) = k
                        /\ \A j \in 1 .. k : SubSeq(p, 1, k)[j] = p[j]
  BY <1>1, SubSeqProperties
<1>3. m = n => SubSeq(p, 1, m) = p
  BY <1>1, <1>2, SeqEqual
<1>4. ASSUME m > 0 PROVE SubSeq(SubSeq(p, 1, m), 1, m - 1) = SubSeq(p, 1, m - 1)
  <2>1. PICK q \in Seq({1, 2}) : q = SubSeq(p, 1, m) /\ Len(q) = m /\ \A j \in 1 .. m : q[j] = p[j]
    BY <1>1, <1>2
  <2>2. /\ SubSeq(q, 1, m - 1) \in Seq({1, 2}) /\ Len(SubSeq(q, 1, m - 1)) = m - 1
        /\ \A j \in 1 .. (m - 1) : SubSeq(q, 1, m - 1)[j] = q[j]
    BY <1>4, <2>1, SubSeqProperties
  <2>7. m - 1 \in 0 .. n
    BY <1>1, <1>4
  <2>3. PICK r \in Seq({1, 2}) : r = SubSeq(p, 1, m - 1) /\ Len(r) = m - 1 /\ \A j \in 1 .. (m - 1) : r[j] = p[j]
    BY <1>2, <2>7
  <2>4. PICK s \in Seq({1, 2}) : s = SubSeq(q, 1, m - 1) /\ Len(s) = m - 1 /\ \A j \in 1 .. (m - 1) : s[j] = q[j]
    BY <2>2
  <2>5. s = r
    BY <1>1, <1>4, <2>1, <2>3, <2>4, SeqEqual
  <2>6. QED
    BY <2>1, <2>3, <2>4, <2>5
<1>5. ASSUME m < Len(p) PROVE SubSeq(p, 1, m + 1) = SubSeq(p, 1, m) \o <<p[m + 1]>>
  <2>1. PICK q \in Seq({1, 2}) : q = SubSeq(p, 1, m) /\ Len(q) = m /\ \A j \in 1 .. m : q[j] = p[j]
    BY <1>1, <1>2
  <2>9. m + 1 \in 0 .. n
    BY <1>1, <1>5
  <2>2. PICK r \in Seq({1, 2}) : r = SubSeq(p, 1, m + 1) /\ Len(r) = m + 1 /\ \A j \in 1 .. (m + 1) : r[j] = p[j]
    BY <1>2, <2>9
  <2>3. p[m + 1] \in {1, 2}
    BY <1>1, <1>5, ElementOfSeq
  <2>4. PICK s \in Seq({1, 2}) : /\ s = q \o <<p[m + 1]>> /\ Len(s) = m + 1
                                 /\ \A j \in 1 .. (m + 1) : s[j] = IF j <= m THEN q[j] ELSE p[m + 1]
    <3>1. PICK i \in {1, 2} : i = p[m + 1]
      BY <2>3
    <3>2. /\ q \o <<i>> \in Seq({1, 2}) /\ Len(q \o <<i>>) = m + 1
          /\ \A j \in 1 .. (m + 1) : (q \o <<i>>)[j] = IF j <= m THEN q[j] ELSE i
      BY <2>1, <3>1, OneMore
    <3>3. QED
      BY <3>1, <3>2
  <2>6. \A j \in 1 .. (m + 1) : s[j] = r[j]
    BY <2>1, <2>2, <2>4
  <2>7. s = r
    BY <2>2, <2>4, <2>6, SeqEqual
  <2>8. QED
    BY <2>1, <2>2, <2>4, <2>7
<1>6. ASSUME NEW i \in {1, 2} PROVE SubSeq(p \o <<i>>, 1, m) = SubSeq(p, 1, m)
  <2>1. PICK q \in Seq({1, 2}) : q = p \o <<i>> /\ Len(q) = n + 1 /\ \A j \in 1 .. n : q[j] = p[j]
    <3>1. PICK q \in Seq({1, 2}) : /\ q = p \o <<i>> /\ Len(q) = n + 1
                                   /\ \A j \in 1 .. (n + 1) : q[j] = IF j <= n THEN p[j] ELSE i
      BY <1>1, OneMore
    <3>2. \A j \in 1 .. n : j \in 1 .. (n + 1) /\ j <= n
      OBVIOUS
    <3>3. QED
      BY <3>1, <3>2
  <2>7. m \in 0 .. (n + 1)
    BY <1>1
  <2>2. PICK s \in Seq({1, 2}) : s = SubSeq(q, 1, m) /\ Len(s) = m /\ \A j \in 1 .. m : s[j] = q[j]
    <3>1. \A k \in 0 .. (n + 1) : /\ SubSeq(q, 1, k) \in Seq({1, 2}) /\ Len(SubSeq(q, 1, k)) = k
                                  /\ \A j \in 1 .. k : SubSeq(q, 1, k)[j] = q[j]
      BY <2>1, SubSeqProperties
    <3>2. QED
      BY <2>7, <3>1
  <2>3. PICK r \in Seq({1, 2}) : r = SubSeq(p, 1, m) /\ Len(r) = m /\ \A j \in 1 .. m : r[j] = p[j]
    BY <1>1, <1>2
  <2>4. s = r
    BY <1>1, <2>1, <2>2, <2>3, SeqEqual
  <2>5. QED
    BY <2>1, <2>2, <2>3, <2>4
<1>7. QED
  BY <1>1, <1>2, <1>3, <1>4, <1>5, <1>6

(* What an inline node stands below. *)
IsInline(ty, p) == ty[p].k # "array" /\ \A n \in 1 .. Len(p) : ty[SubSeq(p, 1, n - 1)].k = "array"

(* Every type has one. *)
LEMMA InlineFound ==
  ASSUME NEW ty, IsTree(ty)
  PROVE  \E p \in DOMAIN ty : IsInline(ty, p) /\ InlineNode(ty) = ty[p]
<1>1. SUFFICES \E p \in DOMAIN ty : IsInline(ty, p)
  <2>1. InlineNode(ty) = ty[CHOOSE p \in DOMAIN ty : IsInline(ty, p)]
    BY DEF InlineNode, IsInline
  <2>2. ASSUME NEW p \in DOMAIN ty, IsInline(ty, p)
        PROVE  /\ (CHOOSE q \in DOMAIN ty : IsInline(ty, q)) \in DOMAIN ty
               /\ IsInline(ty, CHOOSE q \in DOMAIN ty : IsInline(ty, q))
    BY <2>2
  <2>3. QED
    BY <2>1, <2>2
<1>2. SUFFICES ASSUME \A p \in DOMAIN ty : ~ IsInline(ty, p) PROVE FALSE
  OBVIOUS
<1> DEFINE ids == {p \in DOMAIN ty : /\ ty[p].k = "array"
                                     /\ \A n \in 1 .. Len(p) : ty[SubSeq(p, 1, n - 1)].k = "array"}
<1>3. <<>> \in ids
  <2>1. <<>> \in DOMAIN ty /\ Len(<<>>) = 0
    BY DEF IsTree
  <2>2. ty[<<>>].k = "array"
    BY <1>2, <2>1 DEF IsInline
  <2>3. QED
    BY <2>1, <2>2
<1>4. ASSUME NEW p \in ids PROVE p \o <<1>> \in ids
  <2>1. p \in Seq({1, 2}) /\ p \o <<1>> \in DOMAIN ty
    BY TreeArms
  <2>2. PICK q \in Seq({1, 2}) : q = p \o <<1>> /\ Len(q) = Len(p) + 1
    BY <2>1, OneMore
  <2>9. PICK m \in Nat : m = Len(p) /\ Len(q) = m + 1
    BY <2>1, <2>2, LenProperties
  <2>3. ASSUME NEW n \in 1 .. Len(q) PROVE ty[SubSeq(q, 1, n - 1)].k = "array"
    <3>1. n - 1 \in 0 .. m
      BY <2>9
    <3>2. PICK l \in 0 .. m : l = n - 1
      BY <3>1
    <3>4. SubSeq(q, 1, l) = SubSeq(p, 1, l) /\ (l = m => SubSeq(p, 1, l) = p)
      BY <2>1, <2>2, <2>9, FirstOnes
    <3>5. CASE l = m
      BY <1>4, <3>2, <3>4, <3>5
    <3>6. CASE l # m
      <4>1. l + 1 \in 1 .. m /\ (l + 1) - 1 = l
        BY <3>6
      <4>2. ty[SubSeq(p, 1, l)].k = "array"
        BY <1>4, <2>9, <4>1
      <4>3. QED
        BY <3>2, <3>4, <4>2
    <3>7. QED
      BY <3>5, <3>6
  <2>4. ty[q].k = "array"
    BY <1>2, <2>1, <2>2, <2>3 DEF IsInline
  <2>5. QED
    BY <2>1, <2>2, <2>3, <2>4
<1>5. ASSUME NEW p \in ids PROVE DirectParts(ty)[p] \cap ids # {}
  <2>1. p \o <<1>> \in ids
    BY <1>4
  <2>2. p \o <<1>> \in DirectParts(ty)[p]
    BY <2>1, TreeArms
  <2>3. QED
    BY <2>1, <2>2
<1>6. DOMAIN DirectParts(ty) = DOMAIN ty /\ ids \subseteq DOMAIN ty
  BY DEF DirectParts
<1> HIDE DEF ids
<1>7. Ring(DirectParts(ty), ids)
  BY <1>3, <1>5 DEF Ring
<1>8. QED
  BY <1>6, <1>7, TreeEnds DEF HasRing

(* A type without collections is a line of arrays.                          *)
LEMMA ArraysInLine ==
  ASSUME NEW ty, IsTree(ty), \A q \in DOMAIN ty : ty[q].k \notin {"vec", "set", "map"},
         NEW p \in DOMAIN ty
  PROVE  \A m \in 0 .. (Len(p) - 1) : p[m + 1] = 1 /\ ty[SubSeq(p, 1, m)].k = "array"
<1>1. p \in Seq({1, 2})
  BY TreeArms
<1>2. PICK n \in Nat : n = Len(p)
  BY <1>1, LenProperties
<1> DEFINE S == {k \in 0 .. n : SubSeq(p, 1, n - k) \in DOMAIN ty}
<1>3. 0 \in S
  <2>1. SubSeq(p, 1, n) = p
    <3>1. n \in 0 .. Len(p)
      BY <1>2
    <3>2. QED
      BY <1>1, <1>2, <3>1, FirstOnes
  <2>2. n - 0 = n /\ 0 \in 0 .. n
    OBVIOUS
  <2>3. SubSeq(p, 1, n - 0) \in DOMAIN ty
    BY <2>1, <2>2
  <2>4. QED
    BY <2>2, <2>3
<1>4. ASSUME NEW k \in 1 .. n, k - 1 \in S PROVE k \in S
  <2>9. n - (k - 1) \in 1 .. n /\ (n - (k - 1)) - 1 = n - k
    BY <1>2
  <2>1. PICK m \in 1 .. n : m = n - (k - 1) /\ m - 1 = n - k
    BY <2>9
  <2>2. PICK q : q = SubSeq(p, 1, m) /\ q \in DOMAIN ty /\ Len(q) = m
    <3>1. m \in 0 .. Len(p)
      BY <1>2, <2>1
    <3>2. Len(SubSeq(p, 1, m)) = m
      BY <1>1, <3>1, FirstOnes
    <3>3. QED
      BY <1>4, <2>1, <3>2
  <2>3. SubSeq(q, 1, m - 1) = SubSeq(p, 1, m - 1)
    <3>1. m \in 0 .. Len(p) /\ m > 0
      BY <1>2, <2>1
    <3>2. QED
      BY <1>1, <2>2, <3>1, FirstOnes
  <2>4. q # <<>>
    <3>1. Len(<<>>) = 0 /\ m # 0
      OBVIOUS
    <3>2. QED
      BY <2>2, <3>1
  <2>5. SubSeq(q, 1, Len(q) - 1) \in DOMAIN ty
    BY <2>2, <2>4 DEF IsTree
  <2>6. SubSeq(p, 1, n - k) \in DOMAIN ty
    BY <2>1, <2>2, <2>3, <2>5
  <2>7. k \in 0 .. n
    OBVIOUS
  <2>8. QED
    BY <2>6, <2>7
<1> HIDE DEF S
<1>5. \A k \in 0 .. n : k \in S
  BY <1>3, <1>4, UpTo
<1>6. ASSUME NEW m \in 0 .. n PROVE SubSeq(p, 1, m) \in DOMAIN ty
  <2>1. n - m \in S /\ n - (n - m) = m
    BY <1>5
  <2>2. QED
    BY <2>1 DEF S
<1>7. ASSUME NEW m \in 0 .. (n - 1) PROVE p[m + 1] = 1 /\ ty[SubSeq(p, 1, m)].k = "array"
  <2>1. PICK q, i : q = SubSeq(p, 1, m) /\ i = p[m + 1]
    OBVIOUS
  <2>2. i \in {1, 2}
    BY <1>1, <1>2, <2>1, ElementOfSeq
  <2>3. q \in DOMAIN ty /\ q \o <<i>> \in DOMAIN ty
    <3>1. SubSeq(p, 1, m + 1) = q \o <<i>>
      <4>1. m \in 0 .. Len(p) /\ m < Len(p)
        BY <1>2
      <4>2. QED
        BY <1>1, <2>1, <4>1, FirstOnes
    <3>2. m \in 0 .. n /\ m + 1 \in 0 .. n
      OBVIOUS
    <3>3. QED
      BY <1>6, <2>1, <3>1, <3>2
  <2>4. ty[q].k \notin {"vec", "set", "map"}
    BY <2>3
  <2>5. i # 2
    BY <2>3, <2>4, TreeArms
  <2>6. QED
    BY <2>1, <2>2, <2>3, <2>4, <2>5, TreeArms
<1>8. QED
  BY <1>2, <1>7

(* Its inline node is all it has but arrays. *)
LEMMA InlineOnly ==
  ASSUME NEW ty, IsTree(ty), \A q \in DOMAIN ty : ty[q].k \notin {"vec", "set", "map"},
         NEW p \in DOMAIN ty, ty[p].k # "array"
  PROVE  ty[p] = InlineNode(ty)
<1>1. PICK q \in DOMAIN ty : IsInline(ty, q) /\ InlineNode(ty) = ty[q]
  BY InlineFound
<1>2. ty[q].k # "array"
  BY <1>1 DEF IsInline
<1>3. p \in Seq({1, 2}) /\ q \in Seq({1, 2})
  BY TreeArms
<1>4. PICK m \in Nat, n \in Nat : m = Len(p) /\ n = Len(q)
  BY <1>3, LenProperties
<1>5. /\ \A k \in 0 .. (m - 1) : p[k + 1] = 1 /\ ty[SubSeq(p, 1, k)].k = "array"
      /\ \A k \in 0 .. (n - 1) : q[k + 1] = 1 /\ ty[SubSeq(q, 1, k)].k = "array"
  BY <1>4, ArraysInLine
<1>6. (\A j \in 1 .. m : p[j] = 1) /\ \A j \in 1 .. n : q[j] = 1
  <2>1. ASSUME NEW j \in 1 .. m PROVE p[j] = 1
    <3>1. j - 1 \in 0 .. (m - 1) /\ (j - 1) + 1 = j
      OBVIOUS
    <3>2. QED
      BY <1>5, <3>1
  <2>2. ASSUME NEW j \in 1 .. n PROVE q[j] = 1
    <3>1. j - 1 \in 0 .. (n - 1) /\ (j - 1) + 1 = j
      OBVIOUS
    <3>2. QED
      BY <1>5, <3>1
  <2>3. QED
    BY <2>1, <2>2
<1>7. CASE m < n
  <2>1. PICK r \in Seq({1, 2}) : r = SubSeq(q, 1, m) /\ Len(r) = m /\ \A j \in 1 .. m : r[j] = q[j]
    <3>1. m \in 0 .. Len(q)
      BY <1>4, <1>7
    <3>2. /\ SubSeq(q, 1, m) \in Seq({1, 2}) /\ Len(SubSeq(q, 1, m)) = m
          /\ \A j \in 1 .. m : SubSeq(q, 1, m)[j] = q[j]
      BY <1>3, <3>1, FirstOnes
    <3>3. QED
      BY <3>2
  <2>2. r = p
    BY <1>3, <1>4, <1>6, <1>7, <2>1, SeqEqual
  <2>3. QED
    <3>1. m \in 0 .. (n - 1)
      BY <1>7
    <3>2. QED
      BY <1>5, <2>1, <2>2, <3>1
<1>8. CASE n < m
  <2>1. PICK r \in Seq({1, 2}) : r = SubSeq(p, 1, n) /\ Len(r) = n /\ \A j \in 1 .. n : r[j] = p[j]
    <3>1. n \in 0 .. Len(p)
      BY <1>4, <1>8
    <3>2. /\ SubSeq(p, 1, n) \in Seq({1, 2}) /\ Len(SubSeq(p, 1, n)) = n
          /\ \A j \in 1 .. n : SubSeq(p, 1, n)[j] = p[j]
      BY <1>3, <3>1, FirstOnes
    <3>3. QED
      BY <3>2
  <2>2. r = q
    BY <1>3, <1>4, <1>6, <1>8, <2>1, SeqEqual
  <2>3. QED
    <3>1. n \in 0 .. (m - 1)
      BY <1>8
    <3>2. QED
      BY <1>2, <1>5, <2>1, <2>2, <3>1
<1>9. CASE m = n
  <2>1. p = q
    BY <1>3, <1>4, <1>6, <1>9, SeqEqual
  <2>2. QED
    BY <1>1, <2>1
<1>10. QED
  BY <1>4, <1>7, <1>8, <1>9

-----------------------------------------------------------------------------
(* What a type names inline. *)
InlineNamed(t, source, scope, ty) ==
  IF InlineNode(ty).k = "named" THEN Resolve(t, source, scope, InlineNode(ty).path) ELSE {}

(* A path names one declaration at most, so only it is looked up. *)
LEMMA InlineLocal ==
  ASSUME NEW t, NEW source, NEW scope, NEW ty, NEW visited, NEW f, NEW g,
         \A id \in InlineNamed(t, source, scope, ty) : f[id] = g[id]
  PROVE  InlineFloat(t, source, scope, ty, visited, f) = InlineFloat(t, source, scope, ty, visited, g)
<1>1. PICK node : node = InlineNode(ty)
  OBVIOUS
<1>2. PICK named : named = IF node.k = "named" THEN Resolve(t, source, scope, node.path) \ visited ELSE {}
  OBVIOUS
<1>3. \A h : InlineFloat(t, source, scope, ty, visited, h)
               = IF named = {} THEN [float |-> node.k \in FloatKinds, visited |-> visited]
                 ELSE h[CHOOSE id \in named : TRUE][visited]
  BY <1>1, <1>2 DEF InlineFloat
<1>4. ASSUME named # {} PROVE f[CHOOSE id \in named : TRUE] = g[CHOOSE id \in named : TRUE]
  <2>1. PICK id : id = CHOOSE x \in named : TRUE
    OBVIOUS
  <2>2. id \in named
    BY <1>4, <2>1
  <2>3. id \in InlineNamed(t, source, scope, ty)
    BY <1>1, <1>2, <2>2 DEF InlineNamed
  <2>4. QED
    BY <2>1, <2>3
<1>5. QED
  BY <1>3, <1>4

(* The recursion of FieldsFloat. *)
FieldStep(t, id, visited, holds, after, k) ==
  IF k = 0 THEN [float |-> FALSE, visited |-> visited]
  ELSE IF after[k - 1].float THEN after[k - 1]
  ELSE InlineFloat(t, t.types[id].source, id, t.types[id].item.fields[k].ty, after[k - 1].visited, holds)

(* What the fields of a struct leave behind, one after the other. *)
FieldsAfter(t, id, visited, holds) ==
  CHOOSE after : after = [k \in 0 .. Len(t.types[id].item.fields) |->
                            FieldStep(t, id, visited, holds, after, k)]

(* FieldsFloat is where it ends. *)
LEMMA FieldsFloatIsAfter ==
  ASSUME NEW t, NEW id, NEW visited, NEW holds
  PROVE  FieldsFloat(t, id, visited, holds)
           = FieldsAfter(t, id, visited, holds)[Len(t.types[id].item.fields)]
BY DEF FieldsFloat, FieldsAfter, FieldStep

(* The recursion counts up, so it has a solution. *)
LEMMA AfterExists ==
  ASSUME NEW t, NEW id, NEW visited, NEW holds, NEW n \in Nat, n = Len(t.types[id].item.fields)
  PROVE  LET after == FieldsAfter(t, id, visited, holds)
         IN after = [k \in 0 .. n |-> FieldStep(t, id, visited, holds, after, k)]
<1> DEFINE Step(f, k) == FieldStep(t, id, visited, holds, f, k)
           Solves(f, m) == \A k \in 0 .. m : f[k] = Step(f, k)
           Solved == {m \in 0 .. n : \E f : f = [k \in 0 .. n |-> f[k]] /\ Solves(f, m)}
<1>1. ASSUME NEW f, NEW g, NEW k \in Nat, k > 0 => f[k - 1] = g[k - 1]
      PROVE  Step(f, k) = Step(g, k)
  BY <1>1 DEF FieldStep
<1> HIDE DEF Step
<1>2. 0 \in Solved
  <2>1. PICK f : f = [k \in 0 .. n |-> Step(<<>>, k)]
    OBVIOUS
  <2>2. f[0] = Step(f, 0)
    <3>1. Step(<<>>, 0) = Step(f, 0)
      BY <1>1
    <3>2. QED
      BY <2>1, <3>1
  <2>3. f = [k \in 0 .. n |-> f[k]] /\ Solves(f, 0)
    BY <2>1, <2>2
  <2>4. QED
    BY <2>3
<1>3. ASSUME NEW m \in 1 .. n, m - 1 \in Solved PROVE m \in Solved
  <2>1. PICK f : f = [k \in 0 .. n |-> f[k]] /\ Solves(f, m - 1)
    BY <1>3
  <2>2. PICK g : g = [k \in 0 .. n |-> IF k = m THEN Step(f, m) ELSE f[k]]
    OBVIOUS
  <2>3. \A k \in 0 .. (m - 1) : g[k] = f[k]
    BY <2>2
  <2>4. \A k \in 0 .. m : Step(f, k) = Step(g, k)
    <3>1. \A k \in 0 .. m : k \in Nat /\ (k > 0 => f[k - 1] = g[k - 1])
      BY <2>3
    <3>2. QED
      BY <1>1, <3>1
  <2>5. \A k \in 0 .. m : g[k] = Step(g, k)
    <3>1. g[m] = Step(g, m)
      BY <2>2, <2>4
    <3>2. \A k \in 0 .. (m - 1) : g[k] = Step(g, k)
      <4>1. \A k \in 0 .. (m - 1) : k \in 0 .. m /\ f[k] = Step(f, k)
        BY <2>1
      <4>2. QED
        BY <2>3, <2>4, <4>1
    <3>3. \A k \in 0 .. m : k = m \/ k \in 0 .. (m - 1)
      OBVIOUS
    <3>4. QED
      BY <3>1, <3>2, <3>3
  <2>6. g = [k \in 0 .. n |-> g[k]]
    BY <2>2
  <2>7. QED
    BY <2>5, <2>6
<1> HIDE DEF Solved
<1>4. n \in Solved
  <2>1. \A k \in 0 .. n : k \in Solved
    BY <1>2, <1>3, UpTo
  <2>2. QED
    BY <2>1
<1>5. PICK f : f = [k \in 0 .. n |-> f[k]] /\ Solves(f, n)
  BY <1>4 DEF Solved
<1>6. f = [k \in 0 .. n |-> Step(f, k)]
  BY <1>5
<1>7. QED
  BY <1>6 DEF FieldsAfter, Step

(* It looks up what the fields name inline alone. *)
LEMMA FieldsLocal ==
  ASSUME NEW t, NEW id, NEW visited, NEW f, NEW g, NEW n \in Nat, n = Len(t.types[id].item.fields),
         \A k \in 1 .. n : \A other \in InlineNamed(t, t.types[id].source, id, t.types[id].item.fields[k].ty) :
            f[other] = g[other]
  PROVE  FieldsFloat(t, id, visited, f) = FieldsFloat(t, id, visited, g)
<1>1. PICK a, b : a = FieldsAfter(t, id, visited, f) /\ b = FieldsAfter(t, id, visited, g)
  OBVIOUS
<1>2. /\ a = [k \in 0 .. n |-> FieldStep(t, id, visited, f, a, k)]
      /\ b = [k \in 0 .. n |-> FieldStep(t, id, visited, g, b, k)]
  BY <1>1, AfterExists
<1> DEFINE S == {k \in 0 .. n : a[k] = b[k]}
<1>3. 0 \in S
  <2>1. 0 \in 0 .. n
    OBVIOUS
  <2>2. a[0] = FieldStep(t, id, visited, f, a, 0) /\ b[0] = FieldStep(t, id, visited, g, b, 0)
    BY <1>2, <2>1
  <2>3. QED
    BY <2>1, <2>2 DEF FieldStep
<1>4. ASSUME NEW k \in 1 .. n, k - 1 \in S PROVE k \in S
  <2>1. a[k - 1] = b[k - 1] /\ k \in 0 .. n /\ k # 0
    BY <1>4
  <2>2. \A seen : InlineFloat(t, t.types[id].source, id, t.types[id].item.fields[k].ty, seen, f)
                    = InlineFloat(t, t.types[id].source, id, t.types[id].item.fields[k].ty, seen, g)
    BY InlineLocal
  <2>3. FieldStep(t, id, visited, f, a, k) = FieldStep(t, id, visited, g, b, k)
    BY <2>1, <2>2 DEF FieldStep
  <2>4. a[k] = FieldStep(t, id, visited, f, a, k) /\ b[k] = FieldStep(t, id, visited, g, b, k)
    BY <1>2, <2>1
  <2>5. QED
    BY <2>1, <2>3, <2>4
<1> HIDE DEF S
<1>5. n \in S
  <2>1. \A k \in 0 .. n : k \in S
    BY <1>3, <1>4, UpTo
  <2>2. QED
    BY <2>1
<1>6. QED
  BY <1>1, <1>5, FieldsFloatIsAfter DEF S

-----------------------------------------------------------------------------
(* The recursion of HoldsFloat. *)
HoldsRow(t, holds, id) == [visited \in SUBSET DOMAIN t.types |-> DefFloat(t, id, visited, holds)]

(* The rows of a whole table. *)
Holds(t) == CHOOSE holds : holds = [id \in DOMAIN t.types |-> HoldsRow(t, holds, id)]

(* HoldsFloat looks its rows up. *)
LEMMA HoldsFloatIsHolds ==
  ASSUME NEW t, NEW source, NEW scope, NEW ty
  PROVE  HoldsFloat(t, source, scope, ty) = InlineFloat(t, source, scope, ty, {}, Holds(t)).float
BY DEF HoldsFloat, Holds, HoldsRow

(* What the search for floats needs of a table: its paths lead where the    *)
(* references of the lowered schema do, and those have no ring.             *)
IsNamed(t, schema) ==
  /\ DOMAIN t.types = DOMAIN schema
  /\ \A id \in DOMAIN schema :
       LET site == t.types[id] IN
       /\ site.item.tag = schema[id].tag
       /\ schema[id].tag = "struct" =>
            /\ Len(site.item.fields) \in Nat
            /\ \A k \in 1 .. Len(site.item.fields) :
                 InlineNamed(t, site.source, id, site.item.fields[k].ty) \subseteq DirectRefs(schema[id])
       /\ schema[id].tag = "type" =>
            InlineNamed(t, site.source, id, site.item.target) \subseteq DirectRefs(schema[id])

(* A row depends on those of the references alone. *)
LEMMA HoldsRowLocal ==
  ASSUME NEW t, NEW schema, IsNamed(t, schema), NEW id \in DOMAIN schema, NEW f, NEW g,
         \A other \in DirectRefs(schema[id]) : f[other] = g[other]
  PROVE  HoldsRow(t, f, id) = HoldsRow(t, g, id)
<1>1. ASSUME NEW visited
      PROVE  DefFloat(t, id, visited, f) = DefFloat(t, id, visited, g)
  <2>1. PICK site, with : site = t.types[id] /\ with = visited \cup {id}
    OBVIOUS
  <2>2. CASE site.item.tag = "struct"
    <3>1. PICK n \in Nat : n = Len(site.item.fields)
      BY <2>1, <2>2 DEF IsNamed
    <3>2. \A k \in 1 .. n : \A other \in InlineNamed(t, site.source, id, site.item.fields[k].ty) :
            f[other] = g[other]
      BY <2>1, <2>2, <3>1 DEF IsNamed
    <3>5. /\ n = Len(t.types[id].item.fields)
          /\ \A k \in 1 .. n : \A other \in InlineNamed(t, t.types[id].source, id, t.types[id].item.fields[k].ty) :
                f[other] = g[other]
      BY <2>1, <3>1, <3>2
    <3>3. FieldsFloat(t, id, with, f) = FieldsFloat(t, id, with, g)
      BY <3>5, FieldsLocal
    <3>4. QED
      BY <2>1, <2>2, <3>3 DEF DefFloat
  <2>3. CASE site.item.tag = "type"
    <3>1. \A other \in InlineNamed(t, site.source, id, site.item.target) : f[other] = g[other]
      BY <2>1, <2>3 DEF IsNamed
    <3>2. InlineFloat(t, site.source, id, site.item.target, with, f)
            = InlineFloat(t, site.source, id, site.item.target, with, g)
      BY <3>1, InlineLocal
    <3>3. QED
      BY <2>1, <2>3, <3>2 DEF DefFloat
  <2>4. CASE site.item.tag \notin {"struct", "type"}
    BY <2>1, <2>4 DEF DefFloat
  <2>5. QED
    BY <2>2, <2>3, <2>4
<1>2. QED
  BY <1>1 DEF HoldsRow

(* Without a ring the rows exist: there is one choice along the references. *)
LEMMA HoldsExists ==
  ASSUME NEW t, NEW schema, IsNamed(t, schema), IsSound(schema)
  PROVE  Holds(t) = [id \in DOMAIN schema |-> HoldsRow(t, Holds(t), id)]
<1> DEFINE refs == References(schema)
           Solves(f, S) == \A id \in S : refs[id] \subseteq S /\ f[id] = HoldsRow(t, f, id)
           G == {S \in SUBSET DOMAIN schema :
                   \E f : f = [id \in DOMAIN schema |-> f[id]] /\ Solves(f, S)}
<1>1. {} \in G
  <2>1. PICK f : f = [id \in DOMAIN schema |-> 0]
    OBVIOUS
  <2>2. f = [id \in DOMAIN schema |-> f[id]]
    BY <2>1
  <2>3. QED
    BY <2>2
<1>2. DOMAIN refs = DOMAIN schema /\ \A id \in DOMAIN schema : refs[id] = DirectRefs(schema[id])
  BY DEF References
<1>3. ASSUME NEW S \in SUBSET DOMAIN schema, NEW id \in DOMAIN schema \ S, S \in G, refs[id] \subseteq S
      PROVE  S \cup {id} \in G
  <2>1. PICK f : f = [x \in DOMAIN schema |-> f[x]] /\ Solves(f, S)
    BY <1>3
  <2>2. PICK g : g = [x \in DOMAIN schema |-> IF x = id THEN HoldsRow(t, f, id) ELSE f[x]]
    OBVIOUS
  <2>3. g = [x \in DOMAIN schema |-> g[x]] /\ \A x \in S : g[x] = f[x]
    BY <1>3, <2>2
  <2>4. g[id] = HoldsRow(t, f, id)
    BY <2>2
  <2>5. \A x \in S \cup {id} : \A y \in refs[x] : f[y] = g[y]
    BY <1>3, <2>1, <2>3
  <2>6. \A x \in S \cup {id} : HoldsRow(t, f, x) = HoldsRow(t, g, x)
    BY <1>2, <1>3, <2>5, HoldsRowLocal
  <2>7. Solves(g, S \cup {id})
    BY <1>3, <2>1, <2>3, <2>4, <2>6
  <2>8. QED
    BY <1>3, <2>3, <2>7
<1> HIDE DEF G
<1>4. IsGraph(refs) /\ IsFiniteSet(DOMAIN refs) /\ ~ HasRing(refs)
  BY <1>2 DEF IsSound
<1> HIDE DEF refs
<1>5. DOMAIN schema \in G
  BY <1>1, <1>2, <1>3, <1>4, AlongReferences
<1>6. PICK f : f = [id \in DOMAIN schema |-> f[id]] /\ Solves(f, DOMAIN schema)
  BY <1>5 DEF G
<1>7. f = [id \in DOMAIN schema |-> HoldsRow(t, f, id)]
  BY <1>6
<1>8. DOMAIN t.types = DOMAIN schema
  BY DEF IsNamed
<1>9. QED
  BY <1>7, <1>8 DEF Holds

-----------------------------------------------------------------------------
(* Every path of a written type leads to a type. *)
IsResolved(t, source, scope, w) ==
  \A p \in DOMAIN w : w[p].k = "named" => NamedType(t, source, scope, w[p].path) # {}

(* A lowered type and the one that was written. *)
WrittenAs(t, source, scope, w, ty) ==
  IsTree(w) /\ IsResolved(t, source, scope, w) /\ ty = LowerType(t, source, scope, w)

(* A path that leads to a type leads to no other. *)
LEMMA PathsLead ==
  ASSUME NEW t, NEW source, NEW scope, NEW path, NamedType(t, source, scope, path) # {}
  PROVE  \E id : Resolve(t, source, scope, path) = {id} /\ NamedType(t, source, scope, path) = {id}
<1>1. PICK id : id \in NamedType(t, source, scope, path)
  OBVIOUS
<1>2. id \in Resolve(t, source, scope, path)
  BY <1>1 DEF NamedType
<1>3. ResolveSymbol(t, source, scope, path) = {TypeSym(id)}
  BY <1>2 DEF Resolve
<1>4. ASSUME NEW other \in Resolve(t, source, scope, path) PROVE other = id
  <2>1. ResolveSymbol(t, source, scope, path) = {TypeSym(other)}
    BY <1>4 DEF Resolve
  <2>2. TypeSym(other) = TypeSym(id)
    BY <1>3, <2>1
  <2>3. QED
    BY <2>2 DEF TypeSym
<1>5. Resolve(t, source, scope, path) = {id}
  BY <1>2, <1>4
<1>6. NamedType(t, source, scope, path) = {id}
  BY <1>1, <1>5 DEF NamedType
<1>7. QED
  BY <1>5, <1>6

(* Lowering keeps the kinds of nodes and where they lead. *)
LEMMA NodesKept ==
  ASSUME NEW t, NEW source, NEW scope, NEW w, NEW ty, WrittenAs(t, source, scope, w, ty)
  PROVE  /\ DOMAIN ty = DOMAIN w
         /\ \A p \in DOMAIN w : /\ ty[p].k = w[p].k
                                /\ w[p].k = "named" =>
                                     Resolve(t, source, scope, w[p].path) = {ty[p].id}
<1>1. DOMAIN ty = DOMAIN w /\ \A p \in DOMAIN w : ty[p] = LowerNode(t, source, scope, w[p])
  BY DEF WrittenAs, LowerType
<1>2. ASSUME NEW p \in DOMAIN w
      PROVE  /\ ty[p].k = w[p].k
             /\ w[p].k = "named" => Resolve(t, source, scope, w[p].path) = {ty[p].id}
  <2>1. PICK node : node = w[p] /\ ty[p] = LowerNode(t, source, scope, node)
    BY <1>1
  <2>2. CASE node.k = "named"
    <3>1. NamedType(t, source, scope, node.path) # {}
      BY <2>1, <2>2 DEF WrittenAs, IsResolved
    <3>2. PICK id : Resolve(t, source, scope, node.path) = {id} /\ NamedType(t, source, scope, node.path) = {id}
      BY <3>1, PathsLead
    <3>3. (CHOOSE x \in {id} : TRUE) = id
      OBVIOUS
    <3>4. LowerNode(t, source, scope, node) = [k |-> "named", cons |-> NoCons, id |-> id]
      BY <2>2, <3>2, <3>3 DEF LowerNode
    <3>5. QED
      BY <2>1, <2>2, <3>2, <3>4
  <2>3. CASE node.k # "named"
    <3>1. LowerNode(t, source, scope, node).k = node.k
      BY <2>3 DEF LowerNode
    <3>2. QED
      BY <2>1, <2>3, <3>1
  <2>4. QED
    BY <2>2, <2>3
<1>3. QED
  BY <1>1, <1>2

(* What is written inline leads where the lowered type does. *)
LEMMA InlineLeads ==
  ASSUME NEW t, NEW source, NEW scope, NEW w, NEW ty, WrittenAs(t, source, scope, w, ty)
  PROVE  InlineNamed(t, source, scope, w) \subseteq Refs(ty)
<1>1. PICK p \in DOMAIN w : InlineNode(w) = w[p]
  BY InlineFound DEF WrittenAs
<1>2. CASE w[p].k = "named"
  <2>1. ty[p] \in Range(ty) /\ ty[p].k = "named" /\ Resolve(t, source, scope, w[p].path) = {ty[p].id}
    BY <1>1, <1>2, NodesKept DEF Range
  <2>2. InlineNamed(t, source, scope, w) = {ty[p].id}
    BY <1>1, <1>2, <2>1 DEF InlineNamed
  <2>3. QED
    BY <2>1, <2>2 DEF Refs
<1>3. CASE w[p].k # "named"
  BY <1>1, <1>3 DEF InlineNamed
<1>4. QED
  BY <1>2, <1>3

(* Without collections there is nothing else in it. *)
LEMMA InlineIsAll ==
  ASSUME NEW t, NEW source, NEW scope, NEW w, NEW ty, WrittenAs(t, source, scope, w, ty),
         \A p \in DOMAIN ty : ty[p].k \notin {"vec", "set", "map"}
  PROVE  /\ InlineNode(w).k \notin FloatKinds => \A node \in Range(ty) : node.k \notin FloatKinds
         /\ Refs(ty) \subseteq InlineNamed(t, source, scope, w)
         /\ Refs(ty) # {} => InlineNode(w).k = "named"
<1>1. /\ DOMAIN ty = DOMAIN w
      /\ \A p \in DOMAIN w : /\ ty[p].k = w[p].k
                             /\ w[p].k = "named" => Resolve(t, source, scope, w[p].path) = {ty[p].id}
  BY NodesKept
<1>2. IsTree(w) /\ \A p \in DOMAIN w : w[p].k \notin {"vec", "set", "map"}
  BY <1>1 DEF WrittenAs
<1>3. \A p \in DOMAIN w : w[p].k # "array" => w[p] = InlineNode(w)
  BY <1>2, InlineOnly
<1>4. ASSUME InlineNode(w).k \notin FloatKinds, NEW node \in Range(ty) PROVE node.k \notin FloatKinds
  <2>1. PICK p \in DOMAIN w : node = ty[p]
    BY <1>1, <1>4 DEF Range
  <2>2. node.k = "array" \/ node.k = InlineNode(w).k
    BY <1>1, <1>3, <2>1
  <2>3. "array" \notin FloatKinds
    BY DEF FloatKinds
  <2>4. QED
    BY <1>4, <2>2, <2>3
<1>5. ASSUME NEW id \in Refs(ty) PROVE id \in InlineNamed(t, source, scope, w) /\ InlineNode(w).k = "named"
  <2>1. PICK p \in DOMAIN w : ty[p].k = "named" /\ id = ty[p].id
    BY <1>1, <1>5 DEF Refs, Range
  <2>2. w[p].k = "named" /\ w[p] = InlineNode(w)
    BY <1>1, <1>3, <2>1
  <2>3. InlineNamed(t, source, scope, w) = {ty[p].id}
    BY <1>1, <2>2 DEF InlineNamed
  <2>4. QED
    BY <2>1, <2>2, <2>3
<1>6. QED
  BY <1>4, <1>5

-----------------------------------------------------------------------------
(* The declarations that write no float, and those of them that lead to no  *)
(* others.                                                                  *)
FloatFree(schema) ==
  {id \in DOMAIN schema : \A ty \in BodyTypes(schema[id]) : \A node \in Range(ty) : node.k \notin FloatKinds}

(* The largest set of such declarations that leads out of it nowhere. *)
Pure(schema) == UNION {U \in SUBSET FloatFree(schema) : ClosedUnder(References(schema), U)}

(* It is closed, and takes in what leads into it alone. *)
LEMMA PureIsLargest ==
  ASSUME NEW schema
  PROVE  /\ Pure(schema) \subseteq FloatFree(schema) /\ Pure(schema) \subseteq DOMAIN schema
         /\ ClosedUnder(References(schema), Pure(schema))
         /\ \A id \in FloatFree(schema) : DirectRefs(schema[id]) \subseteq Pure(schema) => id \in Pure(schema)
<1>1. Pure(schema) \subseteq FloatFree(schema) /\ FloatFree(schema) \subseteq DOMAIN schema
  BY DEF Pure, FloatFree
<1>2. ClosedUnder(References(schema), Pure(schema))
  <2>1. ASSUME NEW id \in Pure(schema) PROVE References(schema)[id] \subseteq Pure(schema)
    <3>1. PICK U \in SUBSET FloatFree(schema) : ClosedUnder(References(schema), U) /\ id \in U
      BY <2>1 DEF Pure
    <3>2. U \subseteq Pure(schema)
      BY <3>1 DEF Pure
    <3>3. QED
      BY <3>1, <3>2 DEF ClosedUnder
  <2>2. QED
    BY <2>1 DEF ClosedUnder
<1>3. ASSUME NEW id \in FloatFree(schema), DirectRefs(schema[id]) \subseteq Pure(schema)
      PROVE  id \in Pure(schema)
  <2>1. PICK U : U = Pure(schema) \cup {id}
    OBVIOUS
  <2>2. U \in SUBSET FloatFree(schema)
    BY <1>1, <2>1
  <2>3. References(schema)[id] = DirectRefs(schema[id])
    BY <1>1 DEF References
  <2>4. ClosedUnder(References(schema), U)
    BY <1>2, <1>3, <2>1, <2>3 DEF ClosedUnder
  <2>5. QED
    BY <2>1, <2>2, <2>4 DEF Pure
<1>4. QED
  BY <1>1, <1>2, <1>3

(* The lowered schema, as it was written. *)
IsWritten(t, schema) ==
  /\ DOMAIN t.types = DOMAIN schema
  /\ \A id \in DOMAIN schema :
       LET site == t.types[id] IN
       /\ site.item.tag = schema[id].tag
       /\ schema[id].tag = "struct" =>
            /\ Len(site.item.fields) \in Nat /\ DOMAIN schema[id].fields = 1 .. Len(site.item.fields)
            /\ \A k \in 1 .. Len(site.item.fields) :
                 WrittenAs(t, site.source, id, site.item.fields[k].ty, schema[id].fields[k].ty)
       /\ schema[id].tag = "type" =>
            WrittenAs(t, site.source, id, site.item.target, schema[id].target)

(* The paths of a schema as it was written lead along its references. *)
LEMMA WrittenIsNamed ==
  ASSUME NEW t, NEW schema, IsWritten(t, schema)
  PROVE  IsNamed(t, schema)
<1>1. ASSUME NEW id \in DOMAIN schema, schema[id].tag = "struct",
             NEW k \in 1 .. Len(t.types[id].item.fields)
      PROVE  InlineNamed(t, t.types[id].source, id, t.types[id].item.fields[k].ty) \subseteq DirectRefs(schema[id])
  <2>1. WrittenAs(t, t.types[id].source, id, t.types[id].item.fields[k].ty, schema[id].fields[k].ty)
        /\ k \in DOMAIN schema[id].fields
    BY <1>1 DEF IsWritten
  <2>2. schema[id].fields[k].ty \in BodyTypes(schema[id])
    BY <1>1, <2>1 DEF BodyTypes, FieldTypes
  <2>3. QED
    BY <2>1, <2>2, InlineLeads DEF DirectRefs
<1>2. ASSUME NEW id \in DOMAIN schema, schema[id].tag = "type"
      PROVE  InlineNamed(t, t.types[id].source, id, t.types[id].item.target) \subseteq DirectRefs(schema[id])
  <2>1. WrittenAs(t, t.types[id].source, id, t.types[id].item.target, schema[id].target)
    BY <1>2 DEF IsWritten
  <2>2. schema[id].target \in BodyTypes(schema[id])
    BY <1>2 DEF BodyTypes
  <2>3. QED
    BY <2>1, <2>2, InlineLeads DEF DirectRefs
<1>3. QED
  BY <1>1, <1>2 DEF IsWritten, IsNamed

-----------------------------------------------------------------------------
(* A search for floats from a declaration is right, whatever was visited:    *)
(* as long as what was visited is pure, and the search finds no float, the   *)
(* declaration is pure, and so is all that has been visited since.           *)
SearchesWell(schema, holds, S, id) ==
  \A visited \in SUBSET DOMAIN schema :
    visited \cap S \subseteq Pure(schema) /\ ~ holds[id][visited].float =>
      id \in Pure(schema) /\ holds[id][visited].visited \subseteq visited \cup Pure(schema)

(* The same of a type. *)
LEMMA TypeSearched ==
  ASSUME NEW schema, NEW t, NEW source, NEW scope, NEW w, NEW ty, WrittenAs(t, source, scope, w, ty),
         \A p \in DOMAIN ty : ty[p].k \notin {"vec", "set", "map"},
         NEW holds, NEW S \in SUBSET DOMAIN schema, Refs(ty) \subseteq S,
         \A id \in Refs(ty) : SearchesWell(schema, holds, S, id),
         NEW visited \in SUBSET DOMAIN schema, visited \cap S \subseteq Pure(schema),
         ~ InlineFloat(t, source, scope, w, visited, holds).float
  PROVE  /\ \A node \in Range(ty) : node.k \notin FloatKinds
         /\ Refs(ty) \subseteq Pure(schema)
         /\ InlineFloat(t, source, scope, w, visited, holds).visited \subseteq visited \cup Pure(schema)
<1>1. PICK node : node = InlineNode(w)
  OBVIOUS
<1>2. PICK named : named = IF node.k = "named" THEN Resolve(t, source, scope, node.path) \ visited ELSE {}
  OBVIOUS
<1>3. PICK r : r = InlineFloat(t, source, scope, w, visited, holds)
  OBVIOUS
<1>4. r = IF named = {} THEN [float |-> node.k \in FloatKinds, visited |-> visited]
          ELSE holds[CHOOSE id \in named : TRUE][visited]
  BY <1>1, <1>2, <1>3 DEF InlineFloat
<1>5. /\ node.k \notin FloatKinds => \A n \in Range(ty) : n.k \notin FloatKinds
      /\ Refs(ty) \subseteq InlineNamed(t, source, scope, w)
      /\ InlineNamed(t, source, scope, w) \subseteq Refs(ty)
  BY <1>1, InlineIsAll, InlineLeads
<1>6. InlineNamed(t, source, scope, w) = IF node.k = "named" THEN Resolve(t, source, scope, node.path) ELSE {}
  BY <1>1 DEF InlineNamed
<1>7. "named" \notin FloatKinds
  BY DEF FloatKinds
<1>8. CASE named = {}
  <2>1. r.visited = visited /\ node.k \notin FloatKinds
    <3>1. r = [float |-> node.k \in FloatKinds, visited |-> visited]
      BY <1>4, <1>8
    <3>2. r.float = (node.k \in FloatKinds) /\ r.visited = visited
      BY <3>1
    <3>3. QED
      BY <1>3, <3>2
  <2>2. Refs(ty) \subseteq visited
    BY <1>2, <1>5, <1>6, <1>8
  <2>3. QED
    BY <1>3, <1>5, <2>1, <2>2
<1>9. CASE named # {}
  <2>1. PICK id : id = CHOOSE x \in named : TRUE
    OBVIOUS
  <2>2. id \in named /\ node.k = "named"
    BY <1>2, <1>9, <2>1
  <2>3. id \in Resolve(t, source, scope, node.path) /\ id \in Refs(ty)
    BY <1>2, <1>5, <1>6, <2>2
  <2>4. Refs(ty) = {id}
    <3>1. PICK p \in DOMAIN w : InlineNode(w) = w[p]
      BY InlineFound DEF WrittenAs
    <3>2. Resolve(t, source, scope, node.path) = {ty[p].id}
      BY <1>1, <2>2, <3>1, NodesKept
    <3>3. QED
      BY <1>5, <1>6, <2>2, <2>3, <3>2
  <2>5. r = holds[id][visited]
    BY <1>4, <1>9, <2>1
  <2>6. id \in Pure(schema) /\ r.visited \subseteq visited \cup Pure(schema)
    BY <1>3, <2>3, <2>5 DEF SearchesWell
  <2>7. QED
    BY <1>3, <1>5, <1>7, <2>2, <2>4, <2>6
<1>10. QED
  BY <1>8, <1>9

(* Declarations whose values are of a fixed size: they hold no collections  *)
(* and no others.                                                           *)
AreFixed(schema, fixed) ==
  /\ fixed \in SUBSET DOMAIN schema
  /\ \A id \in fixed :
       /\ schema[id].tag \in {"enum", "struct", "type"}
       /\ \A ty \in BodyTypes(schema[id]) :
            /\ \A p \in DOMAIN ty : ty[p].k \notin {"vec", "set", "map"}
            /\ Refs(ty) \subseteq fixed

(* The same of the fields of a struct, one by one. *)
LEMMA FieldsSearched ==
  ASSUME NEW schema, NEW t, IsWritten(t, schema), NEW fixed, AreFixed(schema, fixed),
         NEW id \in fixed, schema[id].tag = "struct",
         NEW holds, NEW S \in SUBSET DOMAIN schema, DirectRefs(schema[id]) \subseteq S, id \notin S,
         \A other \in S \cap fixed : SearchesWell(schema, holds, S, other),
         NEW visited \in SUBSET DOMAIN schema, visited \cap S \subseteq Pure(schema),
         NEW with, with = visited \cup {id}, ~ FieldsFloat(t, id, with, holds).float
  PROVE  /\ id \in Pure(schema)
         /\ FieldsFloat(t, id, with, holds).visited \subseteq visited \cup Pure(schema)
<1>1. with \in SUBSET DOMAIN schema /\ with = visited \cup {id}
  BY DEF AreFixed
<1>2. PICK site : site = t.types[id] /\ id \in DOMAIN schema
  BY DEF AreFixed
<1>3. PICK n \in Nat : /\ n = Len(site.item.fields) /\ DOMAIN schema[id].fields = 1 .. n
                       /\ \A k \in 1 .. n :
                            WrittenAs(t, site.source, id, site.item.fields[k].ty, schema[id].fields[k].ty)
  BY <1>2 DEF IsWritten
<1>4. PICK after : after = FieldsAfter(t, id, with, holds)
  OBVIOUS
<1>5. after = [k \in 0 .. n |-> FieldStep(t, id, with, holds, after, k)]
  BY <1>2, <1>3, <1>4, AfterExists
<1>6. FieldsFloat(t, id, with, holds) = after[n]
  BY <1>2, <1>3, <1>4, FieldsFloatIsAfter
<1>7. BodyTypes(schema[id]) = {schema[id].fields[k].ty : k \in 1 .. n}
  BY <1>3 DEF BodyTypes, FieldTypes
<1> DEFINE Clean(k) == /\ \A node \in Range(schema[id].fields[k].ty) : node.k \notin FloatKinds
                       /\ Refs(schema[id].fields[k].ty) \subseteq Pure(schema)
           Good == {k \in 0 .. n : ~ after[k].float =>
                      /\ \A j \in 1 .. k : Clean(j)
                      /\ after[k].visited \subseteq with \cup Pure(schema)}
<1>8. 0 \in Good
  <2>1. 0 \in 0 .. n /\ \A j \in 1 .. 0 : FALSE
    OBVIOUS
  <2>2. after[0] = FieldStep(t, id, with, holds, after, 0)
    BY <1>5, <2>1
  <2>3. after[0].visited = with
    BY <2>2 DEF FieldStep
  <2>4. QED
    BY <2>1, <2>3
<1>9. ASSUME NEW k \in 1 .. n, k - 1 \in Good PROVE k \in Good
  <2>1. SUFFICES ASSUME ~ after[k].float
                 PROVE  /\ \A j \in 1 .. k : Clean(j)
                        /\ after[k].visited \subseteq with \cup Pure(schema)
    OBVIOUS
  <2>2. k \in 0 .. n /\ k # 0 /\ k - 1 \in 0 .. n
    OBVIOUS
  <2>3. PICK prev : prev = after[k - 1]
    OBVIOUS
  <2>4. PICK w, ty : w = site.item.fields[k].ty /\ ty = schema[id].fields[k].ty
    OBVIOUS
  <2>5. after[k] = IF prev.float THEN prev ELSE InlineFloat(t, site.source, id, w, prev.visited, holds)
    <3>1. after[k] = FieldStep(t, id, with, holds, after, k)
      BY <1>5, <2>2
    <3>2. QED
      BY <1>2, <2>2, <2>3, <2>4, <3>1 DEF FieldStep
  <2>6. ~ prev.float
    BY <2>1, <2>5
  <2>7. after[k] = InlineFloat(t, site.source, id, w, prev.visited, holds)
    BY <2>5, <2>6
  <2>8. (\A j \in 1 .. (k - 1) : Clean(j)) /\ prev.visited \subseteq with \cup Pure(schema)
    BY <1>9, <2>3, <2>6
  <2>9. prev.visited \in SUBSET DOMAIN schema /\ prev.visited \cap S \subseteq Pure(schema)
    BY <1>1, <2>8, PureIsLargest
  <2>10. WrittenAs(t, site.source, id, w, ty) /\ ty \in BodyTypes(schema[id])
    BY <1>3, <1>7, <2>4
  <2>11. /\ \A p \in DOMAIN ty : ty[p].k \notin {"vec", "set", "map"}
         /\ Refs(ty) \subseteq fixed /\ Refs(ty) \subseteq S
    BY <2>10 DEF AreFixed, DirectRefs
  <2>12. \A other \in Refs(ty) : SearchesWell(schema, holds, S, other)
    BY <2>11
  <2>13. PICK seen : seen = prev.visited
    OBVIOUS
  <2>14. ~ InlineFloat(t, site.source, id, w, seen, holds).float
    BY <2>1, <2>7, <2>13
  <2>15. seen \in SUBSET DOMAIN schema /\ seen \cap S \subseteq Pure(schema)
    BY <2>9, <2>13
  <2>16. /\ \A node \in Range(ty) : node.k \notin FloatKinds
         /\ Refs(ty) \subseteq Pure(schema)
         /\ InlineFloat(t, site.source, id, w, seen, holds).visited \subseteq seen \cup Pure(schema)
    BY <2>10, <2>11, <2>12, <2>14, <2>15, TypeSearched
  <2>17. Clean(k)
    BY <2>4, <2>16
  <2>18. \A j \in 1 .. k : j = k \/ j \in 1 .. (k - 1)
    OBVIOUS
  <2>19. after[k].visited \subseteq with \cup Pure(schema)
    BY <2>7, <2>8, <2>13, <2>16
  <2>20. QED
    BY <2>8, <2>17, <2>18, <2>19
<1> HIDE DEF Good
<1>10. n \in Good
  <2>1. \A k \in 0 .. n : k \in Good
    BY <1>8, <1>9, UpTo
  <2>2. QED
    BY <2>1
<1>11. (\A j \in 1 .. n : Clean(j)) /\ after[n].visited \subseteq with \cup Pure(schema)
  BY <1>1, <1>6, <1>10 DEF Good
<1>12. id \in FloatFree(schema)
  BY <1>2, <1>7, <1>11 DEF FloatFree
<1>13. DirectRefs(schema[id]) \subseteq Pure(schema)
  BY <1>7, <1>11 DEF DirectRefs
<1>14. id \in Pure(schema)
  BY <1>12, <1>13, PureIsLargest
<1>15. QED
  BY <1>1, <1>6, <1>11, <1>14

(* The same of a declaration, given those it refers to. *)
LEMMA DefSearched ==
  ASSUME NEW schema, NEW t, IsWritten(t, schema), NEW fixed, AreFixed(schema, fixed),
         NEW id \in fixed, NEW holds, holds[id] = HoldsRow(t, holds, id),
         NEW S \in SUBSET DOMAIN schema, DirectRefs(schema[id]) \subseteq S, id \notin S,
         \A other \in S \cap fixed : SearchesWell(schema, holds, S, other)
  PROVE  SearchesWell(schema, holds, S, id)
<1>1. SUFFICES ASSUME NEW visited \in SUBSET DOMAIN schema, visited \cap S \subseteq Pure(schema),
                      ~ holds[id][visited].float
               PROVE  id \in Pure(schema) /\ holds[id][visited].visited \subseteq visited \cup Pure(schema)
  BY DEF SearchesWell
<1>2. PICK site : site = t.types[id] /\ id \in DOMAIN schema /\ site.item.tag = schema[id].tag
  BY DEF AreFixed, IsWritten
<1>3. holds[id][visited] = DefFloat(t, id, visited, holds)
  BY <1>1 DEF HoldsRow, IsWritten
<1>4. schema[id].tag \in {"enum", "struct", "type"}
  BY DEF AreFixed
<1>5. CASE schema[id].tag = "struct"
  <2>1. PICK with : with = visited \cup {id}
    OBVIOUS
  <2>2. DefFloat(t, id, visited, holds) = FieldsFloat(t, id, with, holds)
    BY <1>2, <1>5, <2>1 DEF DefFloat
  <2>3. ~ FieldsFloat(t, id, with, holds).float
    BY <1>1, <1>3, <2>2
  <2>4. id \in Pure(schema) /\ FieldsFloat(t, id, with, holds).visited \subseteq visited \cup Pure(schema)
    BY <1>1, <1>5, <2>1, <2>3, FieldsSearched
  <2>5. QED
    BY <1>3, <2>2, <2>4
<1>6. CASE schema[id].tag = "type"
  <2>1. PICK w, ty, with : w = site.item.target /\ ty = schema[id].target /\ with = visited \cup {id}
    OBVIOUS
  <2>2. PICK r : r = InlineFloat(t, site.source, id, w, with, holds)
    OBVIOUS
  <2>3. holds[id][visited] = [float |-> r.float, visited |-> visited]
    BY <1>2, <1>3, <1>6, <2>1, <2>2 DEF DefFloat
  <2>4. BodyTypes(schema[id]) = {ty}
    BY <1>6, <2>1 DEF BodyTypes
  <2>5. WrittenAs(t, site.source, id, w, ty)
    BY <1>2, <1>6, <2>1 DEF IsWritten
  <2>6. /\ \A p \in DOMAIN ty : ty[p].k \notin {"vec", "set", "map"}
        /\ Refs(ty) \subseteq fixed /\ Refs(ty) \subseteq S
    BY <2>4 DEF AreFixed, DirectRefs
  <2>7. \A other \in Refs(ty) : SearchesWell(schema, holds, S, other)
    BY <2>6
  <2>8. with \in SUBSET DOMAIN schema /\ with \cap S \subseteq Pure(schema)
    BY <1>1, <1>2, <2>1
  <2>9. holds[id][visited].visited = visited /\ ~ r.float
    BY <1>1, <2>3
  <2>10. (\A node \in Range(ty) : node.k \notin FloatKinds) /\ Refs(ty) \subseteq Pure(schema)
    BY <2>2, <2>5, <2>6, <2>7, <2>8, <2>9, TypeSearched
  <2>11. id \in FloatFree(schema) /\ DirectRefs(schema[id]) \subseteq Pure(schema)
    BY <1>2, <2>4, <2>10 DEF FloatFree, DirectRefs
  <2>12. id \in Pure(schema)
    BY <2>11, PureIsLargest
  <2>13. QED
    BY <2>9, <2>12
<1>7. CASE schema[id].tag = "enum"
  <2>1. holds[id][visited] = [float |-> FALSE, visited |-> visited]
    BY <1>2, <1>3, <1>7 DEF DefFloat
  <2>2. BodyTypes(schema[id]) = {}
    BY <1>7 DEF BodyTypes
  <2>3. id \in Pure(schema)
    BY <1>2, <2>2, PureIsLargest DEF FloatFree, DirectRefs
  <2>4. QED
    BY <2>1, <2>3
<1>8. QED
  BY <1>4, <1>5, <1>6, <1>7

-----------------------------------------------------------------------------
(* A search that is right once some references are known is right once more *)
(* are.                                                                     *)
LEMMA SearchesMore ==
  ASSUME NEW schema, NEW holds, NEW S, NEW T, S \subseteq T, NEW id, SearchesWell(schema, holds, S, id)
  PROVE  SearchesWell(schema, holds, T, id)
<1>1. SUFFICES ASSUME NEW visited \in SUBSET DOMAIN schema, visited \cap T \subseteq Pure(schema),
                      ~ holds[id][visited].float
               PROVE  id \in Pure(schema) /\ holds[id][visited].visited \subseteq visited \cup Pure(schema)
  BY DEF SearchesWell
<1>2. visited \cap S \subseteq Pure(schema)
  BY <1>1
<1>3. QED
  BY <1>1, <1>2 DEF SearchesWell

(* So it is from every declaration of a fixed size, since no declaration is  *)
(* stored in itself.                                                         *)
LEMMA AllSearched ==
  ASSUME NEW schema, IsSound(schema), NEW t, IsWritten(t, schema), NEW fixed, AreFixed(schema, fixed)
  PROVE  \A id \in fixed : SearchesWell(schema, Holds(t), DOMAIN schema, id)
<1> DEFINE refs == References(schema)
<1>1. PICK holds : holds = Holds(t) /\ \A id \in DOMAIN schema : holds[id] = HoldsRow(t, holds, id)
  <2>1. IsNamed(t, schema)
    BY WrittenIsNamed
  <2>2. Holds(t) = [id \in DOMAIN schema |-> HoldsRow(t, Holds(t), id)]
    BY <2>1, HoldsExists
  <2>3. PICK f : f = Holds(t)
    OBVIOUS
  <2>4. f = [id \in DOMAIN schema |-> HoldsRow(t, f, id)]
    BY <2>2, <2>3
  <2>5. \A id \in DOMAIN schema : f[id] = HoldsRow(t, f, id)
    BY <2>4
  <2>6. QED
    BY <2>3, <2>5
<1> DEFINE G == {S \in SUBSET DOMAIN schema : \A x \in S \cap fixed : SearchesWell(schema, holds, S, x)}
<1>2. {} \in G
  OBVIOUS
<1>3. DOMAIN refs = DOMAIN schema /\ \A id \in DOMAIN schema : refs[id] = DirectRefs(schema[id])
  BY DEF References
<1>4. ASSUME NEW S \in SUBSET DOMAIN schema, NEW id \in DOMAIN schema \ S, S \in G, refs[id] \subseteq S
      PROVE  S \cup {id} \in G
  <2>1. PICK T : T = S \cup {id}
    OBVIOUS
  <2>2. \A x \in S \cap fixed : SearchesWell(schema, holds, S, x)
    BY <1>4
  <2>3. DirectRefs(schema[id]) \subseteq S /\ id \notin S
    BY <1>3, <1>4
  <2>4. ASSUME NEW x \in T \cap fixed PROVE SearchesWell(schema, holds, T, x)
    <3> HIDE DEF G, refs
    <3>1. SearchesWell(schema, holds, S, x)
      <4>1. CASE x \in S
        BY <2>2, <2>4, <4>1
      <4>2. CASE x = id
        <5>1. id \in fixed /\ holds[id] = HoldsRow(t, holds, id)
          BY <1>1, <1>4, <2>4, <4>2
        <5>2. S \in SUBSET DOMAIN schema
          BY <1>4
        <5>3. SearchesWell(schema, holds, S, id)
          BY <2>2, <2>3, <5>1, <5>2, DefSearched
        <5>4. QED
          BY <4>2, <5>3
      <4>3. QED
        BY <2>1, <2>4, <4>1, <4>2
    <3>2. S \subseteq T
      BY <2>1
    <3>3. QED
      BY <3>1, <3>2, SearchesMore
  <2>5. T \in SUBSET DOMAIN schema
    BY <1>4, <2>1
  <2>6. QED
    BY <2>1, <2>4, <2>5
<1> HIDE DEF G
<1>5. IsGraph(refs) /\ IsFiniteSet(DOMAIN refs) /\ ~ HasRing(refs)
  BY <1>3 DEF IsSound
<1> HIDE DEF refs
<1>6. DOMAIN schema \in G
  BY <1>2, <1>3, <1>4, <1>5, AlongReferences
<1>7. QED
  <2>1. \A x \in DOMAIN schema \cap fixed : SearchesWell(schema, holds, DOMAIN schema, x)
    BY <1>6 DEF G
  <2>2. fixed \subseteq DOMAIN schema
    BY DEF AreFixed
  <2>3. QED
    BY <1>1, <2>1, <2>2

-----------------------------------------------------------------------------
(* A type written without an error, and one of its parts. *)
LEMMA CleanType ==
  ASSUME NEW t, NEW source, NEW scope, NEW w, NEW options, IsTree(w),
         TypeErrors(t, source, scope, w, options) = {}
  PROVE  /\ WrittenAs(t, source, scope, w, LowerType(t, source, scope, w))
         /\ \A p \in DOMAIN w : Root(PartAt(w, p)).k \in {"set", "map"} =>
              KeyErrors(t, source, scope, ItemOf(PartAt(w, p))) = {}
<1>1. ASSUME NEW p \in DOMAIN w, w[p].k = "named"
      PROVE  NamedType(t, source, scope, w[p].path) # {}
  <2>1. PICK o : o = IF p = <<>> THEN options ELSE 0
    OBVIOUS
  <2>2. NodeErrors(t, source, scope, w[p], o) \subseteq TypeErrors(t, source, scope, w, options)
    BY <1>1, <2>1 DEF TypeErrors
  <2>3. Error(w[p].k = "named" /\ NamedType(t, source, scope, w[p].path) = {}, "not a type") = {}
    BY <2>2 DEF NodeErrors
  <2>4. QED
    BY <1>1, <2>3 DEF Error
<1>2. ASSUME NEW p \in DOMAIN w, Root(PartAt(w, p)).k \in {"set", "map"}
      PROVE  KeyErrors(t, source, scope, ItemOf(PartAt(w, p))) = {}
  <2>1. PICK part : part = PartAt(w, p)
    OBVIOUS
  <2>2. part \in Parts(w) /\ Root(part).k \in {"set", "map"}
    BY <1>2, <2>1 DEF Parts
  <2>3. KeyErrors(t, source, scope, ItemOf(part)) \subseteq TypeErrors(t, source, scope, w, options)
    BY <2>2 DEF TypeErrors
  <2>4. QED
    BY <2>1, <2>3
<1>3. QED
  BY <1>1, <1>2 DEF WrittenAs, IsResolved

(* A part of a lowered type is lowered from that part of what was written. *)
LEMMA WrittenPart ==
  ASSUME NEW t, NEW source, NEW scope, NEW w, NEW ty, WrittenAs(t, source, scope, w, ty), NEW p \in DOMAIN w
  PROVE  WrittenAs(t, source, scope, PartAt(w, p), PartAt(ty, p))
<1>1. IsTree(w) /\ IsResolved(t, source, scope, w) /\ ty = LowerType(t, source, scope, w)
  BY DEF WrittenAs
<1>2. p \in Seq({1, 2}) /\ DOMAIN w \subseteq Seq({1, 2}) /\ DOMAIN ty = DOMAIN w
  BY <1>1 DEF IsTree, LowerType
<1>3. PICK v, u : v = PartAt(w, p) /\ u = PartAt(ty, p)
  OBVIOUS
<1>4. /\ DOMAIN v \subseteq Seq({1, 2})
      /\ \A q \in Seq({1, 2}) : q \in DOMAIN v <=> p \o q \in DOMAIN w
      /\ \A q \in DOMAIN v : v[q] = w[p \o q]
  BY <1>2, <1>3, PartPositions
<1>5. /\ DOMAIN u \subseteq Seq({1, 2})
      /\ \A q \in Seq({1, 2}) : q \in DOMAIN u <=> p \o q \in DOMAIN ty
      /\ \A q \in DOMAIN u : u[q] = ty[p \o q]
  BY <1>2, <1>3, PartPositions
<1>6. DOMAIN u = DOMAIN v
  BY <1>2, <1>4, <1>5
<1>7. ASSUME NEW q \in DOMAIN v PROVE u[q] = LowerNode(t, source, scope, v[q])
  <2>1. p \o q \in DOMAIN w /\ v[q] = w[p \o q] /\ u[q] = ty[p \o q]
    BY <1>4, <1>5, <1>6
  <2>2. ty[p \o q] = LowerNode(t, source, scope, w[p \o q])
    BY <1>1, <2>1 DEF LowerType
  <2>3. QED
    BY <2>1, <2>2
<1>8. u = [q \in DOMAIN v |-> LowerNode(t, source, scope, v[q])]
  <2>1. u = [q \in DOMAIN u |-> u[q]]
    BY <1>3 DEF PartAt
  <2>2. QED
    BY <1>6, <1>7, <2>1
<1>9. IsResolved(t, source, scope, v)
  BY <1>1, <1>4 DEF IsResolved
<1>10. IsTree(v)
  BY <1>1, <1>3, PartIsTree
<1>11. QED
  BY <1>3, <1>8, <1>9, <1>10 DEF WrittenAs, LowerType

(* What the sets and maps of a type written without an error are searched   *)
(* by.                                                                      *)
LEMMA CleanKeys ==
  ASSUME NEW t, NEW source, NEW scope, NEW w, NEW options, IsTree(w),
         TypeErrors(t, source, scope, w, options) = {},
         NEW part \in Parts(LowerType(t, source, scope, w)), Root(part).k \in {"set", "map"}
  PROVE  \E v : WrittenAs(t, source, scope, v, ItemOf(part)) /\ KeyErrors(t, source, scope, v) = {}
<1>1. PICK ty : ty = LowerType(t, source, scope, w)
  OBVIOUS
<1>2. PICK p \in DOMAIN ty : part = PartAt(ty, p)
  BY <1>1 DEF Parts
<1>3. WrittenAs(t, source, scope, w, ty)
  BY <1>1, CleanType
<1>4. p \in DOMAIN w
  BY <1>2, <1>3, NodesKept
<1>5. PICK whole : whole = PartAt(w, p)
  OBVIOUS
<1>6. WrittenAs(t, source, scope, whole, part)
  BY <1>2, <1>3, <1>4, <1>5, WrittenPart
<1>7. IsTree(whole) /\ <<>> \in DOMAIN whole
  BY <1>6 DEF WrittenAs, IsTree
<1>8. Root(whole).k = Root(part).k
  BY <1>6, <1>7, NodesKept DEF Root
<1>9. <<1>> \in DOMAIN whole
  <2>1. whole[<<>>].k \in {"array", "vec", "set", "map"}
    BY <1>8 DEF Root
  <2>2. <<>> \o <<1>> \in DOMAIN whole
    BY <1>7, <2>1, TreeArms
  <2>3. <<>> \o <<1>> = <<1>>
    OBVIOUS
  <2>4. QED
    BY <2>2, <2>3
<1>10. WrittenAs(t, source, scope, ItemOf(whole), ItemOf(part))
  BY <1>6, <1>9, WrittenPart DEF ItemOf
<1>11. KeyErrors(t, source, scope, ItemOf(whole)) = {}
  BY <1>4, <1>5, <1>8, CleanType
<1>12. QED
  BY <1>10, <1>11

-----------------------------------------------------------------------------
(* What the parser says of the item of a declaration. *)
LEMMA ItemParsed ==
  ASSUME NEW text, Parsed(text), NEW t, TableOK(text, t), NEW id \in DOMAIN t.types,
         NEW item, item = t.types[id].item
  PROVE  /\ item.tag \in {"struct", "message", "hub"} => IsSeq(item.fields)
         /\ \A w \in TypesOf(item) : IsTree(w)
<1>1. item \in ItemsOf(text)
  BY DEF TableOK, SiteOK
<1>2. PICK from \in Range(text) : item \in Range(from.items)
  BY <1>1 DEF ItemsOf
<1>3. PICK j \in DOMAIN from.items : item = from.items[j]
  BY <1>2 DEF Range
<1>4. QED
  BY <1>3 DEF Parsed, IsSeq

(* The fields of a declaration without an error. *)
LEMMA CleanFields ==
  ASSUME NEW t, NEW source, NEW scope, NEW fields, FieldErrors(t, source, scope, fields) = {},
         NEW w \in FieldTypes(fields)
  PROVE  TypeErrors(t, source, scope, w, 1) = {}
<1>1. FieldTypeErrors(t, source, scope, w) \subseteq FieldErrors(t, source, scope, fields)
  BY DEF FieldErrors
<1>2. TypeErrors(t, source, scope, w, 1) \subseteq FieldTypeErrors(t, source, scope, w)
  BY DEF FieldTypeErrors
<1>3. QED
  BY <1>1, <1>2

(* An accepted schema is what was written. *)
LEMMA AcceptedWritten ==
  ASSUME CompilerInv, Accepted
  PROVE  IsWritten(table, defs)
<1>1. Parsed(sources) /\ TableOK(sources, table) /\ defs = DefsOf(table) /\ CleanDefs
  BY TableKnown DEF CompilerInv, Accepted
<1>2. PICK t : t = table
  OBVIOUS
<1>3. DOMAIN t.types = DOMAIN defs
  BY <1>1, <1>2, DefsAreSorted
<1>4. ASSUME NEW id \in DOMAIN defs
      PROVE  LET site == t.types[id] IN
             /\ site.item.tag = defs[id].tag
             /\ defs[id].tag = "struct" =>
                  /\ Len(site.item.fields) \in Nat /\ DOMAIN defs[id].fields = 1 .. Len(site.item.fields)
                  /\ \A k \in 1 .. Len(site.item.fields) :
                       WrittenAs(t, site.source, id, site.item.fields[k].ty, defs[id].fields[k].ty)
             /\ defs[id].tag = "type" =>
                  WrittenAs(t, site.source, id, site.item.target, defs[id].target)
  <2>1. PICK site, item, def : site = t.types[id] /\ item = site.item /\ def = defs[id]
    OBVIOUS
  <2>2. id \in DOMAIN t.types /\ defs = DefsOf(t)
    BY <1>1, <1>2, <1>3, <1>4
  <2>3. item.tag = def.tag
    BY <2>1, <2>2, SortedBody
  <2>4. DefErrors(t, id, site, item) = {}
    BY <1>1, <1>2, <1>4, <2>1 DEF CleanDefs
  <2>5. /\ item.tag \in {"struct", "message", "hub"} => IsSeq(item.fields)
        /\ \A w \in TypesOf(item) : IsTree(w)
    BY <1>1, <1>2, <2>1, <2>2, ItemParsed
  <2>6. RawDefs(t)[id] = LowerDef(t, id, site, item)
    BY <2>1, <2>2 DEF RawDefs
  <2>7. RawDefs(t)[id].tag = item.tag
    BY <2>6, LoweredHead
  <2>8. item.tag # "message" => def = LowerDef(t, id, site, item)
    BY <2>1, <2>2, <2>6, <2>7, DefsAreSorted
  <2>9. PICK body : body = LowerBody(t, id, site, item)
    OBVIOUS
  <2>10. ASSUME item.tag = "struct"
         PROVE  /\ Len(item.fields) \in Nat /\ DOMAIN def.fields = 1 .. Len(item.fields)
                /\ \A k \in 1 .. Len(item.fields) :
                     WrittenAs(t, site.source, id, item.fields[k].ty, def.fields[k].ty)
    <3>1. Len(item.fields) \in Nat /\ DOMAIN item.fields = 1 .. Len(item.fields)
      BY <2>5, <2>10, SeqFacts
    <3>2. "fields" \in DOMAIN body /\ body.fields = LowerFields(t, site.source, id, item.fields)
      BY <2>9, <2>10 DEF LowerBody
    <3>3. def.fields = LowerFields(t, site.source, id, item.fields)
      BY <2>8, <2>9, <2>10, <3>2, LoweredBody
    <3>4. ASSUME NEW k \in DOMAIN item.fields
          PROVE  WrittenAs(t, site.source, id, item.fields[k].ty, def.fields[k].ty)
      <4>1. PICK w : w = item.fields[k].ty
        OBVIOUS
      <4>2. w \in FieldTypes(item.fields) /\ w \in TypesOf(item)
        BY <2>10, <3>4, <4>1 DEF FieldTypes, TypesOf, BodyTypes
      <4>3. FieldErrors(t, site.source, id, item.fields) = {}
        BY <2>4, <2>10 DEF DefErrors
      <4>4. TypeErrors(t, site.source, id, w, 1) = {}
        BY <4>2, <4>3, CleanFields
      <4>5. WrittenAs(t, site.source, id, w, LowerType(t, site.source, id, w))
        BY <2>5, <4>2, <4>4, CleanType
      <4>6. def.fields[k].ty = LowerType(t, site.source, id, w)
        BY <3>3, <3>4, <4>1 DEF LowerFields, LowerField
      <4>7. QED
        BY <4>1, <4>5, <4>6
    <3>5. QED
      BY <3>1, <3>3, <3>4 DEF LowerFields
  <2>11. ASSUME item.tag = "type"
         PROVE  WrittenAs(t, site.source, id, item.target, def.target)
    <3>1. "target" \in DOMAIN body /\ body.target = LowerType(t, site.source, id, item.target)
      BY <2>9, <2>11 DEF LowerBody
    <3>2. def.target = LowerType(t, site.source, id, item.target)
      BY <2>8, <2>9, <2>11, <3>1, LoweredBody
    <3>3. item.target \in TypesOf(item)
      BY <2>11 DEF TypesOf, BodyTypes
    <3>4. TypeErrors(t, site.source, id, item.target, 1) = {}
      BY <2>4, <2>11 DEF DefErrors, TargetErrors
    <3>5. QED
      BY <2>5, <3>2, <3>3, <3>4, CleanType
  <2>12. QED
    BY <2>1, <2>3, <2>10, <2>11
<1>5. QED
  BY <1>2, <1>3, <1>4 DEF IsWritten

-----------------------------------------------------------------------------
(* The declarations of an accepted schema whose values are of a fixed size. *)
FixedDefs == {id \in DOMAIN defs : sizes[id].fixed /\ defs[id].tag \notin {"message", "hub"}}

(* A type of a fixed size holds no collections and leads to such declarations. *)
LEMMA FixedTypeHolds ==
  ASSUME CompilerInv, CheckedInv, Accepted, NEW ty, NEW named, FixedType(ty, named),
         \A id \in Refs(ty) : /\ id \in DOMAIN defs /\ defs[id].tag \notin {"message", "hub"}
                              /\ named[id] <=> sizes[id].fixed
  PROVE  (\A p \in DOMAIN ty : ty[p].k \notin {"vec", "set", "map"}) /\ Refs(ty) \subseteq FixedDefs
BY DEF FixedType, FixedNode, FixedDefs

(* Those declarations hold no collections and no others. *)
LEMMA AcceptedFixed ==
  ASSUME CompilerInv, CheckedInv, Accepted
  PROVE  AreFixed(defs, FixedDefs)
<1>1. IsSound(defs) /\ SizesOf(defs, sizes)
  BY AcceptedSound
<1>2. defs = DefsOf(table) /\ DOMAIN defs = DOMAIN table.types
  <2>1. defs = DefsOf(table)
    BY DEF CompilerInv, Accepted
  <2>2. QED
    BY <2>1, DefsAreSorted
<1>3. ASSUME NEW id \in FixedDefs
      PROVE  /\ defs[id].tag \in {"enum", "struct", "type"}
             /\ \A ty \in BodyTypes(defs[id]) :
                  /\ \A p \in DOMAIN ty : ty[p].k \notin {"vec", "set", "map"}
                  /\ Refs(ty) \subseteq FixedDefs
  <2>1. PICK def : def = defs[id]
    OBVIOUS
  <2>2. id \in DOMAIN defs /\ sizes[id].fixed /\ def.tag \notin {"message", "hub"}
    BY <1>3, <2>1 DEF FixedDefs
  <2>3. PICK named : named = [other \in DirectRefs(def) |-> sizes[other].fixed]
    OBVIOUS
  <2>4. \A other \in DirectRefs(def) : named[other] <=> sizes[other].fixed
    BY <2>3
  <2>5. \A ty \in BodyTypes(def) : \A other \in Refs(ty) :
          other \in DirectRefs(def) /\ other \in DOMAIN defs /\ defs[other].tag \notin {"message", "hub"}
    BY <1>2, <2>1, <2>2, DefsRefs DEF DirectRefs, TypesOf
  <2>6. AreOfAKind(sizes, DirectRefs(def))
    BY <1>1, <2>5, DefsOfAKind DEF AreOfAKind, DirectRefs
  <2>7. sizes[id].fixed <=> FixedDef(defs, def, FALSE, named)
    BY <1>1, <2>1, <2>2, <2>4, <2>6, DefIsFixed
  <2>8. FixedDef(defs, def, FALSE, named)
    BY <2>2, <2>7
  <2>9. def.tag \in DefTags
    BY <1>1, <2>1, <2>2 DEF IsSound
  <2>10. def.tag \in {"enum", "struct", "type"}
    BY <2>2, <2>8, <2>9 DEF FixedDef, DefTags
  <2>11. ASSUME NEW ty \in BodyTypes(def) PROVE FixedType(ty, named)
    <3>1. CASE def.tag = "struct"
      <4>1. PICK k \in DOMAIN def.fields : ty = def.fields[k].ty
        BY <2>11, <3>1 DEF BodyTypes, FieldTypes
      <4>2. FixedField(defs, def.fields[k], named)
        BY <2>8, <3>1 DEF FixedDef
      <4>3. QED
        BY <4>1, <4>2 DEF FixedField
    <3>2. CASE def.tag = "type"
      BY <2>8, <2>11, <3>2 DEF FixedDef, BodyTypes
    <3>3. CASE def.tag = "enum"
      BY <2>11, <3>3 DEF BodyTypes
    <3>4. QED
      BY <2>10, <3>1, <3>2, <3>3
  <2>12. ASSUME NEW ty \in BodyTypes(def)
         PROVE  /\ \A p \in DOMAIN ty : ty[p].k \notin {"vec", "set", "map"}
                /\ Refs(ty) \subseteq FixedDefs
    BY <2>4, <2>5, <2>11, <2>12, FixedTypeHolds
  <2>13. QED
    BY <2>1, <2>10, <2>12
<1>4. QED
  BY <1>3 DEF AreFixed, FixedDefs

-----------------------------------------------------------------------------
(* The parts that sets and maps are searched by are checked. *)
LEMMA KeysAreChecked ==
  ASSUME NEW id \in DOMAIN defs, NEW ty \in TypesOf(defs[id]), NEW part \in Parts(ty),
         Root(part).k \in {"set", "map"}
  PROVE  ItemOf(part) \in ChecksOf(defs)
<1>1. ItemOf(part) \in MustBeFixed(ty)
  BY DEF MustBeFixed
<1>2. MustBeFixed(ty) \subseteq DefChecks(defs[id])
  <2>1. CASE ty \in BodyTypes(defs[id])
    BY <2>1 DEF DefChecks
  <2>2. CASE defs[id].tag = "hub" /\ ty = defs[id].key
    BY <2>2 DEF DefChecks
  <2>3. QED
    BY <2>1, <2>2 DEF TypesOf
<1>3. QED
  BY <1>1, <1>2 DEF ChecksOf

(* The key of a hub kind. *)
LEMMA HubKeys ==
  ASSUME CompilerInv, Accepted, NEW id \in OfTag(defs, "hub")
  PROVE  /\ defs[id].key \in ChecksOf(defs)
         /\ \E source, scope, w : /\ WrittenAs(table, source, scope, w, defs[id].key)
                                  /\ KeyErrors(table, source, scope, w) = {}
<1>1. Parsed(sources) /\ TableOK(sources, table) /\ defs = DefsOf(table) /\ CleanDefs
  BY TableKnown DEF CompilerInv, Accepted
<1>2. PICK t : t = table
  OBVIOUS
<1>3. id \in DOMAIN defs /\ defs[id].tag = "hub" /\ id \in DOMAIN t.types
  BY <1>1, <1>2, DefsAreSorted DEF OfTag
<1>4. PICK site, item : site = t.types[id] /\ item = site.item
  OBVIOUS
<1>5. item.tag = "hub" /\ RawDefs(t)[id] = LowerDef(t, id, site, item)
  BY <1>1, <1>2, <1>3, <1>4, SortedBody DEF RawDefs
<1>6. RawDefs(t)[id].tag = "hub"
  BY <1>5, LoweredHead
<1>7. defs[id] = LowerDef(t, id, site, item)
  BY <1>1, <1>2, <1>3, <1>5, <1>6, DefsAreSorted
<1>8. PICK body : body = LowerBody(t, id, site, item)
  OBVIOUS
<1>9. "key" \in DOMAIN body /\ body.key = LowerType(t, site.source, site.parent, item.key)
  BY <1>5, <1>8 DEF LowerBody
<1>10. defs[id].key = LowerType(t, site.source, site.parent, item.key)
  BY <1>7, <1>8, <1>9, LoweredBody
<1>11. DefErrors(t, id, site, item) = {}
  BY <1>1, <1>2, <1>3, <1>4 DEF CleanDefs
<1>12. /\ TypeErrors(t, site.source, site.parent, item.key, 1) = {}
       /\ KeyErrors(t, site.source, site.parent, item.key) = {}
  BY <1>5, <1>11 DEF DefErrors
<1>13. item.key \in TypesOf(item)
  BY <1>5 DEF TypesOf
<1>14. IsTree(item.key)
  BY <1>1, <1>2, <1>3, <1>4, <1>13, ItemParsed
<1>15. WrittenAs(t, site.source, site.parent, item.key, defs[id].key)
  BY <1>10, <1>12, <1>14, CleanType
<1>16. defs[id].key \in ChecksOf(defs)
  BY <1>3 DEF ChecksOf, DefChecks
<1>17. QED
  BY <1>2, <1>12, <1>15, <1>16

(* Every key is checked, and was written without an error. *)
LEMMA KeysWritten ==
  ASSUME CompilerInv, Accepted, NEW key \in Keys
  PROVE  /\ key \in ChecksOf(defs)
         /\ \E source, scope, w : /\ WrittenAs(table, source, scope, w, key)
                                  /\ KeyErrors(table, source, scope, w) = {}
<1>1. CASE \E id \in OfTag(defs, "hub") : key = defs[id].key
  BY <1>1, HubKeys
<1>2. CASE \E part \in AllParts : Root(part).k \in {"set", "map"} /\ key = ItemOf(part)
  <2>1. Parsed(sources) /\ TableOK(sources, table) /\ defs = DefsOf(table) /\ CleanDefs
    BY TableKnown DEF CompilerInv, Accepted
  <2>2. PICK part \in AllParts : Root(part).k \in {"set", "map"} /\ key = ItemOf(part)
    BY <1>2
  <2>3. PICK id \in DOMAIN defs : \E ty \in TypesOf(defs[id]) : part \in Parts(ty)
    BY <2>2 DEF AllParts, AllTypes
  <2>4. PICK ty \in TypesOf(defs[id]) : part \in Parts(ty)
    BY <2>3
  <2>5. PICK t : t = table
    OBVIOUS
  <2>6. id \in DOMAIN t.types
    BY <2>1, <2>3, <2>5, DefsAreSorted
  <2>7. PICK site, item : site = t.types[id] /\ item = site.item
    OBVIOUS
  <2>8. ty \in TypesOf(LowerDef(t, id, site, item))
    BY <2>1, <2>4, <2>5, <2>6, <2>7, SortedBody DEF RawDefs
  <2>9. DefErrors(t, id, site, item) = {}
    BY <2>1, <2>3, <2>5, <2>7 DEF CleanDefs
  <2>10. PICK w \in TypesOf(item) : IsLoweredFrom(t, ty, w, TRUE)
    <3>1. PICK def, clean : def = LowerDef(t, id, site, item) /\ clean = (DefErrors(t, id, site, item) = {})
      OBVIOUS
    <3>2. clean = TRUE
      BY <2>9, <3>1
    <3>3. TypesLoweredFrom(t, def, item, clean)
      BY <3>1, LoweredTypes
    <3>4. QED
      BY <2>8, <3>1, <3>2, <3>3 DEF TypesLoweredFrom
  <2>11. PICK source, scope, options : ty = LowerType(t, source, scope, w)
                                       /\ TypeErrors(t, source, scope, w, options) = {}
    BY <2>10 DEF IsLoweredFrom
  <2>12. IsTree(w)
    BY <2>1, <2>5, <2>6, <2>7, <2>10, ItemParsed
  <2>13. \E v : WrittenAs(t, source, scope, v, key) /\ KeyErrors(t, source, scope, v) = {}
    BY <2>2, <2>4, <2>11, <2>12, CleanKeys
  <2>14. key \in ChecksOf(defs)
    BY <2>2, <2>3, <2>4, KeysAreChecked
  <2>15. QED
    BY <2>5, <2>13, <2>14
<1>3. QED
  BY <1>1, <1>2 DEF Keys

(* What a key refers to. *)
LEMMA WrittenRefs ==
  ASSUME NEW t, NEW source, NEW scope, NEW w, NEW ty, WrittenAs(t, source, scope, w, ty)
  PROVE  IsTree(ty) /\ \A id \in Refs(ty) : id \in DOMAIN t.types /\ TagOf(t, id) \notin {"message", "hub"}
<1>1. IsTree(w) /\ ty = LowerType(t, source, scope, w)
  BY DEF WrittenAs
<1>2. QED
  BY <1>1, LoweredTree, LoweredRefs

(* Whatever a pure declaration leads to writes no float. *)
LEMMA PureStored ==
  ASSUME NEW schema, IsSound(schema), NEW ids, ids \subseteq Pure(schema)
  PROVE  Closure(References(schema), ids) \subseteq FloatFree(schema)
<1>1. PICK refs : refs = References(schema)
  OBVIOUS
<1>2. DOMAIN refs = DOMAIN schema /\ IsGraph(refs) /\ IsFiniteSet(DOMAIN refs)
  BY <1>1 DEF IsSound, References
<1>3. /\ Pure(schema) \subseteq FloatFree(schema) /\ Pure(schema) \in SUBSET DOMAIN refs
      /\ ClosedUnder(refs, Pure(schema))
  BY <1>1, <1>2, PureIsLargest
<1>4. Closure(refs, ids) \subseteq Pure(schema)
  BY <1>2, <1>3, ClosureIsLeast
<1>5. QED
  BY <1>1, <1>3, <1>4

(* The keys of an accepted schema. *)
LEMMA CompilerKeys == CompilerInv /\ CheckedInv => KeysFixedAndFloatFree
<1>1. SUFFICES ASSUME CompilerInv, CheckedInv, Accepted, NEW key \in Keys
               PROVE  /\ TypeSize(sizes, key).fixed
                      /\ \A node \in Stored(key) : node.k \notin FloatKinds
  BY DEF KeysFixedAndFloatFree
<1>2. /\ key \in ChecksOf(defs)
      /\ \E source, scope, w : /\ WrittenAs(table, source, scope, w, key)
                               /\ KeyErrors(table, source, scope, w) = {}
  BY <1>1, KeysWritten
<1>3. PICK t : t = table
  OBVIOUS
<1>4. PICK source, scope, w : WrittenAs(t, source, scope, w, key) /\ KeyErrors(t, source, scope, w) = {}
  BY <1>2, <1>3
<1>5. IsSound(defs) /\ SizesOf(defs, sizes)
  BY <1>1, AcceptedSound
<1>6. defs = DefsOf(t) /\ DOMAIN defs = DOMAIN t.types
  <2>1. defs = DefsOf(t)
    BY <1>1, <1>3 DEF CompilerInv, Accepted
  <2>2. QED
    BY <2>1, DefsAreSorted
<1>7. IsTree(key) /\ \A id \in Refs(key) : id \in DOMAIN defs /\ defs[id].tag \notin {"message", "hub"}
  BY <1>4, <1>6, WrittenRefs, SortedBody DEF TagOf
<1>8. IsFixed(defs, key) /\ IsFixed(defs, key) = TypeSize(sizes, key).fixed
  <2>1. IsFixed(defs, key)
    BY <1>1, <1>2 DEF CheckedInv, Accepted, AllFixed
  <2>2. Refs(key) \subseteq DOMAIN defs /\ \A id \in Refs(key) : defs[id].tag # "message"
    BY <1>7
  <2>3. QED
    BY <1>5, <1>7, <2>1, <2>2, FixedAgrees
<1>9. TypeSize(sizes, key).fixed
  BY <1>8
<1>10. (\A p \in DOMAIN key : key[p].k \notin {"vec", "set", "map"}) /\ Refs(key) \subseteq FixedDefs
  <2>1. PICK named : named = [id \in Refs(key) |-> sizes[id].fixed]
    OBVIOUS
  <2>2. \A id \in Refs(key) : named[id] <=> sizes[id].fixed
    BY <2>1
  <2>3. AreOfAKind(sizes, Refs(key))
    BY <1>5, <1>7, DefsOfAKind DEF AreOfAKind
  <2>4. TypeSize(sizes, key).fixed <=> FixedType(key, named)
    BY <1>7, <2>2, <2>3, TypeIsFixed
  <2>5. FixedType(key, named)
    BY <1>9, <2>4
  <2>6. QED
    BY <1>1, <1>7, <2>2, <2>5, FixedTypeHolds
<1>11. PICK holds, all, none : holds = Holds(t) /\ all = DOMAIN defs /\ none = {}
  OBVIOUS
<1>12. \A id \in FixedDefs : SearchesWell(defs, holds, all, id)
  <2>1. IsWritten(t, defs) /\ AreFixed(defs, FixedDefs)
    BY <1>1, <1>3, AcceptedWritten, AcceptedFixed
  <2>2. QED
    BY <1>5, <1>11, <2>1, AllSearched
<1>13. ~ InlineFloat(t, source, scope, w, none, holds).float
  <2>1. Error(HoldsFloat(t, source, scope, w), "key holds a float") = {}
    BY <1>4 DEF KeyErrors
  <2>2. ~ HoldsFloat(t, source, scope, w)
    BY <2>1 DEF Error
  <2>3. QED
    BY <1>11, <2>2, HoldsFloatIsHolds
<1>14. /\ \A node \in Range(key) : node.k \notin FloatKinds
       /\ Refs(key) \subseteq Pure(defs)
  <2>1. all \in SUBSET DOMAIN defs /\ Refs(key) \subseteq all
    BY <1>7, <1>11
  <2>2. \A id \in Refs(key) : SearchesWell(defs, holds, all, id)
    BY <1>10, <1>12
  <2>3. none \in SUBSET DOMAIN defs /\ none \cap all \subseteq Pure(defs)
    BY <1>11
  <2>4. /\ \A node \in Range(key) : node.k \notin FloatKinds
        /\ Refs(key) \subseteq Pure(defs)
        /\ InlineFloat(t, source, scope, w, none, holds).visited \subseteq none \cup Pure(defs)
    <3>1. PICK schema, ty : schema = defs /\ ty = key
      OBVIOUS
    <3>2. WrittenAs(t, source, scope, w, ty)
      BY <1>4, <3>1
    <3>3. \A p \in DOMAIN ty : ty[p].k \notin {"vec", "set", "map"}
      BY <1>10, <3>1
    <3>4. all \in SUBSET DOMAIN schema /\ Refs(ty) \subseteq all
      BY <2>1, <3>1
    <3>5. \A id \in Refs(ty) : SearchesWell(schema, holds, all, id)
      BY <2>2, <3>1
    <3>6. none \in SUBSET DOMAIN schema /\ none \cap all \subseteq Pure(schema)
      BY <2>3, <3>1
    <3>7. /\ \A node \in Range(ty) : node.k \notin FloatKinds
          /\ Refs(ty) \subseteq Pure(schema)
          /\ InlineFloat(t, source, scope, w, none, holds).visited \subseteq none \cup Pure(schema)
      BY <1>13, <3>2, <3>3, <3>4, <3>5, <3>6, TypeSearched
    <3>8. QED
      BY <3>1, <3>7
  <2>5. QED
    BY <2>4
<1>15. ASSUME NEW node \in Stored(key) PROVE node.k \notin FloatKinds
  <2>1. CASE node \in Range(key)
    BY <1>14, <2>1
  <2>2. CASE \E id \in Closure(References(defs), Refs(key)) :
               \E ty \in BodyTypes(defs[id]) : node \in Range(ty)
    <3>1. Closure(References(defs), Refs(key)) \subseteq FloatFree(defs)
      BY <1>5, <1>14, PureStored
    <3>2. QED
      BY <2>2, <3>1 DEF FloatFree
  <2>3. QED
    BY <1>15, <2>1, <2>2 DEF Stored
<1>16. QED
  BY <1>9, <1>15

(* The keys of an accepted schema are of one size and hold no float, however *)
(* they are written.                                                         *)
THEOREM KeysAlwaysFixedAndFloatFree == Spec => []KeysFixedAndFloatFree
<1>1. CompilerInv /\ CheckedInv => KeysFixedAndFloatFree
  BY CompilerKeys
<1>2. QED
  BY <1>1, CompilerInvariance, CheckedInvariance, PTL

-----------------------------------------------------------------------------
(* What a part has exactly when it keeps it itself and all of its own parts *)
(* have it, a type has exactly when every part keeps it.                    *)
LEMMA TreeAll ==
  ASSUME NEW ty, IsTree(ty), NEW has \in SUBSET DOMAIN ty, NEW kept,
         \A p \in DOMAIN ty : p \in has <=> p \in kept /\ DirectParts(ty)[p] \subseteq has
  PROVE  <<>> \in has <=> DOMAIN ty \subseteq kept
<1>1. \A p \in DOMAIN ty : p \in Seq({1, 2}) /\ Len(p) \in Nat
  BY LenProperties DEF IsTree
<1>2. ASSUME <<>> \in has PROVE DOMAIN ty \subseteq has
  <2>1. PICK missing, bad : missing = DOMAIN ty \ has /\ bad = {Len(p) : p \in missing}
    OBVIOUS
  <2> SUFFICES ASSUME missing # {} PROVE FALSE
    BY <2>1
  <2>2. PICK n \in bad : \A m \in bad : n <= m
    <3>1. bad # {}
      <4>1. PICK p : p \in missing
        OBVIOUS
      <4>2. Len(p) \in bad
        BY <2>1, <4>1
      <4>3. QED
        BY <4>2
    <3>2. bad \in SUBSET Nat
      BY <1>1, <2>1
    <3>3. QED
      BY <3>1, <3>2, LeastNumber
  <2>3. PICK p \in DOMAIN ty \ has : n = Len(p)
    BY <2>1, <2>2
  <2>4. p # <<>> /\ p \in Seq({1, 2})
    BY <1>1, <1>2, <2>3, SMTT(20)
  <2>5. PICK last \in Nat : Len(p) = last + 1
    <3>1. Len(p) \in Nat \ {0}
      BY <2>4, EmptySeq, LenProperties
    <3>2. Len(p) - 1 \in Nat /\ Len(p) = (Len(p) - 1) + 1
      BY <3>1
    <3>3. QED
      BY <3>2
  <2>6. PICK q : q = SubSeq(p, 1, last)
    OBVIOUS
  <2>7. q \in DOMAIN ty /\ Len(q) = last
    <3>1. SubSeq(p, 1, last) \in DOMAIN ty
      <4>1. SubSeq(p, 1, Len(p) - 1) \in DOMAIN ty
        BY <2>3, <2>4 DEF IsTree
      <4>2. Len(p) - 1 = last
        BY <2>5
      <4>3. QED
        BY <4>1, <4>2
    <3>2. \A j \in 1 .. last : p[j] \in {1, 2}
      <4>1. \A j \in 1 .. last : j \in 1 .. Len(p)
        BY <2>5
      <4>2. QED
        BY <2>4, <4>1, ElementOfSeq
    <3>3. Len(SubSeq(p, 1, last)) = last
      BY <2>5, <3>2, SubSeqProperties
    <3>4. QED
      BY <2>6, <3>1, <3>3
  <2>8. p \in DirectParts(ty)[q]
    <3>1. PICK i : i = p[last + 1]
      OBVIOUS
    <3>2. i \in {1, 2}
      <4>1. last + 1 \in 1 .. Len(p)
        BY <2>5
      <4>2. QED
        BY <2>4, <3>1, <4>1, ElementOfSeq
    <3>3. p = q \o <<i>>
      BY <2>4, <2>5, <2>6, <3>1
    <3>4. QED
      BY <2>3, <2>7, <3>2, <3>3, TreeArms
  <2>9. q \notin has
    <3>1. q \in has => q \in kept /\ DirectParts(ty)[q] \subseteq has
      BY <2>7
    <3>2. QED
      BY <2>3, <2>8, <3>1
  <2>10. Len(q) \in bad
    BY <2>1, <2>7, <2>9
  <2>11. n <= Len(q)
    BY <2>2, <2>10
  <2>12. QED
    BY <2>3, <2>5, <2>7, <2>11
<1>3. ASSUME DOMAIN ty \subseteq kept PROVE DOMAIN ty \subseteq has
  <2>1. PICK ids : ids = DOMAIN ty \ has
    OBVIOUS
  <2>2. ASSUME NEW p \in ids PROVE DirectParts(ty)[p] \cap ids # {}
    <3>1. ~ (DirectParts(ty)[p] \subseteq has)
      BY <1>3, <2>1, <2>2
    <3>2. DirectParts(ty)[p] \subseteq DOMAIN ty
      BY <2>1, <2>2 DEF DirectParts
    <3>3. QED
      BY <2>1, <3>1, <3>2
  <2>3. ids \in SUBSET DOMAIN DirectParts(ty)
    BY <2>1 DEF DirectParts
  <2>4. ids = {}
    BY <2>2, <2>3, TreeEnds DEF HasRing, Ring
  <2>5. QED
    BY <2>1, <2>4
<1>4. <<>> \in DOMAIN ty
  BY DEF IsTree
<1>5. DOMAIN ty \subseteq has => DOMAIN ty \subseteq kept
  OBVIOUS
<1>6. QED
  BY <1>2, <1>3, <1>4, <1>5

-----------------------------------------------------------------------------
(* The recursion of TypeTraits. *)
AreTraits(known, ty, traits) == traits = [p \in DOMAIN ty |-> PartTraits(known, ty, traits, p)]

(* The traits of a part depend on those of its own parts and on the         *)
(* declaration it names.                                                    *)
LEMMA PartTraitsLocal ==
  ASSUME NEW ty, IsTree(ty), NEW f, NEW g, NEW a, NEW b, NEW p \in DOMAIN ty,
         \A q \in DirectParts(ty)[p] : f[q] = g[q],
         \A id \in Refs(ty) : a[id] = b[id]
  PROVE  PartTraits(a, ty, f, p) = PartTraits(b, ty, g, p)
<1>1. PICK node : node = ty[p]
  OBVIOUS
<1>2. node.k \in {"array", "vec", "set", "map"} => f[p \o <<1>>] = g[p \o <<1>>]
  BY <1>1, TreeArms
<1>3. node.k = "map" => f[p \o <<2>>] = g[p \o <<2>>]
  BY <1>1, TreeArms
<1>4. node.k = "named" => a[node.id] = b[node.id]
  BY <1>1 DEF Refs, Range
<1>5. QED
  BY <1>1, <1>2, <1>3, <1>4 DEF PartTraits

(* It has a solution. *)
LEMMA TraitsExist ==
  ASSUME NEW ty, IsTree(ty), NEW known
  PROVE  \E traits : AreTraits(known, ty, traits) /\ TypeTraits(known, ty) = traits[<<>>]
<1> DEFINE Solves(f, S) == \A p \in S : DirectParts(ty)[p] \subseteq S /\ f[p] = PartTraits(known, ty, f, p)
           G == {S \in SUBSET DOMAIN ty : \E f : f = [p \in DOMAIN ty |-> f[p]] /\ Solves(f, S)}
<1>1. {} \in G
  <2>1. PICK f : f = [p \in DOMAIN ty |-> 0]
    OBVIOUS
  <2>2. f = [p \in DOMAIN ty |-> f[p]]
    BY <2>1
  <2>3. QED
    BY <2>2
<1>2. ASSUME NEW S \in SUBSET DOMAIN ty, NEW p \in DOMAIN ty \ S, S \in G, DirectParts(ty)[p] \subseteq S
      PROVE  S \cup {p} \in G
  <2>1. PICK f : f = [q \in DOMAIN ty |-> f[q]] /\ Solves(f, S)
    BY <1>2
  <2>2. PICK g : g = [q \in DOMAIN ty |-> IF q = p THEN PartTraits(known, ty, f, p) ELSE f[q]]
    OBVIOUS
  <2>3. g = [q \in DOMAIN ty |-> g[q]] /\ \A q \in S : g[q] = f[q]
    BY <1>2, <2>2
  <2>4. g[p] = PartTraits(known, ty, f, p)
    BY <2>2
  <2>5. \A q \in S \cup {p} : \A r \in DirectParts(ty)[q] : f[r] = g[r]
    BY <1>2, <2>1, <2>3
  <2>6. \A q \in S \cup {p} : PartTraits(known, ty, f, q) = PartTraits(known, ty, g, q)
    BY <1>2, <2>5, PartTraitsLocal
  <2>7. Solves(g, S \cup {p})
    BY <1>2, <2>1, <2>3, <2>4, <2>6
  <2>8. QED
    BY <1>2, <2>3, <2>7
<1> HIDE DEF G
<1>3. DOMAIN DirectParts(ty) = DOMAIN ty
  BY DEF DirectParts
<1>4. DOMAIN ty \in G
  BY <1>1, <1>2, <1>3, TreeEnds, AlongReferences
<1>5. PICK f : f = [p \in DOMAIN ty |-> f[p]] /\ Solves(f, DOMAIN ty)
  BY <1>4 DEF G
<1>6. AreTraits(known, ty, f)
  BY <1>5 DEF AreTraits
<1>7. PICK traits : traits = CHOOSE h : AreTraits(known, ty, h)
  OBVIOUS
<1>8. AreTraits(known, ty, traits)
  BY <1>6, <1>7
<1>9. TypeTraits(known, ty) = traits[<<>>]
  BY <1>7 DEF TypeTraits, AreTraits
<1>10. QED
  BY <1>8, <1>9

(* The traits of a type depend on those of what it names. *)
LEMMA TypeTraitsLocal ==
  ASSUME NEW ty, IsTree(ty), NEW a, NEW b, \A id \in Refs(ty) : a[id] = b[id]
  PROVE  TypeTraits(a, ty) = TypeTraits(b, ty)
<1>1. PICK f : AreTraits(a, ty, f) /\ TypeTraits(a, ty) = f[<<>>]
  BY TraitsExist
<1>2. PICK g : AreTraits(b, ty, g) /\ TypeTraits(b, ty) = g[<<>>]
  BY TraitsExist
<1> DEFINE G == {S \in SUBSET DOMAIN ty : \A p \in S : f[p] = g[p]}
<1>3. {} \in G
  OBVIOUS
<1>4. ASSUME NEW S \in SUBSET DOMAIN ty, NEW p \in DOMAIN ty \ S, S \in G, DirectParts(ty)[p] \subseteq S
      PROVE  S \cup {p} \in G
  <2>1. \A q \in DirectParts(ty)[p] : f[q] = g[q]
    BY <1>4
  <2>2. PartTraits(a, ty, f, p) = PartTraits(b, ty, g, p)
    BY <1>4, <2>1, PartTraitsLocal
  <2>3. f[p] = PartTraits(a, ty, f, p) /\ g[p] = PartTraits(b, ty, g, p)
    BY <1>1, <1>2 DEF AreTraits
  <2>4. QED
    BY <1>4, <2>2, <2>3
<1> HIDE DEF G
<1>5. DOMAIN DirectParts(ty) = DOMAIN ty
  BY DEF DirectParts
<1>6. DOMAIN ty \in G
  BY <1>3, <1>4, <1>5, TreeEnds, AlongReferences
<1>7. <<>> \in DOMAIN ty
  BY DEF IsTree
<1>8. QED
  BY <1>1, <1>2, <1>6, <1>7 DEF G

-----------------------------------------------------------------------------
(* The traits that follow from what is held alone. *)
Lasting == {"eq", "hash", "copy"}

(* Whether a node itself stands in the way of one. *)
Keeps(trait, node) ==
  CASE trait = "eq" -> node.k \notin FloatKinds
    [] trait = "hash" -> node.k \notin FloatKinds \cup {"set", "map"}
    [] trait = "copy" -> ~ NotCopied(node)

(* Traits are known of some declarations. *)
AreKnown(known, ids) == \A id \in ids : known[id] \subseteq AllTraits

(* A part has no other traits than there are, and one of these if it keeps  *)
(* it and its own parts have it.                                            *)
LEMMA PartKeeps ==
  ASSUME NEW ty, IsTree(ty), NEW known, AreKnown(known, Refs(ty)),
         NEW traits, AreTraits(known, ty, traits), NEW p \in DOMAIN ty,
         \A q \in DirectParts(ty)[p] : traits[q] \subseteq AllTraits
  PROVE  /\ traits[p] \subseteq AllTraits
         /\ \A trait \in Lasting :
              trait \in traits[p] <=> /\ Keeps(trait, ty[p])
                                      /\ ty[p].k = "named" => trait \in known[ty[p].id]
                                      /\ \A q \in DirectParts(ty)[p] : trait \in traits[q]
<1>1. PICK node, here : node = ty[p] /\ here = traits[p]
  OBVIOUS
<1>2. here = PartTraits(known, ty, traits, p) /\ node.k \in Kinds
  BY <1>1 DEF AreTraits, IsTree
<1>3. CASE node.k \notin {"array", "vec", "set", "map", "named"}
  <2>1. DirectParts(ty)[p] = {}
    BY <1>1, <1>3, TreeArms DEF DirectParts
  <2>2. here \subseteq AllTraits /\ \A trait \in Lasting : trait \in here <=> Keeps(trait, node)
    <3>1. CASE node.k \in FloatKinds
      <4>1. here = AllTraits \ {"eq", "hash"}
        BY <1>1, <1>2, <3>1 DEF PartTraits, FloatKinds
      <4>2. node.k \notin {"string", "bytes", "vec", "set", "map"}
        BY <3>1 DEF FloatKinds
      <4>3. QED
        BY <3>1, <4>1, <4>2 DEF AllTraits, Lasting, Keeps, NotCopied
    <3>2. CASE node.k \in {"entity", "timestamp"}
      <4>1. here = AllTraits \ {"default"}
        BY <1>1, <1>2, <3>2 DEF PartTraits, FloatKinds
      <4>2. node.k \notin FloatKinds
        BY <3>2 DEF FloatKinds
      <4>3. QED
        BY <3>2, <4>1, <4>2 DEF AllTraits, Lasting, Keeps, NotCopied
    <3>3. CASE node.k = "string"
      <4>1. here = AllTraits \ {"copy"}
        BY <1>1, <1>2, <3>3 DEF PartTraits, FloatKinds
      <4>2. node.k \notin FloatKinds
        BY <3>3 DEF FloatKinds
      <4>3. QED
        BY <3>3, <4>1, <4>2 DEF AllTraits, Lasting, Keeps, NotCopied
    <3>4. CASE node.k = "bytes"
      <4>1. PICK length : length = FixedLength(node.cons)
        OBVIOUS
      <4>2. here = AllTraits \ (IF length = None THEN {"copy"}
                                ELSE IF length[1] <= Defaults THEN {} ELSE {"default"})
        BY <1>1, <1>2, <3>4, <4>1 DEF PartTraits, FloatKinds
      <4>3. /\ here \subseteq AllTraits /\ {"eq", "hash"} \subseteq here
            /\ "copy" \in here <=> length # None
        BY <4>2 DEF AllTraits
      <4>4. node.k \notin FloatKinds
        BY <3>4 DEF FloatKinds
      <4>5. NotCopied(node) <=> length = None
        BY <3>4, <4>1 DEF NotCopied
      <4>6. QED
        BY <3>4, <4>3, <4>4, <4>5 DEF Lasting, Keeps
    <3>5. CASE node.k \notin FloatKinds \cup {"entity", "timestamp", "string", "bytes"}
      <4>1. here = AllTraits
        BY <1>1, <1>2, <1>3, <3>5 DEF PartTraits
      <4>2. QED
        BY <1>3, <3>5, <4>1 DEF AllTraits, Lasting, Keeps, NotCopied
    <3>6. QED
      BY <3>1, <3>2, <3>3, <3>4, <3>5
  <2>3. QED
    BY <1>1, <1>3, <2>1, <2>2
<1>4. CASE node.k \in {"array", "vec", "set"}
  <2>1. PICK first : first = traits[p \o <<1>>]
    OBVIOUS
  <2>2. p \o <<1>> \in DirectParts(ty)[p] /\ p \o <<2>> \notin DOMAIN ty
    BY <1>1, <1>4, TreeArms
  <2>3. \A q \in DirectParts(ty)[p] : q = p \o <<1>>
    BY <2>2 DEF DirectParts
  <2>4. first \subseteq AllTraits
    BY <2>1, <2>2
  <2>5. node.k \notin FloatKinds
    BY <1>4 DEF FloatKinds
  <2>6. here \subseteq AllTraits /\ \A trait \in Lasting : trait \in here <=> Keeps(trait, node) /\ trait \in first
    <3>1. CASE node.k = "array"
      <4>1. here = first \ (IF node.len <= Defaults THEN {} ELSE {"default"})
        BY <1>1, <1>2, <2>1, <3>1 DEF PartTraits, FloatKinds
      <4>2. here \subseteq AllTraits /\ \A trait \in Lasting : trait \in here <=> trait \in first
        BY <2>4, <4>1 DEF Lasting
      <4>3. \A trait \in Lasting : Keeps(trait, node)
        BY <2>5, <3>1 DEF Lasting, Keeps, NotCopied
      <4>4. QED
        BY <4>2, <4>3
    <3>2. CASE node.k = "vec"
      <4>1. here = (first \cup {"default"}) \ {"copy"}
        BY <1>1, <1>2, <2>1, <3>2 DEF PartTraits, FloatKinds
      <4>2. QED
        BY <2>4, <2>5, <3>2, <4>1 DEF AllTraits, Lasting, Keeps, NotCopied
    <3>3. CASE node.k = "set"
      <4>1. here = (first \cap {"eq"}) \cup {"default"}
        BY <1>1, <1>2, <2>1, <3>3 DEF PartTraits, FloatKinds
      <4>2. QED
        BY <2>4, <2>5, <3>3, <4>1 DEF AllTraits, Lasting, Keeps, NotCopied
    <3>4. QED
      BY <1>4, <3>1, <3>2, <3>3
  <2>7. \A trait : (\A q \in DirectParts(ty)[p] : trait \in traits[q]) <=> trait \in first
    BY <2>1, <2>2, <2>3
  <2>8. node.k # "named"
    BY <1>4
  <2>9. QED
    BY <1>1, <2>6, <2>7, <2>8
<1>5. CASE node.k = "map"
  <2>1. PICK first, second : first = traits[p \o <<1>>] /\ second = traits[p \o <<2>>]
    OBVIOUS
  <2>2. p \o <<1>> \in DirectParts(ty)[p] /\ p \o <<2>> \in DirectParts(ty)[p]
    BY <1>1, <1>5, TreeArms
  <2>3. \A q \in DirectParts(ty)[p] : q = p \o <<1>> \/ q = p \o <<2>>
    BY DEF DirectParts
  <2>4. here = (first \cap second \cap {"eq"}) \cup {"default"}
    BY <1>1, <1>2, <1>5, <2>1 DEF PartTraits, FloatKinds
  <2>5. node.k \notin FloatKinds
    BY <1>5 DEF FloatKinds
  <2>6. /\ here \subseteq AllTraits
        /\ \A trait \in Lasting : trait \in here <=> Keeps(trait, node) /\ trait \in first /\ trait \in second
    BY <1>5, <2>4, <2>5 DEF AllTraits, Lasting, Keeps, NotCopied
  <2>7. \A trait : (\A q \in DirectParts(ty)[p] : trait \in traits[q]) <=> trait \in first /\ trait \in second
    BY <2>1, <2>2, <2>3
  <2>8. QED
    BY <1>1, <1>5, <2>6, <2>7
<1>6. CASE node.k = "named"
  <2>1. here = known[node.id]
    BY <1>1, <1>2, <1>6 DEF PartTraits, FloatKinds
  <2>2. DirectParts(ty)[p] = {}
    BY <1>1, <1>6, TreeArms DEF DirectParts
  <2>3. node.id \in Refs(ty)
    BY <1>1, <1>6 DEF Refs, Range
  <2>4. \A trait \in Lasting : Keeps(trait, node)
    BY <1>6 DEF Lasting, Keeps, NotCopied, FloatKinds
  <2>5. QED
    BY <1>1, <1>6, <2>1, <2>2, <2>3, <2>4 DEF AreKnown
<1>7. QED
  BY <1>3, <1>4, <1>5, <1>6

(* A type has one of these when all of its nodes keep it and all it names   *)
(* have it.                                                                 *)
LEMMA TypeKeeps ==
  ASSUME NEW ty, IsTree(ty), NEW known, AreKnown(known, Refs(ty))
  PROVE  /\ TypeTraits(known, ty) \subseteq AllTraits
         /\ \A trait \in Lasting :
              trait \in TypeTraits(known, ty)
                <=> /\ \A node \in Range(ty) : Keeps(trait, node)
                    /\ \A id \in Refs(ty) : trait \in known[id]
<1>1. PICK traits : AreTraits(known, ty, traits) /\ TypeTraits(known, ty) = traits[<<>>]
  BY TraitsExist
<1> DEFINE G == {S \in SUBSET DOMAIN ty : \A p \in S : traits[p] \subseteq AllTraits}
<1>2. {} \in G
  OBVIOUS
<1>3. ASSUME NEW S \in SUBSET DOMAIN ty, NEW p \in DOMAIN ty \ S, S \in G, DirectParts(ty)[p] \subseteq S
      PROVE  S \cup {p} \in G
  <2>1. \A q \in DirectParts(ty)[p] : traits[q] \subseteq AllTraits
    BY <1>3
  <2>2. p \in DOMAIN ty
    BY <1>3
  <2> HIDE DEF G
  <2>3. traits[p] \subseteq AllTraits
    BY <1>1, <2>1, <2>2, PartKeeps
  <2>4. QED
    BY <1>3, <2>3 DEF G
<1> HIDE DEF G
<1>4. DOMAIN DirectParts(ty) = DOMAIN ty
  BY DEF DirectParts
<1>5. DOMAIN ty \in G
  BY <1>2, <1>3, <1>4, TreeEnds, AlongReferences
<1>6. \A p \in DOMAIN ty : traits[p] \subseteq AllTraits /\ DirectParts(ty)[p] \subseteq DOMAIN ty
  BY <1>5 DEF G, DirectParts
<1>7. <<>> \in DOMAIN ty
  BY DEF IsTree
<1>8. ASSUME NEW trait \in Lasting
      PROVE  trait \in traits[<<>>] <=> /\ \A node \in Range(ty) : Keeps(trait, node)
                                        /\ \A id \in Refs(ty) : trait \in known[id]
  <2>1. PICK has, kept :
          /\ has = {p \in DOMAIN ty : trait \in traits[p]}
          /\ kept = {p \in DOMAIN ty : Keeps(trait, ty[p]) /\ (ty[p].k = "named" => trait \in known[ty[p].id])}
    OBVIOUS
  <2>2. ASSUME NEW p \in DOMAIN ty
        PROVE  p \in has <=> p \in kept /\ DirectParts(ty)[p] \subseteq has
    <3>1. trait \in traits[p] <=> /\ Keeps(trait, ty[p])
                                  /\ ty[p].k = "named" => trait \in known[ty[p].id]
                                  /\ \A q \in DirectParts(ty)[p] : trait \in traits[q]
      BY <1>1, <1>6, <1>8, PartKeeps
    <3>2. DirectParts(ty)[p] \subseteq DOMAIN ty
      BY <1>6
    <3>3. DirectParts(ty)[p] \subseteq has <=> \A q \in DirectParts(ty)[p] : trait \in traits[q]
      BY <2>1, <3>2
    <3>4. p \in kept <=> Keeps(trait, ty[p]) /\ (ty[p].k = "named" => trait \in known[ty[p].id])
      BY <2>1
    <3>5. p \in has <=> trait \in traits[p]
      BY <2>1
    <3>6. QED
      BY <3>1, <3>3, <3>4, <3>5
  <2>3. has \in SUBSET DOMAIN ty
    BY <2>1
  <2>4. <<>> \in has <=> DOMAIN ty \subseteq kept
    BY <2>2, <2>3, TreeAll
  <2>5. trait \in traits[<<>>] <=> <<>> \in has
    BY <1>7, <2>1
  <2>6. DOMAIN ty \subseteq kept
          <=> /\ \A p \in DOMAIN ty : Keeps(trait, ty[p])
              /\ \A p \in DOMAIN ty : ty[p].k = "named" => trait \in known[ty[p].id]
    BY <2>1
  <2>7. (\A node \in Range(ty) : Keeps(trait, node)) <=> \A p \in DOMAIN ty : Keeps(trait, ty[p])
    BY DEF Range
  <2>8. (\A id \in Refs(ty) : trait \in known[id])
          <=> \A p \in DOMAIN ty : ty[p].k = "named" => trait \in known[ty[p].id]
    <3>1. \A p \in DOMAIN ty : ty[p].k = "named" => ty[p].id \in Refs(ty)
      BY DEF Refs, Range
    <3>2. \A id \in Refs(ty) : \E p \in DOMAIN ty : ty[p].k = "named" /\ ty[p].id = id
      BY DEF Refs, Range
    <3>3. QED
      BY <3>1, <3>2
  <2>9. QED
    BY <2>4, <2>5, <2>6, <2>7, <2>8
<1>9. QED
  BY <1>1, <1>6, <1>7, <1>8

-----------------------------------------------------------------------------
(* What keeps one of these traits in a declaration: its nodes, and what it   *)
(* refers to.                                                                *)
KeepsAll(trait, types, known) ==
  \A ty \in types : /\ \A node \in Range(ty) : Keeps(trait, node)
                    /\ \A id \in Refs(ty) : trait \in known[id]

(* The traits of fields. *)
LEMMA FieldsKeep ==
  ASSUME NEW fields, AreTrees(FieldTypes(fields)), NEW known,
         \A ty \in FieldTypes(fields) : AreKnown(known, Refs(ty))
  PROVE  /\ FieldsTraits(known, fields) \subseteq AllTraits
         /\ \A trait \in Lasting :
              trait \in FieldsTraits(known, fields) <=> KeepsAll(trait, FieldTypes(fields), known)
<1>1. ASSUME NEW trait \in Lasting, NEW k \in DOMAIN fields
      PROVE  trait \in FieldTraits(known, fields[k])
               <=> /\ \A node \in Range(fields[k].ty) : Keeps(trait, node)
                   /\ \A id \in Refs(fields[k].ty) : trait \in known[id]
  <2>1. PICK ty, field : field = fields[k] /\ ty = field.ty
    OBVIOUS
  <2>2. ty \in FieldTypes(fields)
    BY <1>1, <2>1 DEF FieldTypes
  <2>3. IsTree(ty) /\ AreKnown(known, Refs(ty))
    BY <2>2 DEF AreTrees
  <2>4. trait \in TypeTraits(known, ty) <=> /\ \A node \in Range(ty) : Keeps(trait, node)
                                            /\ \A id \in Refs(ty) : trait \in known[id]
    BY <1>1, <2>3, TypeKeeps
  <2>5. trait # "default"
    BY <1>1 DEF Lasting
  <2>6. trait \in FieldTraits(known, field) <=> trait \in TypeTraits(known, ty)
    BY <2>1, <2>5 DEF FieldTraits
  <2>7. QED
    BY <2>1, <2>4, <2>6
<1>2. ASSUME NEW trait \in Lasting
      PROVE  trait \in FieldsTraits(known, fields) <=> KeepsAll(trait, FieldTypes(fields), known)
  <2>1. trait \in AllTraits
    BY <1>2 DEF Lasting, AllTraits
  <2>2. trait \in FieldsTraits(known, fields) <=> \A k \in DOMAIN fields : trait \in FieldTraits(known, fields[k])
    BY <2>1 DEF FieldsTraits
  <2>3. KeepsAll(trait, FieldTypes(fields), known)
          <=> \A k \in DOMAIN fields : /\ \A node \in Range(fields[k].ty) : Keeps(trait, node)
                                       /\ \A id \in Refs(fields[k].ty) : trait \in known[id]
    BY DEF KeepsAll, FieldTypes
  <2>4. QED
    BY <1>1, <1>2, <2>2, <2>3
<1>3. QED
  BY <1>2 DEF FieldsTraits

(* The traits of fields depend on those of what the fields refer to.        *)
LEMMA FieldsTraitsLocal ==
  ASSUME NEW fields, AreTrees(FieldTypes(fields)), NEW a, NEW b,
         \A ty \in FieldTypes(fields) : \A id \in Refs(ty) : a[id] = b[id]
  PROVE  FieldsTraits(a, fields) = FieldsTraits(b, fields)
<1>1. ASSUME NEW k \in DOMAIN fields
      PROVE  FieldTraits(a, fields[k]) = FieldTraits(b, fields[k])
  <2>1. PICK ty : ty = fields[k].ty
    OBVIOUS
  <2>2. ty \in FieldTypes(fields)
    BY <1>1, <2>1 DEF FieldTypes
  <2>3. TypeTraits(a, ty) = TypeTraits(b, ty)
    BY <2>2, TypeTraitsLocal DEF AreTrees
  <2>4. QED
    BY <2>1, <2>3 DEF FieldTraits
<1>2. QED
  BY <1>1 DEF FieldsTraits

(* The declarations traits are found for. *)
IsDef(def) ==
  /\ def.tag \in DefTags /\ AreTrees(BodyTypes(def))
  /\ def.tag = "union" => \A v \in DOMAIN def.variants : def.variants[v].data.form \in DataForms

(* The traits of a declaration depend on those of what it refers to. *)
LEMMA DefTraitsLocal ==
  ASSUME NEW def, IsDef(def), NEW a, NEW b, \A id \in DirectRefs(def) : a[id] = b[id]
  PROVE  DefTraits(a, def) = DefTraits(b, def)
<1>1. \A ty \in BodyTypes(def) : IsTree(ty) /\ \A id \in Refs(ty) : a[id] = b[id]
  BY DEF DirectRefs, IsDef, AreTrees
<1>2. CASE def.tag = "enum"
  BY <1>2 DEF DefTraits
<1>3. CASE def.tag \in {"struct", "message", "hub"}
  <2>1. BodyTypes(def) = FieldTypes(def.fields)
    BY <1>3 DEF BodyTypes
  <2>2. FieldsTraits(a, def.fields) = FieldsTraits(b, def.fields)
    BY <1>1, <2>1, FieldsTraitsLocal DEF AreTrees
  <2>3. QED
    BY <1>3, <2>2 DEF DefTraits
<1>4. CASE def.tag = "type"
  <2>1. def.target \in BodyTypes(def)
    BY <1>4 DEF BodyTypes
  <2>2. TypeTraits(a, def.target) = TypeTraits(b, def.target)
    BY <1>1, <2>1, TypeTraitsLocal
  <2>3. QED
    BY <1>4, <2>2 DEF DefTraits
<1>5. CASE def.tag = "union"
  <2>1. ASSUME NEW v \in DOMAIN def.variants
        PROVE  DataTraits(a, def.variants[v].data) = DataTraits(b, def.variants[v].data)
    <3>1. PICK data : data = def.variants[v].data
      OBVIOUS
    <3>2. data.form \in DataForms
      BY <1>5, <2>1, <3>1 DEF IsDef
    <3>3. CASE data.form = "type"
      <4>1. data.ty \in BodyTypes(def)
        BY <1>5, <2>1, <3>1, <3>3, VariantTypes
      <4>2. TypeTraits(a, data.ty) = TypeTraits(b, data.ty)
        BY <1>1, <4>1, TypeTraitsLocal
      <4>3. QED
        BY <3>1, <3>3, <4>2 DEF DataTraits
    <3>4. CASE data.form = "fields"
      <4>1. FieldTypes(data.fields) \subseteq BodyTypes(def)
        BY <1>5, <2>1, <3>1, <3>4, VariantTypes
      <4>2. FieldsTraits(a, data.fields) = FieldsTraits(b, data.fields)
        BY <1>1, <4>1, FieldsTraitsLocal DEF AreTrees
      <4>3. QED
        BY <3>1, <3>4, <4>2 DEF DataTraits
    <3>5. CASE data.form = "unit"
      BY <3>1, <3>5 DEF DataTraits
    <3>6. QED
      BY <3>2, <3>3, <3>4, <3>5 DEF DataForms
  <2>2. QED
    BY <1>5, <2>1 DEF DefTraits
<1>6. QED
  BY <1>2, <1>3, <1>4, <1>5 DEF DefTags, IsDef

(* What a union holds is what its variants do. *)
LEMMA UnionTypes ==
  ASSUME NEW def, def.tag = "union", NEW ty \in BodyTypes(def)
  PROVE  \E v \in DOMAIN def.variants :
           LET data == def.variants[v].data IN
           \/ data.form = "type" /\ ty = data.ty
           \/ data.form = "fields" /\ ty \in FieldTypes(data.fields)
BY DEF BodyTypes

(* A declaration has one of these traits when all of its nodes keep it and  *)
(* all it refers to have it.                                                *)
LEMMA DefKeeps ==
  ASSUME NEW def, IsDef(def), NEW known, AreKnown(known, DirectRefs(def))
  PROVE  /\ DefTraits(known, def) \subseteq AllTraits
         /\ \A trait \in Lasting :
              trait \in DefTraits(known, def) <=> KeepsAll(trait, BodyTypes(def), known)
<1>1. \A ty \in BodyTypes(def) : IsTree(ty) /\ AreKnown(known, Refs(ty))
  BY DEF DirectRefs, IsDef, AreTrees, AreKnown
<1>2. Lasting \subseteq AllTraits /\ "default" \notin Lasting
  BY DEF Lasting, AllTraits
<1>3. CASE def.tag = "enum"
  <2>1. DefTraits(known, def) = AllTraits /\ BodyTypes(def) = {}
    BY <1>3 DEF DefTraits, BodyTypes
  <2>2. QED
    BY <1>2, <2>1 DEF KeepsAll
<1>4. CASE def.tag \in {"struct", "message", "hub"}
  <2>1. BodyTypes(def) = FieldTypes(def.fields) /\ DefTraits(known, def) = FieldsTraits(known, def.fields)
    BY <1>4 DEF BodyTypes, DefTraits
  <2>2. QED
    BY <1>1, <2>1, FieldsKeep DEF AreTrees
<1>5. CASE def.tag = "type"
  <2>1. BodyTypes(def) = {def.target} /\ DefTraits(known, def) = TypeTraits(known, def.target)
    BY <1>5 DEF BodyTypes, DefTraits
  <2>2. QED
    BY <1>1, <2>1, TypeKeeps DEF KeepsAll
<1>6. CASE def.tag = "union"
  <2>1. DefTraits(known, def) =
          {t \in AllTraits \ {"default"} : \A v \in DOMAIN def.variants : t \in DataTraits(known, def.variants[v].data)}
    BY <1>6 DEF DefTraits
  <2>2. ASSUME NEW trait \in Lasting, NEW v \in DOMAIN def.variants, NEW data, data = def.variants[v].data
        PROVE  /\ data.form = "type" =>
                    (trait \in DataTraits(known, data) <=> KeepsAll(trait, {data.ty}, known))
               /\ data.form = "fields" =>
                    (trait \in DataTraits(known, data) <=> KeepsAll(trait, FieldTypes(data.fields), known))
               /\ data.form = "unit" => trait \in DataTraits(known, data)
    <3>1. CASE data.form = "type"
      <4>1. data.ty \in BodyTypes(def)
        BY <1>6, <2>2, <3>1, VariantTypes
      <4>2. DataTraits(known, data) = TypeTraits(known, data.ty)
        BY <3>1 DEF DataTraits
      <4>3. QED
        BY <1>1, <2>2, <3>1, <4>1, <4>2, TypeKeeps DEF KeepsAll
    <3>2. CASE data.form = "fields"
      <4>1. FieldTypes(data.fields) \subseteq BodyTypes(def)
        BY <1>6, <2>2, <3>2, VariantTypes
      <4>2. DataTraits(known, data) = FieldsTraits(known, data.fields)
        BY <3>2 DEF DataTraits
      <4>3. QED
        BY <1>1, <2>2, <3>2, <4>1, <4>2, FieldsKeep DEF AreTrees
    <3>3. CASE data.form = "unit"
      BY <1>2, <2>2, <3>3 DEF DataTraits
    <3>4. QED
      BY <3>1, <3>2, <3>3
  <2>3. ASSUME NEW trait \in Lasting
        PROVE  trait \in DefTraits(known, def) <=> KeepsAll(trait, BodyTypes(def), known)
    <3>1. trait \in AllTraits \ {"default"}
      BY <1>2, <2>3
    <3>2. trait \in DefTraits(known, def) <=> \A v \in DOMAIN def.variants : trait \in DataTraits(known, def.variants[v].data)
      BY <2>1, <3>1
    <3>3. ASSUME KeepsAll(trait, BodyTypes(def), known), NEW v \in DOMAIN def.variants
          PROVE  trait \in DataTraits(known, def.variants[v].data)
      <4>1. PICK data : data = def.variants[v].data /\ data.form \in DataForms
        BY <1>6, <3>3 DEF IsDef
      <4>2. data.form = "type" => KeepsAll(trait, {data.ty}, known)
        BY <1>6, <3>3, <4>1, VariantTypes DEF KeepsAll
      <4>3. data.form = "fields" => KeepsAll(trait, FieldTypes(data.fields), known)
        BY <1>6, <3>3, <4>1, VariantTypes DEF KeepsAll
      <4>4. QED
        BY <2>2, <2>3, <3>3, <4>1, <4>2, <4>3 DEF DataForms
    <3>4. ASSUME \A v \in DOMAIN def.variants : trait \in DataTraits(known, def.variants[v].data),
                 NEW ty \in BodyTypes(def)
          PROVE  /\ \A node \in Range(ty) : Keeps(trait, node)
                 /\ \A id \in Refs(ty) : trait \in known[id]
      <4>1. PICK v \in DOMAIN def.variants :
              LET data == def.variants[v].data IN
              \/ data.form = "type" /\ ty = data.ty
              \/ data.form = "fields" /\ ty \in FieldTypes(data.fields)
        BY <1>6, <3>4, UnionTypes
      <4>2. PICK data : data = def.variants[v].data
        OBVIOUS
      <4>3. KeepsAll(trait, {data.ty}, known) \/ ~ data.form = "type"
        BY <2>2, <2>3, <3>4, <4>2
      <4>4. KeepsAll(trait, FieldTypes(data.fields), known) \/ ~ data.form = "fields"
        BY <2>2, <2>3, <3>4, <4>2
      <4>5. QED
        BY <4>1, <4>2, <4>3, <4>4 DEF KeepsAll
    <3>5. QED
      BY <3>2, <3>3, <3>4 DEF KeepsAll
  <2>4. QED
    BY <2>1, <2>3
<1>7. QED
  BY <1>3, <1>4, <1>5, <1>6 DEF DefTags, IsDef

-----------------------------------------------------------------------------
(* Traits that a round leaves as they are. *)
AreSettled(schema, known) ==
  known = [id \in DOMAIN schema |-> DefTraits(known, schema[id])]

(* Every declaration of a sound schema is one traits are found for, and      *)
(* refers to others of the schema.                                           *)
LEMMA SoundDefs ==
  ASSUME NEW schema, IsSound(schema), NEW id \in DOMAIN schema
  PROVE  IsDef(schema[id]) /\ DirectRefs(schema[id]) \subseteq DOMAIN schema
<1>1. DOMAIN References(schema) = DOMAIN schema /\ References(schema)[id] = DirectRefs(schema[id])
  BY DEF References
<1>2. DirectRefs(schema[id]) \subseteq DOMAIN schema
  BY <1>1 DEF IsSound, IsGraph
<1>3. QED
  BY <1>2 DEF IsSound, IsDef

(* There are such traits. *)
LEMMA SettledExist ==
  ASSUME NEW schema, IsSound(schema)
  PROVE  \E known \in [DOMAIN schema -> SUBSET AllTraits] : AreSettled(schema, known)
<1> DEFINE refs == References(schema)
           Solves(f, S) == \A id \in S : refs[id] \subseteq S /\ f[id] = DefTraits(f, schema[id])
           G == {S \in SUBSET DOMAIN schema :
                   \E f \in [DOMAIN schema -> SUBSET AllTraits] : Solves(f, S)}
<1>1. {} \in G
  <2>1. PICK f \in [DOMAIN schema -> SUBSET AllTraits] : TRUE
    <3>1. [id \in DOMAIN schema |-> {}] \in [DOMAIN schema -> SUBSET AllTraits]
      OBVIOUS
    <3>2. QED
      BY <3>1
  <2>2. Solves(f, {})
    OBVIOUS
  <2>3. QED
    BY <2>1, <2>2
<1>2. DOMAIN refs = DOMAIN schema /\ \A id \in DOMAIN schema : refs[id] = DirectRefs(schema[id])
  BY DEF References
<1>3. ASSUME NEW S \in SUBSET DOMAIN schema, NEW id \in DOMAIN schema \ S, S \in G, refs[id] \subseteq S
      PROVE  S \cup {id} \in G
  <2>1. PICK f \in [DOMAIN schema -> SUBSET AllTraits] : Solves(f, S)
    BY <1>3
  <2>2. PICK def : def = schema[id]
    OBVIOUS
  <2>3. IsDef(def) /\ DirectRefs(def) \subseteq DOMAIN schema
    BY <1>3, <2>2, SoundDefs
  <2>4. AreKnown(f, DirectRefs(def))
    BY <2>1, <2>3 DEF AreKnown
  <2>5. DefTraits(f, def) \subseteq AllTraits
    BY <2>3, <2>4, DefKeeps
  <2>6. PICK g : g = [x \in DOMAIN schema |-> IF x = id THEN DefTraits(f, schema[id]) ELSE f[x]]
    OBVIOUS
  <2>7. g \in [DOMAIN schema -> SUBSET AllTraits] /\ \A x \in S : g[x] = f[x]
    BY <1>3, <2>1, <2>2, <2>5, <2>6
  <2>8. g[id] = DefTraits(f, schema[id])
    BY <2>6
  <2>9. \A x \in S \cup {id} : \A y \in refs[x] : f[y] = g[y]
    BY <1>3, <2>1, <2>7
  <2>10. ASSUME NEW x \in S \cup {id}
         PROVE  DefTraits(f, schema[x]) = DefTraits(g, schema[x])
    <3>1. PICK here : here = schema[x]
      OBVIOUS
    <3>2. x \in DOMAIN schema
      BY <1>3
    <3>3. \A y \in DirectRefs(here) : f[y] = g[y]
      BY <1>2, <2>9, <3>1, <3>2
    <3>4. IsDef(here)
      BY <3>1, <3>2, SoundDefs
    <3>5. QED
      BY <3>1, <3>3, <3>4, DefTraitsLocal
  <2>11. Solves(g, S \cup {id})
    BY <1>3, <2>1, <2>7, <2>8, <2>10
  <2>12. QED
    BY <1>3, <2>7, <2>11
<1> HIDE DEF G
<1>4. IsGraph(refs) /\ IsFiniteSet(DOMAIN refs) /\ ~ HasRing(refs)
  BY <1>2 DEF IsSound
<1> HIDE DEF refs
<1>5. DOMAIN schema \in G
  BY <1>1, <1>2, <1>3, <1>4, AlongReferences
<1>6. PICK f \in [DOMAIN schema -> SUBSET AllTraits] : Solves(f, DOMAIN schema)
  BY <1>5 DEF G
<1>7. f = [id \in DOMAIN schema |-> DefTraits(f, schema[id])]
  BY <1>6
<1>8. QED
  BY <1>6, <1>7 DEF AreSettled

(* There is but one way to settle. *)
LEMMA SettledUnique ==
  ASSUME NEW schema, IsSound(schema), NEW a, AreSettled(schema, a), NEW b, AreSettled(schema, b)
  PROVE  a = b
<1> DEFINE refs == References(schema)
           G == {S \in SUBSET DOMAIN schema : \A x \in S : a[x] = b[x]}
<1>1. {} \in G
  OBVIOUS
<1>2. DOMAIN refs = DOMAIN schema /\ \A id \in DOMAIN schema : refs[id] = DirectRefs(schema[id])
  BY DEF References
<1>3. ASSUME NEW S \in SUBSET DOMAIN schema, NEW id \in DOMAIN schema \ S, S \in G, refs[id] \subseteq S
      PROVE  S \cup {id} \in G
  <2>1. PICK def : def = schema[id]
    OBVIOUS
  <2>2. IsDef(def)
    BY <1>3, <2>1, SoundDefs
  <2>3. \A y \in DirectRefs(def) : a[y] = b[y]
    BY <1>2, <1>3, <2>1
  <2>4. DefTraits(a, def) = DefTraits(b, def)
    BY <2>2, <2>3, DefTraitsLocal
  <2>5. a[id] = DefTraits(a, def) /\ b[id] = DefTraits(b, def)
    BY <1>3, <2>1 DEF AreSettled
  <2>6. QED
    BY <1>3, <2>4, <2>5
<1> HIDE DEF G
<1>4. IsGraph(refs) /\ IsFiniteSet(DOMAIN refs) /\ ~ HasRing(refs)
  BY <1>2 DEF IsSound
<1> HIDE DEF refs
<1>5. DOMAIN schema \in G
  BY <1>1, <1>2, <1>3, <1>4, AlongReferences
<1>6. \A x \in DOMAIN schema : a[x] = b[x]
  BY <1>5 DEF G
<1>7. a = [id \in DOMAIN schema |-> a[id]] /\ b = [id \in DOMAIN schema |-> b[id]]
  BY DEF AreSettled
<1>8. QED
  BY <1>6, <1>7

-----------------------------------------------------------------------------
(* What a round reads when it comes to a declaration: those before it are   *)
(* already new.                                                             *)
Amid(schema, known, next, id) ==
  [other \in DOMAIN schema |-> IF other < id THEN next[other] ELSE known[other]]

(* The recursion of Round. *)
IsRound(schema, known, next) ==
  next = [id \in DOMAIN schema |-> DefTraits(Amid(schema, known, next, id), schema[id])]

(* A round's recursion has a solution. *)
LEMMA RoundExists ==
  ASSUME NEW schema, IsSound(schema), NEW known
  PROVE  IsRound(schema, known, Round(schema, known))
<1> DEFINE refs == References(schema)
           Found(f, id) == DefTraits(Amid(schema, known, f, id), schema[id])
           Solves(f, S) == \A id \in S : refs[id] \subseteq S /\ f[id] = Found(f, id)
           G == {S \in SUBSET DOMAIN schema :
                   \E f : f = [id \in DOMAIN schema |-> f[id]] /\ Solves(f, S)}
<1>1. {} \in G
  <2>1. PICK f : f = [id \in DOMAIN schema |-> 0]
    OBVIOUS
  <2>2. f = [id \in DOMAIN schema |-> f[id]]
    BY <2>1
  <2>3. QED
    BY <2>2
<1>2. DOMAIN refs = DOMAIN schema /\ \A id \in DOMAIN schema : refs[id] = DirectRefs(schema[id])
  BY DEF References
<1>3. ASSUME NEW S \in SUBSET DOMAIN schema, NEW id \in DOMAIN schema \ S, S \in G, refs[id] \subseteq S
      PROVE  S \cup {id} \in G
  <2>1. PICK f : f = [x \in DOMAIN schema |-> f[x]] /\ Solves(f, S)
    BY <1>3
  <2>2. PICK g : g = [x \in DOMAIN schema |-> IF x = id THEN Found(f, id) ELSE f[x]]
    OBVIOUS
  <2>3. g = [x \in DOMAIN schema |-> g[x]] /\ \A x \in S : g[x] = f[x]
    BY <1>3, <2>2
  <2>4. g[id] = Found(f, id)
    BY <2>2
  <2>5. \A x \in S \cup {id} : \A y \in refs[x] : f[y] = g[y]
    BY <1>3, <2>1, <2>3
  <2>6. ASSUME NEW x \in S \cup {id}
        PROVE  Found(f, x) = Found(g, x)
    <3>1. PICK here : here = schema[x]
      OBVIOUS
    <3>2. x \in DOMAIN schema
      BY <1>3
    <3>3. IsDef(here) /\ DirectRefs(here) \subseteq DOMAIN schema
      BY <3>1, <3>2, SoundDefs
    <3>4. PICK before, after : before = Amid(schema, known, f, x) /\ after = Amid(schema, known, g, x)
      OBVIOUS
    <3>5. \A y \in DirectRefs(here) : f[y] = g[y]
      BY <1>2, <2>5, <3>1, <3>2
    <3>6. \A y \in DirectRefs(here) : before[y] = after[y]
      BY <3>3, <3>4, <3>5 DEF Amid
    <3>7. DefTraits(before, here) = DefTraits(after, here)
      BY <3>3, <3>6, DefTraitsLocal
    <3>8. QED
      BY <3>1, <3>4, <3>7
  <2> HIDE DEF Found
  <2>7. Solves(g, S \cup {id})
    BY <1>3, <2>1, <2>3, <2>4, <2>6
  <2>8. QED
    BY <1>3, <2>3, <2>7
<1> HIDE DEF G
<1>4. IsGraph(refs) /\ IsFiniteSet(DOMAIN refs) /\ ~ HasRing(refs)
  BY <1>2 DEF IsSound
<1> HIDE DEF refs
<1>5. DOMAIN schema \in G
  BY <1>1, <1>2, <1>3, <1>4, AlongReferences
<1>6. PICK f : f = [id \in DOMAIN schema |-> f[id]] /\ Solves(f, DOMAIN schema)
  BY <1>5 DEF G
<1>7. f = [id \in DOMAIN schema |-> DefTraits(Amid(schema, known, f, id), schema[id])]
  BY <1>6
<1>8. QED
  BY <1>7 DEF Round, IsRound, Amid

-----------------------------------------------------------------------------
(* A round finds traits, from traits. *)
LEMMA RoundTraits ==
  ASSUME NEW schema, IsSound(schema), NEW known \in [DOMAIN schema -> SUBSET AllTraits]
  PROVE  Round(schema, known) \in [DOMAIN schema -> SUBSET AllTraits]
<1> DEFINE refs == References(schema)
           next == Round(schema, known)
           G == {S \in SUBSET DOMAIN schema : \A x \in S : next[x] \subseteq AllTraits}
<1>1. {} \in G
  OBVIOUS
<1>2. DOMAIN refs = DOMAIN schema /\ \A id \in DOMAIN schema : refs[id] = DirectRefs(schema[id])
  BY DEF References
<1>3. IsRound(schema, known, next)
  BY RoundExists
<1> HIDE DEF next
<1>4. ASSUME NEW S \in SUBSET DOMAIN schema, NEW id \in DOMAIN schema \ S, S \in G, refs[id] \subseteq S
      PROVE  S \cup {id} \in G
  <2>1. PICK def, amid : def = schema[id] /\ amid = Amid(schema, known, next, id)
    OBVIOUS
  <2>2. IsDef(def) /\ DirectRefs(def) \subseteq DOMAIN schema
    BY <1>4, <2>1, SoundDefs
  <2>3. \A y \in DirectRefs(def) : next[y] \subseteq AllTraits
    BY <1>2, <1>4, <2>1
  <2>4. AreKnown(amid, DirectRefs(def))
    BY <2>1, <2>2, <2>3 DEF AreKnown, Amid
  <2>5. DefTraits(amid, def) \subseteq AllTraits
    BY <2>2, <2>4, DefKeeps
  <2>6. next[id] = DefTraits(amid, def)
    BY <1>3, <1>4, <2>1 DEF IsRound
  <2>7. QED
    BY <1>4, <2>5, <2>6
<1> HIDE DEF G
<1>5. IsGraph(refs) /\ IsFiniteSet(DOMAIN refs) /\ ~ HasRing(refs)
  BY <1>2 DEF IsSound
<1> HIDE DEF refs
<1>6. DOMAIN schema \in G
  BY <1>1, <1>2, <1>4, <1>5, AlongReferences
<1>7. \A x \in DOMAIN schema : next[x] \subseteq AllTraits
  BY <1>6 DEF G
<1>8. next = [id \in DOMAIN schema |-> next[id]]
  BY <1>3 DEF IsRound
<1>9. next \in [DOMAIN schema -> SUBSET AllTraits]
  BY <1>7, <1>8
<1>10. QED
  BY <1>9 DEF next

(* What a round changes nothing of is settled. *)
LEMMA UnchangedIsSettled ==
  ASSUME NEW schema, IsSound(schema), NEW known, Round(schema, known) = known
  PROVE  AreSettled(schema, known)
<1>1. IsRound(schema, known, known)
  BY RoundExists
<1>2. ASSUME NEW id \in DOMAIN schema
      PROVE  DefTraits(Amid(schema, known, known, id), schema[id]) = DefTraits(known, schema[id])
  <2>1. PICK def, amid : def = schema[id] /\ amid = Amid(schema, known, known, id)
    OBVIOUS
  <2>2. IsDef(def) /\ DirectRefs(def) \subseteq DOMAIN schema
    BY <1>2, <2>1, SoundDefs
  <2>3. \A y \in DirectRefs(def) : amid[y] = known[y]
    BY <2>1, <2>2 DEF Amid
  <2>4. DefTraits(amid, def) = DefTraits(known, def)
    BY <2>2, <2>3, DefTraitsLocal
  <2>5. QED
    BY <2>1, <2>4
<1>3. QED
  BY <1>1, <1>2 DEF IsRound, AreSettled

(* Declarations that refer to nothing but one another. *)
IsClosed(schema, S) == \A id \in S : DirectRefs(schema[id]) \subseteq S

(* A round settles what refers only to what is settled already. *)
LEMMA RoundAdvances ==
  ASSUME NEW schema, IsSound(schema), NEW known, NEW final, AreSettled(schema, final),
         NEW S \in SUBSET DOMAIN schema, IsClosed(schema, S), \A x \in S : known[x] = final[x]
  PROVE  \A x \in DOMAIN schema :
           DirectRefs(schema[x]) \subseteq S => Round(schema, known)[x] = final[x]
<1> DEFINE refs == References(schema)
           next == Round(schema, known)
           G == {U \in SUBSET DOMAIN schema :
                   \A x \in U : DirectRefs(schema[x]) \subseteq S => next[x] = final[x]}
<1>1. {} \in G
  OBVIOUS
<1>2. DOMAIN refs = DOMAIN schema /\ \A id \in DOMAIN schema : refs[id] = DirectRefs(schema[id])
  BY DEF References
<1>3. IsRound(schema, known, next)
  BY RoundExists
<1> HIDE DEF next
<1>4. ASSUME NEW U \in SUBSET DOMAIN schema, NEW id \in DOMAIN schema \ U, U \in G, refs[id] \subseteq U
      PROVE  U \cup {id} \in G
  <2>1. PICK def, amid : def = schema[id] /\ amid = Amid(schema, known, next, id)
    OBVIOUS
  <2>2. IsDef(def) /\ DirectRefs(def) \subseteq DOMAIN schema
    BY <1>4, <2>1, SoundDefs
  <2>3. ASSUME DirectRefs(def) \subseteq S
        PROVE  next[id] = final[id]
    <3>1. DirectRefs(def) \subseteq U
      BY <1>2, <1>4, <2>1
    <3>2. \A y \in DirectRefs(def) : next[y] = final[y]
      BY <1>4, <2>3, <3>1 DEF IsClosed
    <3>3. \A y \in DirectRefs(def) : known[y] = final[y]
      BY <2>3
    <3>4. \A y \in DirectRefs(def) : amid[y] = final[y]
      BY <2>1, <2>2, <3>2, <3>3 DEF Amid
    <3>5. DefTraits(amid, def) = DefTraits(final, def)
      BY <2>2, <3>4, DefTraitsLocal
    <3>6. next[id] = DefTraits(amid, def)
      BY <1>3, <1>4, <2>1 DEF IsRound
    <3>7. final[id] = DefTraits(final, def)
      BY <1>4, <2>1 DEF AreSettled
    <3>8. QED
      BY <3>5, <3>6, <3>7
  <2>4. QED
    BY <1>4, <2>1, <2>3
<1> HIDE DEF G
<1>5. IsGraph(refs) /\ IsFiniteSet(DOMAIN refs) /\ ~ HasRing(refs)
  BY <1>2 DEF IsSound
<1> HIDE DEF refs
<1>6. DOMAIN schema \in G
  BY <1>1, <1>2, <1>4, <1>5, AlongReferences
<1>7. \A x \in DOMAIN schema : DirectRefs(schema[x]) \subseteq S => next[x] = final[x]
  BY <1>6 DEF G
<1>8. QED
  BY <1>7 DEF next

-----------------------------------------------------------------------------
(* The recursion of Settle. *)
Settles(schema, settled) ==
  settled = [known \in [DOMAIN schema -> SUBSET AllTraits] |->
               IF Round(schema, known) = known THEN known ELSE settled[Round(schema, known)]]

(* Settle asks its recursion for the traits it begins with. *)
LEMMA SettleIsChosen ==
  ASSUME NEW schema, NEW first
  PROVE  Settle(schema, first) = (CHOOSE settled : Settles(schema, settled))[first]
BY DEF Settle, Settles

(* Rounds come to the traits that are settled, wherever they begin: each    *)
(* settles at least one declaration more.                                   *)
LEMMA RoundsSettle ==
  ASSUME NEW schema, IsSound(schema),
         NEW final \in [DOMAIN schema -> SUBSET AllTraits], AreSettled(schema, final),
         NEW first \in [DOMAIN schema -> SUBSET AllTraits]
  PROVE  Settle(schema, first) = final
<1> DEFINE refs == References(schema)
           K == [DOMAIN schema -> SUBSET AllTraits]
<1>1. \A known \in K : Round(schema, known) \in K
  BY RoundTraits
<1>2. \A known \in K : Round(schema, known) = known => known = final
  BY UnchangedIsSettled, SettledUnique
<1>3. \E settled : Settles(schema, settled)
  <2>1. PICK settled : settled = [known \in K |-> final]
    OBVIOUS
  <2>2. ASSUME NEW known \in K
        PROVE  final = IF Round(schema, known) = known THEN known ELSE settled[Round(schema, known)]
    <3>1. settled[Round(schema, known)] = final
      BY <1>1, <2>1, <2>2
    <3>2. QED
      BY <1>2, <2>2, <3>1
  <2>3. Settles(schema, settled)
    BY <2>1, <2>2 DEF Settles
  <2>4. QED
    BY <2>3
<1>4. PICK s : s = (CHOOSE settled : Settles(schema, settled))
  OBVIOUS
<1>5. Settles(schema, s)
  BY <1>3, <1>4
<1>6. \A known \in K : s[known] = IF Round(schema, known) = known THEN known ELSE s[Round(schema, known)]
  BY <1>5 DEF Settles
<1> DEFINE Arrives(S) == \A known \in K : (\A x \in S : known[x] = final[x]) => s[known] = final
           G == {S \in SUBSET DOMAIN schema : IsClosed(schema, S) /\ (Arrives(S) => Arrives({}))}
<1>7. {} \in G
  BY DEF IsClosed
<1>8. DOMAIN refs = DOMAIN schema /\ \A id \in DOMAIN schema : refs[id] = DirectRefs(schema[id])
  BY DEF References
<1> HIDE DEF K
<1>9. ASSUME NEW S \in SUBSET DOMAIN schema, NEW id \in DOMAIN schema \ S, S \in G, refs[id] \subseteq S
      PROVE  S \cup {id} \in G
  <2>1. PICK more : more = S \cup {id}
    OBVIOUS
  <2>2. IsClosed(schema, S) /\ more \in SUBSET DOMAIN schema
    BY <1>9, <2>1
  <2>3. IsClosed(schema, more)
    BY <1>8, <1>9, <2>1, <2>2 DEF IsClosed
  <2>4. ASSUME Arrives(more), NEW known \in K, \A x \in S : known[x] = final[x]
        PROVE  s[known] = final
    <3>1. PICK next : next = Round(schema, known)
      OBVIOUS
    <3>2. next \in K
      BY <1>1, <2>4, <3>1
    <3>3. \A x \in DOMAIN schema : DirectRefs(schema[x]) \subseteq S => next[x] = final[x]
      BY <1>9, <2>2, <2>4, <3>1, RoundAdvances
    <3>4. \A x \in more : next[x] = final[x]
      BY <1>8, <1>9, <2>1, <2>2, <3>3 DEF IsClosed
    <3>5. s[next] = final
      BY <2>4, <3>2, <3>4
    <3>6. s[known] = IF next = known THEN known ELSE s[next]
      BY <1>6, <2>4, <3>1
    <3>7. next = known => known = final
      BY <1>2, <2>4, <3>1
    <3>8. QED
      BY <3>5, <3>6, <3>7
  <2>5. Arrives(more) => Arrives(S)
    BY <2>4
  <2>6. QED
    BY <1>9, <2>1, <2>2, <2>3, <2>5
<1>10. Arrives(DOMAIN schema)
  <2>1. ASSUME NEW known \in K, \A x \in DOMAIN schema : known[x] = final[x]
        PROVE  s[known] = final
    <3>1. known = final
      <4>1. known = [x \in DOMAIN schema |-> known[x]] /\ final = [x \in DOMAIN schema |-> final[x]]
        BY <2>1 DEF K
      <4>2. QED
        BY <2>1, <4>1
    <3>2. PICK next : next = Round(schema, known)
      OBVIOUS
    <3>3. next \in K
      BY <1>1, <2>1, <3>2
    <3>4. IsClosed(schema, DOMAIN schema) /\ DOMAIN schema \in SUBSET DOMAIN schema
      BY SoundDefs DEF IsClosed
    <3>5. \A x \in DOMAIN schema : DirectRefs(schema[x]) \subseteq DOMAIN schema => next[x] = final[x]
      BY <2>1, <3>2, <3>4, RoundAdvances
    <3>6. \A x \in DOMAIN schema : next[x] = final[x]
      BY <3>5, SoundDefs
    <3>7. next = final
      <4>1. next = [x \in DOMAIN schema |-> next[x]] /\ final = [x \in DOMAIN schema |-> final[x]]
        BY <3>3 DEF K
      <4>2. QED
        BY <3>6, <4>1
    <3>8. QED
      BY <1>6, <2>1, <3>1, <3>2, <3>7
  <2>2. QED
    BY <2>1
<1> HIDE DEF G, Arrives
<1>11. IsGraph(refs) /\ IsFiniteSet(DOMAIN refs) /\ ~ HasRing(refs)
  BY <1>8 DEF IsSound
<1> HIDE DEF refs
<1>12. DOMAIN schema \in G
  BY <1>7, <1>8, <1>9, <1>11, AlongReferences
<1>13. Arrives({})
  BY <1>10, <1>12 DEF G
<1>14. s[first] = final
  BY <1>13 DEF Arrives, K
<1>15. QED
  BY <1>4, <1>14, SettleIsChosen

-----------------------------------------------------------------------------
(* The traits the backend finds are the settled ones. *)
LEMMA TraitsAreSettled ==
  ASSUME NEW schema, IsSound(schema)
  PROVE  AreSettled(schema, Traits(schema)) /\ Traits(schema) \in [DOMAIN schema -> SUBSET AllTraits]
<1>1. PICK final \in [DOMAIN schema -> SUBSET AllTraits] : AreSettled(schema, final)
  BY SettledExist
<1>2. PICK first : first = [id \in DOMAIN schema |-> AllTraits]
  OBVIOUS
<1>3. first \in [DOMAIN schema -> SUBSET AllTraits]
  BY <1>2
<1>4. Settle(schema, first) = final
  BY <1>1, <1>3, RoundsSettle
<1>5. QED
  BY <1>1, <1>2, <1>4 DEF Traits

(* The declarations that have a trait. *)
Having(schema, known, trait) == {id \in DOMAIN schema : trait \in known[id]}

(* They are those whose nodes keep it and that refer to such alone. *)
LEMMA HavingKeeps ==
  ASSUME NEW schema, IsSound(schema), NEW known \in [DOMAIN schema -> SUBSET AllTraits],
         AreSettled(schema, known), NEW trait \in Lasting, NEW id \in DOMAIN schema
  PROVE  id \in Having(schema, known, trait) <=> KeepsAll(trait, BodyTypes(schema[id]), known)
<1>1. PICK def : def = schema[id]
  OBVIOUS
<1>2. IsDef(def) /\ DirectRefs(def) \subseteq DOMAIN schema
  BY <1>1, SoundDefs
<1>3. AreKnown(known, DirectRefs(def))
  BY <1>2 DEF AreKnown
<1>4. trait \in DefTraits(known, def) <=> KeepsAll(trait, BodyTypes(def), known)
  BY <1>2, <1>3, DefKeeps
<1>5. known[id] = DefTraits(known, def)
  BY <1>1 DEF AreSettled
<1>6. QED
  BY <1>1, <1>4, <1>5 DEF Having

(* What leads nowhere else and has no node in the way has the trait. *)
LEMMA ClosedHave ==
  ASSUME NEW schema, IsSound(schema), NEW known \in [DOMAIN schema -> SUBSET AllTraits],
         AreSettled(schema, known), NEW trait \in Lasting,
         NEW U \in SUBSET DOMAIN schema, ClosedUnder(References(schema), U),
         \A id \in U : \A ty \in BodyTypes(schema[id]) : \A node \in Range(ty) : Keeps(trait, node)
  PROVE  U \subseteq Having(schema, known, trait)
<1> DEFINE refs == References(schema)
           G == {S \in SUBSET DOMAIN schema : S \cap U \subseteq Having(schema, known, trait)}
<1>1. {} \in G
  OBVIOUS
<1>2. DOMAIN refs = DOMAIN schema /\ \A id \in DOMAIN schema : refs[id] = DirectRefs(schema[id])
  BY DEF References
<1>3. ASSUME NEW S \in SUBSET DOMAIN schema, NEW id \in DOMAIN schema \ S, S \in G, refs[id] \subseteq S
      PROVE  S \cup {id} \in G
  <2>1. ASSUME id \in U PROVE id \in Having(schema, known, trait)
    <3>1. DirectRefs(schema[id]) \subseteq S \cap U
      BY <1>2, <1>3, <2>1 DEF ClosedUnder
    <3>2. DirectRefs(schema[id]) \subseteq Having(schema, known, trait)
      BY <1>3, <3>1
    <3>3. \A ty \in BodyTypes(schema[id]) : Refs(ty) \subseteq Having(schema, known, trait)
      BY <3>2 DEF DirectRefs
    <3>4. KeepsAll(trait, BodyTypes(schema[id]), known)
      BY <2>1, <3>3 DEF KeepsAll, Having
    <3>5. QED
      BY <1>3, <3>4, HavingKeeps
  <2>2. QED
    BY <1>3, <2>1
<1> HIDE DEF G
<1>4. IsGraph(refs) /\ IsFiniteSet(DOMAIN refs) /\ ~ HasRing(refs)
  BY <1>2 DEF IsSound
<1> HIDE DEF refs
<1>5. DOMAIN schema \in G
  BY <1>1, <1>2, <1>3, <1>4, AlongReferences
<1>6. QED
  BY <1>5 DEF G

(* A type has a trait when everything stored in it keeps it. *)
LEMMA StoredKeep ==
  ASSUME IsSound(defs), NEW known \in [DOMAIN defs -> SUBSET AllTraits], AreSettled(defs, known),
         NEW trait \in Lasting, NEW ty, IsTree(ty), Refs(ty) \subseteq DOMAIN defs
  PROVE  trait \in TypeTraits(known, ty) <=> \A node \in Stored(ty) : Keeps(trait, node)
<1>1. PICK refs, reached, have : /\ refs = References(defs) /\ reached = Closure(refs, Refs(ty))
                                 /\ have = Having(defs, known, trait)
  OBVIOUS
<1>2. /\ DOMAIN refs = DOMAIN defs /\ \A id \in DOMAIN defs : refs[id] = DirectRefs(defs[id])
      /\ IsGraph(refs) /\ IsFiniteSet(DOMAIN refs) /\ Refs(ty) \in SUBSET DOMAIN refs
  BY <1>1 DEF IsSound, References
<1>3. /\ reached \in SUBSET DOMAIN defs /\ Refs(ty) \subseteq reached /\ ClosedUnder(refs, reached)
      /\ \A S \in SUBSET DOMAIN refs : Refs(ty) \subseteq S /\ ClosedUnder(refs, S) => reached \subseteq S
  BY <1>1, <1>2, ClosureIsLeast
<1>4. AreKnown(known, Refs(ty))
  BY DEF AreKnown
<1>5. trait \in TypeTraits(known, ty)
        <=> (\A node \in Range(ty) : Keeps(trait, node)) /\ (\A id \in Refs(ty) : trait \in known[id])
  BY <1>4, TypeKeeps
<1>6. (\A id \in Refs(ty) : trait \in known[id]) <=> Refs(ty) \subseteq have
  BY <1>1 DEF Having
<1>7. \A id \in DOMAIN defs : id \in have <=> KeepsAll(trait, BodyTypes(defs[id]), known)
  BY <1>1, HavingKeeps
<1>8. have \in SUBSET DOMAIN refs
  BY <1>1, <1>2 DEF Having
<1>9. (\A node \in Stored(ty) : Keeps(trait, node))
        <=> /\ \A node \in Range(ty) : Keeps(trait, node)
            /\ \A id \in reached : \A part \in BodyTypes(defs[id]) : \A node \in Range(part) : Keeps(trait, node)
  BY <1>1 DEF Stored
<1>10. ASSUME Refs(ty) \subseteq have, NEW id \in reached, NEW part \in BodyTypes(defs[id]), NEW node \in Range(part)
       PROVE  Keeps(trait, node)
  <2>1. \A other \in have : \A x \in refs[other] : x \in have
    <3>1. ASSUME NEW other \in have, NEW x \in refs[other] PROVE x \in have
      <4>1. other \in DOMAIN defs /\ x \in DirectRefs(defs[other])
        BY <1>2, <1>8, <3>1
      <4>2. PICK body \in BodyTypes(defs[other]) : x \in Refs(body)
        BY <4>1 DEF DirectRefs
      <4>3. trait \in known[x]
        BY <1>7, <3>1, <4>1, <4>2 DEF KeepsAll
      <4>4. x \in DOMAIN defs
        BY <1>2, <4>1 DEF IsGraph
      <4>5. QED
        BY <1>1, <4>3, <4>4 DEF Having
    <3>2. QED
      BY <3>1
  <2>2. ClosedUnder(refs, have)
    BY <2>1 DEF ClosedUnder
  <2>3. reached \subseteq have
    BY <1>3, <1>8, <1>10, <2>2
  <2>4. id \in have /\ id \in DOMAIN defs
    BY <1>3, <1>10, <2>3
  <2>5. QED
    BY <1>7, <1>10, <2>4 DEF KeepsAll
<1>11. ASSUME \A id \in reached : \A part \in BodyTypes(defs[id]) : \A node \in Range(part) : Keeps(trait, node)
       PROVE  Refs(ty) \subseteq have
  <2>1. reached \subseteq have
    BY <1>1, <1>3, <1>11, ClosedHave
  <2>2. QED
    BY <1>3, <2>1
<1>12. QED
  BY <1>5, <1>6, <1>9, <1>10, <1>11

(* A declaration has it when everything stored in it does. *)
LEMMA DefStoredKeep ==
  ASSUME IsSound(defs), NEW known \in [DOMAIN defs -> SUBSET AllTraits], AreSettled(defs, known),
         NEW trait \in Lasting, NEW id \in DOMAIN defs
  PROVE  trait \in known[id]
           <=> \A node \in UNION {Stored(ty) : ty \in BodyTypes(defs[id])} : Keeps(trait, node)
<1>1. PICK def : def = defs[id]
  OBVIOUS
<1>2. IsDef(def) /\ DirectRefs(def) \subseteq DOMAIN defs
  BY <1>1, SoundDefs
<1>3. \A ty \in BodyTypes(def) : IsTree(ty) /\ Refs(ty) \subseteq DOMAIN defs
  BY <1>2 DEF IsDef, AreTrees, DirectRefs
<1>4. ASSUME NEW ty \in BodyTypes(def)
      PROVE  (\A node \in Stored(ty) : Keeps(trait, node))
               <=> /\ \A node \in Range(ty) : Keeps(trait, node)
                   /\ \A other \in Refs(ty) : trait \in known[other]
  <2>1. AreKnown(known, Refs(ty)) /\ IsTree(ty) /\ Refs(ty) \subseteq DOMAIN defs
    BY <1>3, <1>4 DEF AreKnown
  <2>2. trait \in TypeTraits(known, ty) <=> \A node \in Stored(ty) : Keeps(trait, node)
    BY <2>1, StoredKeep
  <2>3. trait \in TypeTraits(known, ty)
          <=> /\ \A node \in Range(ty) : Keeps(trait, node)
              /\ \A other \in Refs(ty) : trait \in known[other]
    BY <2>1, TypeKeeps
  <2>4. QED
    BY <2>2, <2>3
<1>5. trait \in known[id] <=> KeepsAll(trait, BodyTypes(def), known)
  BY <1>1, HavingKeeps DEF Having
<1>6. KeepsAll(trait, BodyTypes(def), known)
        <=> \A ty \in BodyTypes(def) : \A node \in Stored(ty) : Keeps(trait, node)
  BY <1>4 DEF KeepsAll
<1>7. QED
  BY <1>1, <1>5, <1>6

-----------------------------------------------------------------------------
(* Nothing stored in a key is a float or a collection. *)
LEMMA KeyStored ==
  ASSUME CompilerInv, CheckedInv, Accepted, NEW key \in Keys
  PROVE  /\ IsTree(key) /\ Refs(key) \subseteq DOMAIN defs
         /\ \A node \in Stored(key) : node.k \notin FloatKinds \cup {"vec", "set", "map"}
<1>1. PICK source, scope, w : WrittenAs(table, source, scope, w, key)
  BY KeysWritten
<1>2. key \in ChecksOf(defs)
  BY KeysWritten
<1>3. PICK t : t = table
  OBVIOUS
<1>4. WrittenAs(t, source, scope, w, key)
  BY <1>1, <1>3
<1>5. IsSound(defs) /\ SizesOf(defs, sizes)
  BY AcceptedSound
<1>6. defs = DefsOf(t) /\ DOMAIN defs = DOMAIN t.types
  <2>1. defs = DefsOf(t)
    BY <1>3 DEF CompilerInv, Accepted
  <2>2. QED
    BY <2>1, DefsAreSorted
<1>7. IsTree(key) /\ \A id \in Refs(key) : id \in DOMAIN defs /\ defs[id].tag \notin {"message", "hub"}
  BY <1>4, <1>6, WrittenRefs, SortedBody DEF TagOf
<1>8. TypeSize(sizes, key).fixed /\ \A node \in Stored(key) : node.k \notin FloatKinds
  BY CompilerKeys DEF KeysFixedAndFloatFree
<1>9. (\A p \in DOMAIN key : key[p].k \notin {"vec", "set", "map"}) /\ Refs(key) \subseteq FixedDefs
  <2>1. PICK named : named = [id \in Refs(key) |-> sizes[id].fixed]
    OBVIOUS
  <2>2. \A id \in Refs(key) : named[id] <=> sizes[id].fixed
    BY <2>1
  <2>3. AreOfAKind(sizes, Refs(key))
    BY <1>5, <1>7, DefsOfAKind DEF AreOfAKind
  <2>4. TypeSize(sizes, key).fixed <=> FixedType(key, named)
    BY <1>7, <2>2, <2>3, TypeIsFixed
  <2>5. FixedType(key, named)
    BY <1>8, <2>4
  <2>6. QED
    BY <1>7, <2>2, <2>5, FixedTypeHolds
<1>10. AreFixed(defs, FixedDefs)
  BY AcceptedFixed
<1>11. PICK refs : refs = References(defs)
  OBVIOUS
<1>12. /\ DOMAIN refs = DOMAIN defs /\ \A id \in DOMAIN defs : refs[id] = DirectRefs(defs[id])
       /\ IsGraph(refs) /\ IsFiniteSet(DOMAIN refs) /\ Refs(key) \in SUBSET DOMAIN refs
  BY <1>5, <1>7, <1>11 DEF IsSound, References
<1>13. FixedDefs \in SUBSET DOMAIN refs /\ ClosedUnder(refs, FixedDefs)
  BY <1>10, <1>12 DEF FixedDefs, ClosedUnder, AreFixed, DirectRefs
<1>14. Closure(refs, Refs(key)) \subseteq FixedDefs
  BY <1>9, <1>12, <1>13, ClosureIsLeast
<1>15. ASSUME NEW node \in Stored(key) PROVE node.k \notin {"vec", "set", "map"}
  <2>1. CASE node \in Range(key)
    BY <1>9, <2>1 DEF Range
  <2>2. CASE \E id \in Closure(References(defs), Refs(key)) :
               \E ty \in BodyTypes(defs[id]) : node \in Range(ty)
    <3>1. PICK id \in FixedDefs : \E ty \in BodyTypes(defs[id]) : node \in Range(ty)
      BY <1>11, <1>14, <2>2
    <3>2. PICK ty \in BodyTypes(defs[id]) : node \in Range(ty)
      BY <3>1
    <3>3. \A p \in DOMAIN ty : ty[p].k \notin {"vec", "set", "map"}
      BY <1>10, <3>1, <3>2 DEF AreFixed
    <3>4. QED
      BY <3>2, <3>3 DEF Range
  <2>3. QED
    BY <1>15, <2>1, <2>2 DEF Stored
<1>16. QED
  BY <1>7, <1>8, <1>15

(* The traits of an accepted schema. *)
LEMMA CompilerTraits == CompilerInv /\ CheckedInv => TraitsFollowContents
<1>1. SUFFICES ASSUME CompilerInv, CheckedInv, Accepted, NEW traits, traits = Traits(defs)
               PROVE  /\ \A key \in Keys : {"eq", "hash"} \subseteq TypeTraits(traits, key)
                      /\ \A id \in DOMAIN defs :
                           LET held == UNION {Stored(ty) : ty \in BodyTypes(defs[id])}
                           IN /\ "eq" \in traits[id] <=> \A node \in held : node.k \notin FloatKinds
                              /\ "hash" \in traits[id]
                                   <=> \A node \in held : node.k \notin FloatKinds \cup {"set", "map"}
                              /\ "copy" \in traits[id] <=> \A node \in held : ~NotCopied(node)
  BY DEF TraitsFollowContents, Generates
<1>2. IsSound(defs)
  BY <1>1, AcceptedSound
<1>3. AreSettled(defs, traits) /\ traits \in [DOMAIN defs -> SUBSET AllTraits]
  BY <1>1, <1>2, TraitsAreSettled
<1>4. ASSUME NEW key \in Keys, NEW trait \in {"eq", "hash"}
      PROVE  trait \in TypeTraits(traits, key)
  <2>1. /\ IsTree(key) /\ Refs(key) \subseteq DOMAIN defs
        /\ \A node \in Stored(key) : node.k \notin FloatKinds \cup {"vec", "set", "map"}
    BY <1>1, <1>4, KeyStored
  <2>2. trait \in Lasting
    BY <1>4 DEF Lasting
  <2>3. \A node \in Stored(key) : Keeps(trait, node)
    BY <1>4, <2>1 DEF Keeps
  <2>4. QED
    BY <1>2, <1>3, <2>1, <2>2, <2>3, StoredKeep
<1>5. ASSUME NEW id \in DOMAIN defs, NEW held, held = UNION {Stored(ty) : ty \in BodyTypes(defs[id])}
      PROVE  /\ "eq" \in traits[id] <=> \A node \in held : node.k \notin FloatKinds
             /\ "hash" \in traits[id] <=> \A node \in held : node.k \notin FloatKinds \cup {"set", "map"}
             /\ "copy" \in traits[id] <=> \A node \in held : ~NotCopied(node)
  <2>1. \A trait \in Lasting : trait \in traits[id] <=> \A node \in held : Keeps(trait, node)
    BY <1>2, <1>3, <1>5, DefStoredKeep
  <2>2. "eq" \in Lasting /\ "hash" \in Lasting /\ "copy" \in Lasting
    BY DEF Lasting
  <2>3. \A node : /\ Keeps("eq", node) <=> node.k \notin FloatKinds
                  /\ Keeps("hash", node) <=> node.k \notin FloatKinds \cup {"set", "map"}
                  /\ Keeps("copy", node) <=> ~NotCopied(node)
    BY DEF Keeps
  <2>4. QED
    BY <2>1, <2>2, <2>3
<1>6. QED
  BY <1>4, <1>5

(* What the backend derives follows from what is held, whatever the sources. *)
THEOREM TraitsAlwaysFollowContents == Spec => []TraitsFollowContents
<1>1. CompilerInv /\ CheckedInv => TraitsFollowContents
  BY CompilerTraits
<1>2. QED
  BY <1>1, CompilerInvariance, CheckedInvariance, PTL
=============================================================================
