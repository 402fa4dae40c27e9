---------------------------- MODULE RegistryProofs ----------------------------
(***************************************************************************)
(* The registry's invariants, the one-way life of its handles, and that it *)
(* implements the abstract identities, for any number of slots, minters,   *)
(* generations and serials.  The first half is about the slot allocator    *)
(* alone, stated per operation: it keeps its slots accounted for and its   *)
(* generations within range.                                               *)
(***************************************************************************)
EXTENDS Registry, SequenceTheorems, FiniteSetTheorems, TLAPS

(* The inductive invariant of the allocator. *)
AllocatorInv ==
  /\ AllocatorTypeOK
  /\ SlotsAccounted
  /\ GenerationNeverOverflows

(* What one slot's generation becomes, all others staying as they are. *)
OneSlotAdvances(slot) ==
  /\ slot \in DOMAIN generations
  /\ generations' \in Seq(EntityGeneration)
  /\ DOMAIN generations' = DOMAIN generations
  /\ Len(generations') = Len(generations)
  /\ generations'[slot] = generations[slot] + 1
  /\ \A other \in DOMAIN generations \ {slot} :
       generations'[other] = generations[other]

(* The live slots are finitely many. *)
LEMMA LiveSlotsFinite == AllocatorTypeOK => IsFiniteSet(LiveSlots)
<1>1. SUFFICES ASSUME AllocatorTypeOK PROVE IsFiniteSet(LiveSlots)
  OBVIOUS
<1>2. Len(generations) \in Nat /\ DOMAIN generations = 1 .. Len(generations)
  BY <1>1, LenProperties DEF AllocatorTypeOK
<1>3. IsFiniteSet(1 .. Len(generations))
  BY <1>2, FS_Interval
<1>4. LiveSlots \in SUBSET (1 .. Len(generations))
  BY <1>2 DEF LiveSlots
<1>5. QED
  BY <1>3, <1>4, FS_Subset

(* A new allocator satisfies the invariant. *)
LEMMA AllocatorInitInv == AllocatorInit => AllocatorInv
<1>1. SUFFICES ASSUME AllocatorInit PROVE AllocatorInv
  OBVIOUS
<1>2. DOMAIN generations = {} /\ DOMAIN frees = {}
  BY <1>1 DEF AllocatorInit
<1>3. AllocatorTypeOK
  BY <1>1, SlotsAssumption DEF AllocatorInit, AllocatorTypeOK
<1>4. LiveSlots = {}
  BY <1>2 DEF LiveSlots
<1>5. SlotsAccounted
  BY <1>1, <1>2, <1>4, FS_EmptySet DEF AllocatorInit, SlotsAccounted, IsFree
<1>6. GenerationNeverOverflows
  BY <1>2 DEF GenerationNeverOverflows
<1>7. QED
  BY <1>3, <1>5, <1>6 DEF AllocatorInv

(* A recycled slot: popped from the stack, one generation on, alive. *)
LEMMA AllocRecycledInv ==
  ASSUME AllocatorInv, NEW entity, AllocRecycled(entity)
  PROVE  /\ AllocatorInv'
         /\ entity \in Entity
         /\ OneSlotAdvances(entity.index)
         /\ ~ Odd(generations[entity.index])
         /\ entity.generation = generations'[entity.index]
         /\ Odd(entity.generation)
<1> USE SlotsAssumption, GenerationAssumption DEF Slots, EntityGeneration
<1>a. PICK top : top = Len(frees)
  OBVIOUS
<1>b. PICK slot : slot = frees[top]
  OBVIOUS
<1>1. /\ generations \in Seq(1 .. MaxGeneration)
      /\ Len(generations) \in Nat
      /\ Len(generations) <= MaxSlots
      /\ DOMAIN generations = 1 .. Len(generations)
      /\ frees \in Seq(1 .. MaxSlots)
      /\ DOMAIN frees = 1 .. top
      /\ top \in Nat \ {0}
      /\ alive \in Nat
  BY <1>a, LenProperties, EmptySeq DEF AllocatorInv, AllocatorTypeOK, AllocRecycled
<1>2. /\ slot \in DOMAIN generations
      /\ generations[slot] \in 1 .. MaxGeneration
  <2>1. top \in DOMAIN frees
    BY <1>1
  <2>2. slot \in DOMAIN generations
    BY <2>1, <1>b DEF AllocatorInv, SlotsAccounted
  <2>3. generations[slot] \in 1 .. MaxGeneration
    BY <2>2, <1>1, ElementOfSeq
  <2>4. QED
    BY <2>2, <2>3
<1>3. /\ ~ Odd(generations[slot])
      /\ generations[slot] # MaxGeneration - 1
      /\ generations[slot] < MaxGeneration
  <2>1. IsFree(slot)
    <3>1. top \in DOMAIN frees /\ frees[top] = slot
      BY <1>1, <1>b
    <3>2. QED
      BY <3>1, Zenon DEF IsFree
  <2>2. ~ Odd(generations[slot]) /\ ~ Retires(generations[slot])
    BY <1>2, <2>1 DEF AllocatorInv, SlotsAccounted
  <2>3. QED
    BY <1>2, <2>2 DEF AllocatorInv, Retires, GenerationNeverOverflows
<1>4. /\ generations[slot] + 1 \in 1 .. MaxGeneration - 1
      /\ Odd(generations[slot] + 1)
  BY <1>2, <1>3 DEF Odd
<1>5. /\ generations' = [generations EXCEPT ![slot] = generations[slot] + 1]
      /\ entity = [index |-> slot, generation |-> generations[slot] + 1]
      /\ frees' = SubSeq(frees, 1, top - 1)
      /\ alive' = alive + 1
  BY <1>a, <1>b DEF AllocRecycled, NextGeneration
<1>6. OneSlotAdvances(slot)
  BY <1>1, <1>2, <1>4, <1>5, ExceptSeq, LenProperties DEF OneSlotAdvances
<1>7. /\ frees' \in Seq(1 .. MaxSlots)
      /\ DOMAIN frees' = 1 .. top - 1
      /\ \A k \in 1 .. top - 1 : frees'[k] = frees[k]
  <2>1. \A k \in 1 .. top - 1 : frees[k] \in 1 .. MaxSlots
    BY <1>1, ElementOfSeq
  <2>2. /\ SubSeq(frees, 1, top - 1) \in Seq(1 .. MaxSlots)
        /\ Len(SubSeq(frees, 1, top - 1)) = top - 1
        /\ \A k \in 1 .. top - 1 : SubSeq(frees, 1, top - 1)[k] = frees[k]
    <3>1. PICK last \in Nat : last = top - 1
      BY <1>1
    <3>2. \A k \in 1 .. last : frees[k] \in 1 .. MaxSlots
      BY <2>1, <3>1
    <3>3. /\ SubSeq(frees, 1, last) \in Seq(1 .. MaxSlots)
          /\ Len(SubSeq(frees, 1, last)) = last
          /\ \A k \in 1 .. last : SubSeq(frees, 1, last)[k] = frees[k]
      BY <3>1, <3>2
    <3>4. QED
      BY <3>1, <3>3
  <2>3. QED
    BY <1>1, <1>5, <2>2, LenProperties
<1>8. AllocatorTypeOK'
  <2>1. generations' \in Seq(1 .. MaxGeneration) /\ Len(generations') <= MaxSlots
    BY <1>1, <1>6 DEF OneSlotAdvances
  <2>2. alive' \in Nat
    BY <1>1, <1>5
  <2>3. QED
    BY <2>1, <2>2, <1>7 DEF AllocatorTypeOK
<1>9. GenerationNeverOverflows'
  <2>1. SUFFICES ASSUME NEW other \in DOMAIN generations'
                 PROVE  generations'[other] < MaxGeneration
    BY DEF GenerationNeverOverflows
  <2>2. CASE other = slot
    BY <2>2, <1>2, <1>4, <1>6 DEF OneSlotAdvances
  <2>3. CASE other # slot
    BY <2>1, <2>3, <1>6
    DEF AllocatorInv, GenerationNeverOverflows, OneSlotAdvances
  <2>4. QED
    BY <2>2, <2>3
<1>10. LiveSlots' = LiveSlots \cup {slot} /\ slot \notin LiveSlots
  BY <1>2, <1>3, <1>4, <1>6 DEF LiveSlots, OneSlotAdvances
<1>11. /\ \A k \in DOMAIN frees' : k \in DOMAIN frees /\ k # top
       /\ \A k \in DOMAIN frees : k # top => k \in DOMAIN frees'
       /\ \A k \in DOMAIN frees' : frees'[k] = frees[k]
  BY <1>1, <1>7
<1>12. SlotsAccounted'
  <2>1. ASSUME NEW other \in DOMAIN generations'
        PROVE  IsFree(other)' <=> ~ Odd(generations'[other]) /\ ~ Retires(generations'[other])
    <3>1. CASE other = slot
      <4>1. ~ IsFree(slot)'
        <5>1. ASSUME NEW k \in DOMAIN frees', frees'[k] = slot PROVE FALSE
          <6>1. k \in DOMAIN frees /\ k # top /\ frees[k] = slot
            BY <5>1, <1>11
          <6>2. top \in DOMAIN frees /\ frees[top] = slot
            BY <1>1, <1>b
          <6>3. QED
            BY <6>1, <6>2 DEF AllocatorInv, SlotsAccounted
        <5>2. QED
          BY <5>1 DEF IsFree
      <4>2. Odd(generations'[slot])
        BY <1>4, <1>6 DEF OneSlotAdvances
      <4>3. QED
        BY <3>1, <4>1, <4>2
    <3>2. CASE other # slot
      <4>1. IsFree(other)' <=> IsFree(other)
        BY <3>2, <1>11, <1>b, <1>1 DEF IsFree
      <4>2. other \in DOMAIN generations /\ generations'[other] = generations[other]
        BY <3>2, <2>1, <1>6 DEF OneSlotAdvances
      <4>3. IsFree(other) <=> ~ Odd(generations[other]) /\ ~ Retires(generations[other])
        BY <4>2 DEF AllocatorInv, SlotsAccounted
      <4>4. QED
        BY <4>1, <4>2, <4>3
    <3>3. QED
      BY <3>1, <3>2
  <2>2. \A k \in DOMAIN frees' : frees'[k] \in DOMAIN generations'
    BY <1>6, <1>11 DEF AllocatorInv, SlotsAccounted, OneSlotAdvances
  <2>3. \A k, l \in DOMAIN frees' : frees'[k] = frees'[l] => k = l
    BY <1>11 DEF AllocatorInv, SlotsAccounted
  <2>4. alive' = Cardinality(LiveSlots')
    <3>1. IsFiniteSet(LiveSlots)
      BY LiveSlotsFinite DEF AllocatorInv
    <3>2. Cardinality(LiveSlots \cup {slot}) = Cardinality(LiveSlots) + 1
      BY <3>1, <1>10, FS_AddElement
    <3>3. QED
      BY <3>2, <1>5, <1>10 DEF AllocatorInv, SlotsAccounted
  <2>5. QED
    BY <2>1, <2>2, <2>3, <2>4 DEF SlotsAccounted, IsFree
<1>13. entity \in Entity /\ entity.index = slot
  <2>1. slot \in 1 .. MaxSlots
    BY <1>1, <1>2
  <2>2. generations[slot] + 1 \in 1 .. MaxGeneration
    BY <1>4
  <2>3. QED
    BY <2>1, <2>2, <1>5 DEF Entity
<1>14. entity.generation = generations'[slot]
  BY <1>5, <1>6 DEF OneSlotAdvances
<1>15. QED
  BY <1>3, <1>4, <1>5, <1>6, <1>8, <1>9, <1>12, <1>13, <1>14 DEF AllocatorInv

(* A slot of its own: the next index, in its first generation. *)
LEMMA AllocFreshInv ==
  ASSUME AllocatorInv, NEW entity, AllocFresh(entity)
  PROVE  /\ AllocatorInv'
         /\ entity = [index |-> Len(generations) + 1, generation |-> 1]
         /\ entity \in Entity
         /\ DOMAIN generations = 1 .. Len(generations)
         /\ DOMAIN generations' = 1 .. (Len(generations) + 1)
         /\ Len(generations) \in Nat
         /\ generations'[entity.index] = 1
         /\ \A slot \in DOMAIN generations : generations'[slot] = generations[slot]
<1> USE SlotsAssumption, GenerationAssumption DEF Slots, EntityGeneration
<1>a. PICK n : n = Len(generations)
  OBVIOUS
<1>1. /\ generations \in Seq(1 .. MaxGeneration)
      /\ n \in Nat
      /\ n < MaxSlots
      /\ DOMAIN generations = 1 .. n
      /\ frees = <<>>
      /\ frees' = <<>>
      /\ alive \in Nat
      /\ generations' = Append(generations, 1)
      /\ alive' = alive + 1
  BY <1>a, LenProperties DEF AllocatorInv, AllocatorTypeOK, AllocFresh
<1>2. /\ generations' \in Seq(1 .. MaxGeneration)
      /\ Len(generations') = n + 1
      /\ DOMAIN generations' = 1 .. (n + 1)
      /\ generations'[n + 1] = 1
      /\ \A slot \in 1 .. n : generations'[slot] = generations[slot]
  <2>1. 1 \in 1 .. MaxGeneration
    OBVIOUS
  <2>2. QED
    BY <1>a, <1>1, <2>1, AppendProperties, LenProperties
<1>3. entity = [index |-> n + 1, generation |-> 1] /\ entity \in Entity
  <2>1. n + 1 \in 1 .. MaxSlots /\ 1 \in 1 .. MaxGeneration
    BY <1>1
  <2>2. QED
    BY <1>a, <2>1 DEF AllocFresh, Entity
<1>4. AllocatorTypeOK'
  <2>1. alive' \in Nat /\ n + 1 <= MaxSlots /\ frees' \in Seq(1 .. MaxSlots)
    BY <1>1
  <2>2. QED
    BY <2>1, <1>2 DEF AllocatorTypeOK
<1>5. GenerationNeverOverflows'
  <2>1. SUFFICES ASSUME NEW slot \in DOMAIN generations'
                 PROVE  generations'[slot] < MaxGeneration
    BY DEF GenerationNeverOverflows
  <2>2. CASE slot = n + 1
    BY <2>2, <1>2
  <2>3. CASE slot # n + 1
    BY <2>3, <1>1, <1>2 DEF AllocatorInv, GenerationNeverOverflows
  <2>4. QED
    BY <2>2, <2>3
<1>6. LiveSlots' = LiveSlots \cup {n + 1} /\ n + 1 \notin LiveSlots
  <2>1. Odd(1)
    BY DEF Odd
  <2>2. QED
    BY <1>1, <1>2, <2>1 DEF LiveSlots
<1>7. SlotsAccounted'
  <2>0. DOMAIN frees = {} /\ DOMAIN frees' = {}
    BY <1>1
  <2>1. ASSUME NEW slot \in DOMAIN generations'
        PROVE  IsFree(slot)' <=> ~ Odd(generations'[slot]) /\ ~ Retires(generations'[slot])
    <3>1. ~ IsFree(slot)' /\ ~ IsFree(slot)
      BY <2>0 DEF IsFree
    <3>2. CASE slot = n + 1
      BY <3>1, <3>2, <1>2 DEF Odd
    <3>3. CASE slot # n + 1
      <4>1. slot \in DOMAIN generations /\ generations'[slot] = generations[slot]
        BY <3>3, <2>1, <1>1, <1>2
      <4>2. QED
        BY <3>1, <4>1 DEF AllocatorInv, SlotsAccounted
    <3>4. QED
      BY <3>2, <3>3
  <2>2. alive' = Cardinality(LiveSlots')
    <3>1. IsFiniteSet(LiveSlots)
      BY LiveSlotsFinite DEF AllocatorInv
    <3>2. Cardinality(LiveSlots \cup {n + 1}) = Cardinality(LiveSlots) + 1
      BY <3>1, <1>6, FS_AddElement
    <3>3. QED
      BY <3>2, <1>1, <1>6 DEF AllocatorInv, SlotsAccounted
  <2>3. QED
    BY <2>0, <2>1, <2>2 DEF SlotsAccounted, IsFree
<1>8. QED
  BY <1>a, <1>1, <1>2, <1>3, <1>4, <1>5, <1>7 DEF AllocatorInv

(* A freed slot: one generation on, dead, and stacked unless it retires. *)
LEMMA DeallocInv ==
  ASSUME AllocatorInv, NEW entity \in Entity, Dealloc(entity)
  PROVE  AllocatorInv' /\ OneSlotAdvances(entity.index)
<1> USE SlotsAssumption, GenerationAssumption DEF Slots, EntityGeneration
<1>a. PICK slot : slot = entity.index
  OBVIOUS
<1>b. PICK depth : depth = Len(frees)
  OBVIOUS
<1>1. /\ generations \in Seq(1 .. MaxGeneration)
      /\ Len(generations) \in Nat
      /\ Len(generations) <= MaxSlots
      /\ DOMAIN generations = 1 .. Len(generations)
      /\ frees \in Seq(1 .. MaxSlots)
      /\ DOMAIN frees = 1 .. depth
      /\ depth \in Nat
      /\ alive \in Nat
  BY <1>b, LenProperties DEF AllocatorInv, AllocatorTypeOK
<1>2. /\ slot \in DOMAIN generations
      /\ generations[slot] = entity.generation
      /\ Odd(generations[slot])
      /\ generations[slot] < MaxGeneration
  BY <1>a DEF Dealloc, IsAlive, CanAdvance
<1>3. /\ generations[slot] \in 1 .. MaxGeneration - 1
      /\ ~ Odd(generations[slot] + 1)
      /\ generations[slot] + 1 < MaxGeneration
  <2>1. generations[slot] \in 1 .. MaxGeneration
    BY <1>1, <1>2, ElementOfSeq
  <2>2. QED
    BY <1>2, <2>1 DEF Odd
<1>4. /\ generations' = [generations EXCEPT ![slot] = generations[slot] + 1]
      /\ alive' = alive - 1
  BY <1>a DEF Dealloc, NextGeneration
<1>5. OneSlotAdvances(slot)
  <2>1. generations[slot] + 1 \in 1 .. MaxGeneration
    BY <1>3
  <2>2. QED
    BY <2>1, <1>1, <1>2, <1>4, ExceptSeq, LenProperties DEF OneSlotAdvances
<1>6. ~ IsFree(slot)
  BY <1>2 DEF AllocatorInv, SlotsAccounted
<1>7. LiveSlots' = LiveSlots \ {slot} /\ slot \in LiveSlots
  BY <1>2, <1>3, <1>5 DEF LiveSlots, OneSlotAdvances
<1>8. alive' = Cardinality(LiveSlots') /\ alive' \in Nat
  <2>1. IsFiniteSet(LiveSlots)
    BY LiveSlotsFinite DEF AllocatorInv
  <2>2. /\ Cardinality(LiveSlots \ {slot}) = Cardinality(LiveSlots) - 1
        /\ IsFiniteSet(LiveSlots \ {slot})
    BY <2>1, <1>7, FS_RemoveElement
  <2>3. Cardinality(LiveSlots \ {slot}) \in Nat
    BY <2>2, FS_CardinalityType
  <2>4. QED
    BY <2>2, <2>3, <1>4, <1>7 DEF AllocatorInv, SlotsAccounted
<1>9. GenerationNeverOverflows'
  <2>1. SUFFICES ASSUME NEW other \in DOMAIN generations'
                 PROVE  generations'[other] < MaxGeneration
    BY DEF GenerationNeverOverflows
  <2>2. CASE other = slot
    BY <2>2, <1>3, <1>5 DEF OneSlotAdvances
  <2>3. CASE other # slot
    BY <2>1, <2>3, <1>5
    DEF AllocatorInv, GenerationNeverOverflows, OneSlotAdvances
  <2>4. QED
    BY <2>2, <2>3
<1>10. ASSUME NEW other \in DOMAIN generations', other # slot
       PROVE  /\ other \in DOMAIN generations
              /\ generations'[other] = generations[other]
              /\ IsFree(other) <=> ~ Odd(generations[other]) /\ ~ Retires(generations[other])
  BY <1>5, <1>10 DEF OneSlotAdvances, AllocatorInv, SlotsAccounted
<1>11. CASE Retires(generations[slot] + 1)
  <2>1. frees' = frees
    BY <1>2, <1>11 DEF Dealloc, NextGeneration
  <2>2. AllocatorTypeOK'
    BY <2>1, <1>1, <1>5, <1>8 DEF AllocatorTypeOK, OneSlotAdvances
  <2>3. ASSUME NEW other \in DOMAIN generations'
        PROVE  IsFree(other)' <=> ~ Odd(generations'[other]) /\ ~ Retires(generations'[other])
    <3>1. IsFree(other)' <=> IsFree(other)
      BY <2>1 DEF IsFree
    <3>2. CASE other = slot
      BY <3>1, <3>2, <1>5, <1>6, <1>11 DEF OneSlotAdvances
    <3>3. CASE other # slot
      BY <3>1, <3>3, <1>10
    <3>4. QED
      BY <3>2, <3>3
  <2>4. SlotsAccounted'
    BY <2>1, <2>3, <1>5, <1>8 DEF AllocatorInv, SlotsAccounted, IsFree, OneSlotAdvances
  <2>5. QED
    BY <1>a, <1>5, <1>9, <2>2, <2>4 DEF AllocatorInv
<1>12. CASE ~ Retires(generations[slot] + 1)
  <2>1. frees' = Append(frees, slot)
    BY <1>a, <1>2, <1>12 DEF Dealloc, NextGeneration
  <2>2. slot \in 1 .. MaxSlots
    BY <1>1, <1>2
  <2>3. /\ frees' \in Seq(1 .. MaxSlots)
        /\ DOMAIN frees' = 1 .. (depth + 1)
        /\ frees'[depth + 1] = slot
        /\ \A k \in 1 .. depth : frees'[k] = frees[k]
    BY <2>1, <2>2, <1>b, <1>1, AppendProperties, LenProperties
  <2>4. /\ depth + 1 \in DOMAIN frees'
        /\ depth + 1 \notin DOMAIN frees
        /\ \A k \in DOMAIN frees' : k = depth + 1 \/ k \in DOMAIN frees
        /\ \A k \in DOMAIN frees : k \in DOMAIN frees' /\ frees'[k] = frees[k]
    BY <2>3, <1>1
  <2>5. AllocatorTypeOK'
    BY <2>3, <1>1, <1>5, <1>8 DEF AllocatorTypeOK, OneSlotAdvances
  <2>6. ASSUME NEW other \in DOMAIN generations'
        PROVE  IsFree(other)' <=> ~ Odd(generations'[other]) /\ ~ Retires(generations'[other])
    <3>1. CASE other = slot
      <4>1. IsFree(other)'
        BY <3>1, <2>3, <2>4 DEF IsFree
      <4>2. QED
        BY <3>1, <4>1, <1>3, <1>5, <1>12 DEF OneSlotAdvances
    <3>2. CASE other # slot
      <4>1. IsFree(other)' <=> IsFree(other)
        BY <3>2, <2>3, <2>4 DEF IsFree
      <4>2. QED
        BY <4>1, <3>2, <1>10
    <3>3. QED
      BY <3>1, <3>2
  <2>7. \A k \in DOMAIN frees' : frees'[k] \in DOMAIN generations'
    BY <2>3, <2>4, <1>2, <1>5 DEF AllocatorInv, SlotsAccounted, OneSlotAdvances
  <2>8. ASSUME NEW k \in DOMAIN frees', NEW l \in DOMAIN frees', frees'[k] = frees'[l]
        PROVE  k = l
    <3>1. \A j \in DOMAIN frees : frees'[j] # slot
      BY <2>4, <1>6 DEF IsFree
    <3>2. QED
      BY <2>3, <2>4, <2>8, <3>1 DEF AllocatorInv, SlotsAccounted
  <2>9. SlotsAccounted'
    BY <2>6, <2>7, <2>8, <1>8 DEF SlotsAccounted
  <2>10. QED
    BY <1>a, <1>5, <1>9, <2>5, <2>9 DEF AllocatorInv
<1>13. QED
  BY <1>11, <1>12

-----------------------------------------------------------------------------
(* What allocation means for handles: the new one was never issued, its     *)
(* slot held no live entity, and nothing changes for any other handle.      *)
LEMMA AllocEffect ==
  ASSUME AllocatorInv, NEW entity, Alloc(entity)
  PROVE  /\ AllocatorInv'
         /\ entity \in Entity
         /\ ~ IsIssued(entity)
         /\ \A other \in Entity : other.index = entity.index => ~ IsAlive(other)
         /\ \A other \in Entity : IsAlive(other)' <=> IsAlive(other) \/ other = entity
         /\ \A other \in Entity : IsIssued(other)' <=> IsIssued(other) \/ other = entity
<1> USE SlotsAssumption, GenerationAssumption DEF Slots, EntityGeneration
<1>1. /\ \A slot \in DOMAIN generations : generations[slot] \in 1 .. MaxGeneration
      /\ \A other \in Entity : /\ other.index \in 1 .. MaxSlots
                               /\ other.generation \in 1 .. MaxGeneration
  BY ElementOfSeq, LenProperties DEF AllocatorInv, AllocatorTypeOK, Entity
<1>2. ASSUME NEW a \in Entity, NEW b \in Entity,
             a.index = b.index, a.generation = b.generation
      PROVE  a = b
  BY <1>2 DEF Entity
<1>3. CASE AllocRecycled(entity)
  <2>1. /\ AllocatorInv'
        /\ entity \in Entity
        /\ OneSlotAdvances(entity.index)
        /\ ~ Odd(generations[entity.index])
        /\ entity.generation = generations'[entity.index]
        /\ Odd(entity.generation)
    BY <1>3, AllocRecycledInv
  <2>2. /\ entity.index \in DOMAIN generations
        /\ DOMAIN generations' = DOMAIN generations
        /\ generations'[entity.index] = generations[entity.index] + 1
        /\ generations[entity.index] \in 1 .. MaxGeneration
    BY <1>1, <2>1 DEF OneSlotAdvances
  <2>3. ~ IsIssued(entity)
    BY <2>1, <2>2 DEF IsIssued
  <2>4. \A other \in Entity : other.index = entity.index => ~ IsAlive(other)
    BY <2>1 DEF IsAlive
  <2>5. ASSUME NEW other \in Entity
        PROVE  /\ IsAlive(other)' <=> IsAlive(other) \/ other = entity
               /\ IsIssued(other)' <=> IsIssued(other) \/ other = entity
    <3>1. CASE other.index = entity.index
      <4>1. /\ other.generation \in 1 .. MaxGeneration
            /\ entity.generation = generations[entity.index] + 1
        BY <1>1, <2>1, <2>2
      <4>2. IsAlive(other)' <=> other = entity
        BY <3>1, <1>2, <2>1, <2>2 DEF IsAlive
      <4>3. IsIssued(other)' <=>
              other.generation <= generations[entity.index] + 1 /\ Odd(other.generation)
        BY <3>1, <2>2 DEF IsIssued
      <4>4. IsIssued(other) <=>
              other.generation <= generations[entity.index] /\ Odd(other.generation)
        BY <3>1, <2>2 DEF IsIssued
      <4>5. other = entity <=> other.generation = generations[entity.index] + 1
        BY <3>1, <1>2, <2>1, <4>1
      <4>6. Odd(generations[entity.index] + 1)
        BY <2>1, <4>1
      <4>7. IsIssued(other)' <=> IsIssued(other) \/ other = entity
        BY <4>1, <4>3, <4>4, <4>5, <4>6, <2>2
      <4>8. QED
        BY <3>1, <2>4, <4>2, <4>7
    <3>2. CASE other.index # entity.index
      <4>1. other # entity
        BY <3>2
      <4>2. other.index \in DOMAIN generations =>
              generations'[other.index] = generations[other.index]
        BY <3>2, <2>1 DEF OneSlotAdvances
      <4>3. QED
        BY <4>1, <4>2, <2>2 DEF IsAlive, IsIssued
    <3>3. QED
      BY <3>1, <3>2
  <2>6. QED
    BY <2>1, <2>3, <2>4, <2>5
<1>4. CASE AllocFresh(entity)
  <2>1. /\ AllocatorInv'
        /\ entity = [index |-> Len(generations) + 1, generation |-> 1]
        /\ entity \in Entity
        /\ DOMAIN generations = 1 .. Len(generations)
        /\ DOMAIN generations' = 1 .. (Len(generations) + 1)
        /\ Len(generations) \in Nat
        /\ generations'[entity.index] = 1
        /\ \A slot \in DOMAIN generations : generations'[slot] = generations[slot]
    BY <1>4, AllocFreshInv
  <2>2. /\ entity.index \notin DOMAIN generations
        /\ entity.index \in DOMAIN generations'
        /\ entity.generation = 1
        /\ \A slot \in DOMAIN generations' :
             slot = entity.index \/ slot \in DOMAIN generations
        /\ \A slot \in DOMAIN generations : slot \in DOMAIN generations'
    BY <2>1
  <2>3. ASSUME NEW other \in Entity
        PROVE  /\ IsAlive(other)' <=> IsAlive(other) \/ other = entity
               /\ IsIssued(other)' <=> IsIssued(other) \/ other = entity
    <3>1. CASE other.index = entity.index
      <4>1. Odd(1)
        BY DEF Odd
      <4>2. ~ IsAlive(other) /\ ~ IsIssued(other)
        BY <3>1, <2>2 DEF IsAlive, IsIssued
      <4>3. other = entity <=> other.generation = 1
        BY <3>1, <1>2, <2>1, <2>2
      <4>4. IsAlive(other)' <=> other.generation = 1
        BY <3>1, <2>1, <2>2, <4>1 DEF IsAlive
      <4>5. IsIssued(other)' <=> other.generation = 1
        BY <3>1, <1>1, <2>1, <2>2, <4>1 DEF IsIssued
      <4>6. QED
        BY <4>2, <4>3, <4>4, <4>5
    <3>2. CASE other.index # entity.index
      <4>1. other # entity
        BY <3>2
      <4>2. other.index \in DOMAIN generations' <=> other.index \in DOMAIN generations
        BY <3>2, <2>2
      <4>3. QED
        BY <4>1, <4>2, <2>1 DEF IsAlive, IsIssued
    <3>3. QED
      BY <3>1, <3>2
  <2>4. QED
    BY <2>1, <2>2, <2>3 DEF IsAlive, IsIssued
<1>5. QED
  BY <1>3, <1>4 DEF Alloc

(* What deallocation means for handles: the entity given is the one that    *)
(* dies, and no handle becomes or stops being an issued one.                *)
LEMMA DeallocEffect ==
  ASSUME AllocatorInv, NEW entity \in Entity, Dealloc(entity)
  PROVE  /\ AllocatorInv'
         /\ IsAlive(entity)
         /\ \A other \in Entity : IsAlive(other)' <=> IsAlive(other) /\ other # entity
         /\ \A other \in Entity : IsIssued(other)' <=> IsIssued(other)
<1> USE SlotsAssumption, GenerationAssumption DEF Slots, EntityGeneration
<1>1. /\ \A slot \in DOMAIN generations : generations[slot] \in 1 .. MaxGeneration
      /\ \A other \in Entity : /\ other.index \in 1 .. MaxSlots
                               /\ other.generation \in 1 .. MaxGeneration
  BY ElementOfSeq, LenProperties DEF AllocatorInv, AllocatorTypeOK, Entity
<1>2. /\ AllocatorInv'
      /\ OneSlotAdvances(entity.index)
      /\ IsAlive(entity)
  BY DeallocInv DEF Dealloc
<1>3. PICK g \in 1 .. MaxGeneration :
        /\ entity.index \in DOMAIN generations
        /\ entity.index \in DOMAIN generations'
        /\ generations[entity.index] = g
        /\ generations'[entity.index] = g + 1
        /\ entity.generation = g
        /\ Odd(g)
  BY <1>1, <1>2 DEF OneSlotAdvances, IsAlive
<1>4. ~ Odd(g + 1)
  BY <1>3 DEF Odd
<1>5. ASSUME NEW other \in Entity
      PROVE  /\ IsAlive(other)' <=> IsAlive(other) /\ other # entity
             /\ IsIssued(other)' <=> IsIssued(other)
  <2>1. CASE other.index = entity.index
    <3>1. ~ IsAlive(other)'
      BY <2>1, <1>3, <1>4 DEF IsAlive
    <3>2. IsAlive(other) => other = entity
      BY <2>1, <1>3 DEF IsAlive, Entity
    <3>3. IsIssued(other) <=> other.generation <= g /\ Odd(other.generation)
      BY <2>1, <1>3 DEF IsIssued
    <3>4. IsIssued(other)' <=> other.generation <= g + 1 /\ Odd(other.generation)
      BY <2>1, <1>3 DEF IsIssued
    <3>5. other.generation = g + 1 => ~ Odd(other.generation)
      BY <1>4
    <3>6. IsIssued(other)' <=> IsIssued(other)
      BY <1>1, <1>3, <3>3, <3>4, <3>5
    <3>7. QED
      BY <3>1, <3>2, <3>6
  <2>2. CASE other.index # entity.index
    <3>1. /\ other.index \in DOMAIN generations' <=> other.index \in DOMAIN generations
          /\ other.index \in DOMAIN generations =>
               generations'[other.index] = generations[other.index]
      BY <2>2, <1>2 DEF OneSlotAdvances
    <3>2. other # entity
      BY <2>2
    <3>3. QED
      BY <3>1, <3>2 DEF IsAlive, IsIssued
  <2>3. QED
    BY <2>1, <2>2
<1>6. QED
  BY <1>2, <1>5

-----------------------------------------------------------------------------
(* The inductive invariant: slots accounted for, maps agreeing, and the     *)
(* next serial unused.  MapsAgree alone is not inductive: promote writes    *)
(* the reverse map at the next serial, so that serial must be free.         *)
RegistryInv ==
  /\ AllocatorInv
  /\ RegistryTypeOK
  /\ MapsAgree
  /\ NextIsFresh

(* An empty registry satisfies the invariant. *)
LEMMA RegistryInitInv == RegistryInit => RegistryInv
<1>1. SUFFICES ASSUME RegistryInit PROVE RegistryInv
  OBVIOUS
<1>2. AllocatorInv
  BY <1>1, AllocatorInitInv DEF RegistryInit
<1>3. RegistryTypeOK
  BY <1>1, <1>2, SerialAssumption DEF RegistryInit, RegistryTypeOK, AllocatorInv
<1>4. MapsAgree /\ NextIsFresh
  BY <1>1 DEF RegistryInit, MapsAgree, NextIsFresh, Resolve
<1>5. QED
  BY <1>2, <1>3, <1>4 DEF RegistryInv

(* Two live handles of one slot are the same handle. *)
LEMMA OneLivePerSlot ==
  ASSUME NEW a \in Entity, NEW b \in Entity,
         IsAlive(a), IsAlive(b), a.index = b.index
  PROVE  a = b
BY DEF Entity, IsAlive

(* A slot without a live entity has no id. *)
LEMMA DeadSlotsAreNameless ==
  ASSUME RegistryInv, NEW slot \in Slots,
         \A other \in Entity : other.index = slot => ~ IsAlive(other)
  PROVE  to_universal[slot] = NoUid
<1>1. SUFFICES ASSUME to_universal[slot] # NoUid PROVE FALSE
  OBVIOUS
<1>2. PICK uid \in UniversalId : uid = to_universal[slot]
  BY <1>1 DEF RegistryInv, RegistryTypeOK
<1>3. Resolve(uid) \in Entity /\ Resolve(uid).index = slot
  BY <1>1, <1>2 DEF RegistryInv, RegistryTypeOK, MapsAgree, Resolve
<1>4. IsAlive(Resolve(uid))
  BY <1>3, <1>2, NoneAssumption DEF RegistryInv, MapsAgree
<1>5. QED
  BY <1>3, <1>4

(* spawn preserves the invariant. *)
LEMMA RegistrySpawnInv ==
  ASSUME RegistryInv, NEW entity, RegistrySpawn(entity) PROVE RegistryInv'
<1>1. /\ AllocatorInv'
      /\ entity \in Entity
      /\ \A other \in Entity : IsAlive(other)' <=> IsAlive(other) \/ other = entity
  BY AllocEffect DEF RegistryInv, RegistrySpawn
<1>2. UNCHANGED <<next, to_universal, to_local>>
  BY DEF RegistrySpawn, mapVars
<1>3. RegistryTypeOK'
  BY <1>1, <1>2 DEF RegistryInv, RegistryTypeOK, AllocatorInv
<1>4. ASSUME NEW uid \in UniversalId, Resolve(uid) # NoEntity
      PROVE  IsAlive(Resolve(uid))' /\ (Universal(Resolve(uid)) = uid)'
  <2>1. PICK holder \in Entity : holder = to_local[uid]
    BY <1>4 DEF RegistryInv, RegistryTypeOK, Resolve
  <2>2. IsAlive(holder) /\ to_universal[holder.index] = uid
    BY <1>4, <2>1 DEF RegistryInv, MapsAgree, Resolve, Universal
  <2>3. IsAlive(holder)' /\ to_universal'[holder.index] = uid /\ to_local'[uid] = holder
    BY <1>1, <1>2, <2>1, <2>2
  <2>4. QED
    BY <2>3 DEF Resolve, Universal
<1>5. MapsAgree'
  BY <1>2, <1>4 DEF RegistryInv, MapsAgree, Resolve
<1>6. NextIsFresh'
  BY <1>2 DEF RegistryInv, NextIsFresh
<1>7. QED
  BY <1>1, <1>3, <1>5, <1>6 DEF RegistryInv

(* despawn preserves the invariant: the id leaves both maps at once. *)
LEMMA RegistryDespawnInv ==
  ASSUME RegistryInv, NEW entity \in Entity, RegistryDespawn(entity) PROVE RegistryInv'
<1>1. /\ AllocatorInv'
      /\ IsAlive(entity)
      /\ \A other \in Entity : IsAlive(other)' <=> IsAlive(other) /\ other # entity
  BY DeallocEffect DEF RegistryInv, RegistryDespawn
<1>2. PICK slot \in Slots : slot = entity.index
  BY DEF Entity
<1>3. PICK uid : uid = to_universal[slot]
  OBVIOUS
<1>4. /\ to_universal' = [to_universal EXCEPT ![slot] = NoUid]
      /\ to_local' = IF uid = NoUid THEN to_local
                     ELSE [to_local EXCEPT ![uid] = NoEntity]
      /\ next' = next
  BY <1>2, <1>3 DEF RegistryDespawn
<1>5. /\ to_universal \in [Slots -> UniversalId \cup {NoUid}]
      /\ to_local \in [UniversalId -> Entity \cup {NoEntity}]
      /\ uid \in UniversalId \cup {NoUid}
  BY <1>2, <1>3 DEF RegistryInv, RegistryTypeOK
<1>6. RegistryTypeOK'
  BY <1>1, <1>4, <1>5 DEF RegistryInv, RegistryTypeOK, AllocatorInv
<1>7. ASSUME NEW other \in UniversalId, to_local[other] = entity
      PROVE  other = uid
  BY <1>1, <1>2, <1>3, <1>7, NoneAssumption DEF RegistryInv, MapsAgree, Resolve, Universal
<1>8. /\ \A other \in UniversalId : to_local'[other] # entity
      /\ \A other \in UniversalId :
           to_local'[other] # NoEntity => to_local'[other] = to_local[other] /\ other # uid
  BY <1>4, <1>5, <1>7, NoneAssumption
<1>9. ASSUME NEW other \in UniversalId, to_local'[other] # NoEntity
      PROVE  IsAlive(Resolve(other))' /\ (Universal(Resolve(other)) = other)'
  <2>1. PICK holder \in Entity : holder = to_local[other] /\ holder = to_local'[other]
    BY <1>5, <1>8, <1>9
  <2>2. IsAlive(holder) /\ to_universal[holder.index] = other
    BY <1>8, <1>9, <2>1 DEF RegistryInv, MapsAgree, Resolve, Universal
  <2>3. holder # entity /\ IsAlive(holder)'
    BY <1>1, <1>8, <2>1, <2>2
  <2>4. holder.index # slot
    BY <1>1, <1>2, <2>2, <2>3, OneLivePerSlot
  <2>5. to_universal'[holder.index] = other
    BY <1>4, <1>5, <2>2, <2>4 DEF Entity
  <2>6. QED
    BY <2>1, <2>3, <2>5 DEF Resolve, Universal
<1>10. ASSUME NEW other \in Slots, to_universal'[other] # NoUid
       PROVE  /\ to_local'[to_universal'[other]] # NoEntity
              /\ to_local'[to_universal'[other]].index = other
  <2>1. other # slot /\ to_universal'[other] = to_universal[other]
    BY <1>4, <1>5, <1>10
  <2>2. PICK id \in UniversalId : id = to_universal[other]
    BY <1>5, <1>10, <2>1
  <2>3. to_local[id] # NoEntity /\ to_local[id].index = other
    BY <1>10, <2>1, <2>2 DEF RegistryInv, MapsAgree, Resolve
  <2>4. CASE uid = NoUid
    BY <2>1, <2>2, <2>3, <2>4, <1>4
  <2>5. CASE uid # NoUid
    <3>1. to_local[uid].index = slot
      BY <1>2, <1>3, <2>5 DEF RegistryInv, MapsAgree, Resolve
    <3>2. id # uid
      BY <3>1, <2>1, <2>3
    <3>3. to_local'[id] = to_local[id]
      BY <3>2, <1>4, <1>5
    <3>4. QED
      BY <3>3, <2>1, <2>2, <2>3
  <2>6. QED
    BY <2>4, <2>5
<1>11. MapsAgree'
  BY <1>9, <1>10 DEF MapsAgree, Resolve
<1>12. NextIsFresh'
  BY <1>4, <1>5, NoneAssumption DEF RegistryInv, NextIsFresh
<1>13. QED
  BY <1>1, <1>6, <1>11, <1>12 DEF RegistryInv

(* Tying a fresh id to a live entity that has none keeps the maps agreeing. *)
LEMMA BindAgrees ==
  ASSUME RegistryInv, RegistryTypeOK', NEW entity \in Entity, NEW uid \in UniversalId,
         IsAlive(entity)',
         \A other \in Entity : IsAlive(other) => IsAlive(other)',
         to_universal[entity.index] = NoUid,
         to_local[uid] = NoEntity,
         to_universal' = [to_universal EXCEPT ![entity.index] = uid],
         to_local' = [to_local EXCEPT ![uid] = entity]
  PROVE  MapsAgree'
<1>1. PICK slot \in Slots : slot = entity.index
  BY DEF Entity
<1>2. /\ to_universal \in [Slots -> UniversalId \cup {NoUid}]
      /\ to_local \in [UniversalId -> Entity \cup {NoEntity}]
      /\ entity # NoEntity
      /\ uid # NoUid
  BY NoneAssumption DEF RegistryInv, RegistryTypeOK
<1>3. ASSUME NEW other \in UniversalId, to_local'[other] # NoEntity
      PROVE  IsAlive(Resolve(other))' /\ (Universal(Resolve(other)) = other)'
  <2>1. CASE other = uid
    <3>1. to_local'[other] = entity /\ to_universal'[entity.index] = other
      BY <1>1, <1>2, <2>1
    <3>2. QED
      BY <3>1 DEF Resolve, Universal
  <2>2. CASE other # uid
    <3>1. PICK holder \in Entity : holder = to_local[other] /\ holder = to_local'[other]
      BY <1>2, <1>3, <2>2
    <3>2. IsAlive(holder) /\ to_universal[holder.index] = other
      <4>1. Resolve(other) # NoEntity /\ Resolve(other) = holder
        BY <3>1, NoneAssumption DEF Resolve
      <4>2. IsAlive(Resolve(other)) /\ Universal(Resolve(other)) = other
        BY <4>1 DEF RegistryInv, MapsAgree
      <4>3. QED
        BY <4>1, <4>2 DEF Universal
    <3>3. holder.index # slot
      BY <1>1, <3>2, NoneAssumption
    <3>4. to_universal'[holder.index] = other /\ IsAlive(holder)'
      BY <1>1, <1>2, <3>2, <3>3 DEF Entity
    <3>5. QED
      BY <3>1, <3>4 DEF Resolve, Universal
  <2>3. QED
    BY <2>1, <2>2
<1>4. ASSUME NEW other \in Slots, to_universal'[other] # NoUid
      PROVE  /\ to_local'[to_universal'[other]] # NoEntity
             /\ to_local'[to_universal'[other]].index = other
  <2>1. CASE other = slot
    <3>1. to_universal'[other] = uid /\ to_local'[uid] = entity
      BY <1>1, <1>2, <2>1
    <3>2. QED
      BY <3>1, <1>1, <1>2, <2>1
  <2>2. CASE other # slot
    <3>1. PICK id \in UniversalId : id = to_universal[other] /\ id = to_universal'[other]
      BY <1>1, <1>2, <1>4, <2>2
    <3>2. to_local[id] # NoEntity /\ to_local[id].index = other
      BY <3>1, <1>4 DEF RegistryInv, MapsAgree, Resolve
    <3>3. to_local'[id] = to_local[id]
      BY <3>1, <3>2, <1>2
    <3>4. QED
      BY <3>1, <3>2, <3>3
  <2>3. QED
    BY <2>1, <2>2
<1>5. QED
  BY <1>3, <1>4 DEF MapsAgree, Resolve

(* promote preserves the invariant: the id it mints is in neither map. *)
LEMMA RegistryPromoteInv ==
  ASSUME RegistryInv, NEW entity \in Entity, RegistryPromote(entity) PROVE RegistryInv'
<1> USE SerialAssumption
<1>1. PICK uid \in UniversalId : uid = OwnUid(next)
  BY MinterAssumption DEF RegistryInv, RegistryTypeOK, RegistryPromote, UniversalId, OwnUid
<1>2. /\ IsAlive(entity)
      /\ to_universal[entity.index] = NoUid
      /\ next < MaxSerial
      /\ next' = next + 1
      /\ to_universal' = [to_universal EXCEPT ![entity.index] = uid]
      /\ to_local' = [to_local EXCEPT ![uid] = entity]
      /\ UNCHANGED <<generations, frees, alive>>
  BY <1>1 DEF RegistryPromote, allocatorVars
<1>3. AllocatorInv' /\ \A other \in Entity : IsAlive(other)' <=> IsAlive(other)
  BY <1>2 DEF RegistryInv, AllocatorInv, AllocatorTypeOK, SlotsAccounted, IsFree, LiveSlots,
     GenerationNeverOverflows, IsAlive
<1>4. RegistryTypeOK'
  <2>1. next' \in 0 .. MaxSerial
    BY <1>2 DEF RegistryInv, RegistryTypeOK
  <2>2. to_universal' \in [Slots -> UniversalId \cup {NoUid}]
    BY <1>2 DEF RegistryInv, RegistryTypeOK
  <2>3. to_local' \in [UniversalId -> Entity \cup {NoEntity}]
    BY <1>2 DEF RegistryInv, RegistryTypeOK
  <2>4. QED
    BY <1>3, <2>1, <2>2, <2>3 DEF RegistryTypeOK, AllocatorInv
<1>5. to_local[uid] = NoEntity
  BY <1>1 DEF RegistryInv, RegistryTypeOK, NextIsFresh, OwnUid, UniversalId
<1>6. MapsAgree'
  BY <1>1, <1>2, <1>3, <1>4, <1>5, BindAgrees
<1>7. NextIsFresh'
  <2>1. SUFFICES ASSUME NEW other \in UniversalId,
                        other.minter = Self, other.serial >= next + 1
                 PROVE  to_local'[other] = NoEntity
    BY <1>2 DEF NextIsFresh
  <2>2. other # uid /\ other.serial >= next
    BY <1>1, <2>1 DEF OwnUid, RegistryInv, RegistryTypeOK, UniversalId
  <2>3. to_local[other] = NoEntity
    BY <2>1, <2>2 DEF RegistryInv, NextIsFresh
  <2>4. QED
    BY <1>2, <2>2, <2>3 DEF RegistryInv, RegistryTypeOK
<1>8. QED
  BY <1>3, <1>4, <1>6, <1>7 DEF RegistryInv

(* adopt preserves the invariant: the id has no entity here before. *)
LEMMA RegistryAdoptInv ==
  ASSUME RegistryInv, NEW entity, NEW uid \in Minted \cup Foreign, RegistryAdopt(uid, entity)
  PROVE  RegistryInv'
<1>1. uid \in UniversalId /\ (uid.minter = Self => uid.serial < next)
  BY DEF Minted, Foreign
<1>2. /\ AllocatorInv'
      /\ entity \in Entity
      /\ \A other \in Entity : other.index = entity.index => ~ IsAlive(other)
      /\ \A other \in Entity : IsAlive(other)' <=> IsAlive(other) \/ other = entity
  BY AllocEffect DEF RegistryInv, RegistryAdopt
<1>3. /\ to_local[uid] = NoEntity
      /\ to_universal' = [to_universal EXCEPT ![entity.index] = uid]
      /\ to_local' = [to_local EXCEPT ![uid] = entity]
      /\ next' = next
  BY DEF RegistryAdopt
<1>4. to_universal[entity.index] = NoUid
  BY <1>2, DeadSlotsAreNameless DEF Entity
<1>5. RegistryTypeOK'
  BY <1>1, <1>2, <1>3 DEF RegistryInv, RegistryTypeOK, AllocatorInv
<1>6. MapsAgree'
  BY <1>1, <1>2, <1>3, <1>4, <1>5, BindAgrees
<1>7. NextIsFresh'
  <2>1. SUFFICES ASSUME NEW other \in UniversalId,
                        other.minter = Self, other.serial >= next
                 PROVE  to_local'[other] = NoEntity
    BY <1>3 DEF NextIsFresh
  <2>2. other # uid
    BY <1>1, <2>1, SerialAssumption DEF RegistryInv, RegistryTypeOK, UniversalId
  <2>3. QED
    BY <2>1, <2>2, <1>3 DEF RegistryInv, RegistryTypeOK, NextIsFresh
<1>8. QED
  BY <1>2, <1>5, <1>6, <1>7 DEF RegistryInv

(* Every step preserves the invariant. *)
LEMMA RegistryNextInv == RegistryInv /\ [RegistryNext]_registryVars => RegistryInv'
<1>1. SUFFICES ASSUME RegistryInv, [RegistryNext]_registryVars PROVE RegistryInv'
  OBVIOUS
<1>2. ASSUME NEW entity \in Entity, RegistrySpawn(entity) PROVE RegistryInv'
  BY <1>1, <1>2, RegistrySpawnInv
<1>3. ASSUME NEW entity \in Entity, RegistryDespawn(entity) PROVE RegistryInv'
  BY <1>1, <1>3, RegistryDespawnInv
<1>4. ASSUME NEW entity \in Entity, RegistryPromote(entity) PROVE RegistryInv'
  BY <1>1, <1>4, RegistryPromoteInv
<1>5. ASSUME NEW entity \in Entity, NEW uid \in Minted \cup Foreign, RegistryAdopt(uid, entity)
      PROVE  RegistryInv'
  BY <1>1, <1>5, RegistryAdoptInv
<1>6. CASE UNCHANGED registryVars
  BY <1>1, <1>6
  DEF registryVars, allocatorVars, mapVars, RegistryInv, AllocatorInv, AllocatorTypeOK,
     SlotsAccounted, IsFree, LiveSlots, GenerationNeverOverflows, RegistryTypeOK, MapsAgree,
     NextIsFresh, Resolve, Universal, IsAlive
<1>7. QED
  BY <1>1, <1>2, <1>3, <1>4, <1>5, <1>6 DEF RegistryNext

(* The inductive invariant holds in every reachable state. *)
THEOREM RegistryInvariance == RegistrySpec => []RegistryInv
BY RegistryInitInv, RegistryNextInv, PTL DEF RegistrySpec

(* Every slot stays accounted for: in use, free once, or retired. *)
THEOREM SlotsAlwaysAccounted == RegistrySpec => []SlotsAccounted
<1>1. RegistryInv => SlotsAccounted
  BY DEF RegistryInv, AllocatorInv
<1>2. QED
  BY <1>1, RegistryInvariance, PTL

(* No operation ever overflows a generation. *)
THEOREM NoGenerationOverflow == RegistrySpec => []GenerationNeverOverflows
<1>1. RegistryInv => GenerationNeverOverflows
  BY DEF RegistryInv, AllocatorInv
<1>2. QED
  BY <1>1, RegistryInvariance, PTL

(* Ids and live handles stay in one-to-one correspondence. *)
THEOREM MapsAlwaysAgree == RegistrySpec => []MapsAgree
<1>1. RegistryInv => MapsAgree
  BY DEF RegistryInv
<1>2. QED
  BY <1>1, RegistryInvariance, PTL

(* The serial to be minted next is never in use. *)
THEOREM NextAlwaysFresh == RegistrySpec => []NextIsFresh
<1>1. RegistryInv => NextIsFresh
  BY DEF RegistryInv
<1>2. QED
  BY <1>1, RegistryInvariance, PTL

(* The state is well typed. *)
THEOREM RegistryTypeCorrect == RegistrySpec => []RegistryTypeOK
<1>1. RegistryInv => RegistryTypeOK
  BY DEF RegistryInv
<1>2. QED
  BY <1>1, RegistryInvariance, PTL

-----------------------------------------------------------------------------
(* A handle whose entity is gone stays dead through every operation. *)
THEOREM DeadHandlesStayDead == RegistrySpec => HandlesNeverReturn
<1>1. ASSUME RegistryInv, [RegistryNext]_registryVars, NEW entity \in Entity,
             IsIssued(entity), ~ IsAlive(entity)
      PROVE  ~ IsAlive(entity)'
  <2>1. ASSUME NEW other, Alloc(other) PROVE ~ IsAlive(entity)'
    BY <1>1, <2>1, AllocEffect DEF RegistryInv
  <2>2. ASSUME NEW other \in Entity, Dealloc(other) PROVE ~ IsAlive(entity)'
    BY <1>1, <2>2, DeallocEffect DEF RegistryInv
  <2>3. CASE UNCHANGED allocatorVars
    BY <1>1, <2>3 DEF allocatorVars, IsAlive
  <2>4. QED
    BY <1>1, <2>1, <2>2, <2>3
    DEF RegistryNext, RegistrySpawn, RegistryDespawn, RegistryPromote, RegistryAdopt,
        registryVars, allocatorVars
<1>2. RegistryInv /\ [RegistryNext]_registryVars =>
        [\A entity \in Entity :
           IsIssued(entity) /\ ~ IsAlive(entity) => ~ IsAlive(entity)']_registryVars
  BY <1>1
<1>3. QED
  BY <1>2, RegistryInvariance, PTL DEF RegistrySpec, HandlesNeverReturn

-----------------------------------------------------------------------------
(* The step correspondence of the refinement, operation by operation.       *)
LiveHandles == {entity \in Entity : IsAlive(entity)}
IssuedHandles == {entity \in Entity : IsIssued(entity)}
OwnNames == {uid \in UniversalId : uid.minter = Self}

(* A new registry is a new set of identities. *)
LEMMA InitRefines == RegistryInit => Identity!Init
<1>1. SUFFICES ASSUME RegistryInit PROVE Identity!Init
  OBVIOUS
<1>2. \A entity \in Entity : ~ IsAlive(entity) /\ ~ IsIssued(entity)
  BY <1>1 DEF RegistryInit, AllocatorInit, IsAlive, IsIssued
<1>3. Minted \in SUBSET OwnNames
  BY DEF Minted, OwnNames
<1>4. to_local = [uid \in UniversalId |-> NoEntity]
  BY <1>1 DEF RegistryInit
<1>5. QED
  BY <1>2, <1>3, <1>4 DEF Identity!Init, OwnNames

(* Allocation is the abstract issue of a fresh handle. *)
LEMMA AllocIssues ==
  ASSUME RegistryInv, NEW entity, Alloc(entity)
  PROVE  entity \in Entity /\ Identity!Issue(entity)
<1>1. /\ entity \in Entity
      /\ ~ IsIssued(entity)
      /\ \A other \in Entity : IsAlive(other)' <=> IsAlive(other) \/ other = entity
      /\ \A other \in Entity : IsIssued(other)' <=> IsIssued(other) \/ other = entity
  BY AllocEffect DEF RegistryInv
<1>2. entity \in Entity \ IssuedHandles
  BY <1>1 DEF IssuedHandles
<1>3. LiveHandles' = LiveHandles \cup {entity}
  BY <1>1 DEF LiveHandles
<1>4. IssuedHandles' = IssuedHandles \cup {entity}
  BY <1>1 DEF IssuedHandles
<1>5. QED
  BY <1>1, <1>2, <1>3, <1>4 DEF Identity!Issue, LiveHandles, IssuedHandles

(* spawn issues a handle and nothing else. *)
LEMMA SpawnRefines ==
  ASSUME RegistryInv, NEW entity, RegistrySpawn(entity) PROVE Identity!Next
<1>1. entity \in Entity /\ Identity!Issue(entity)
  BY AllocIssues DEF RegistrySpawn
<1>2. Minted' = Minted /\ to_local' = to_local
  BY DEF RegistrySpawn, mapVars, Minted
<1>3. Identity!Spawn(entity)
  BY <1>1, <1>2 DEF Identity!Spawn
<1>4. QED
  BY <1>1, <1>3 DEF Identity!Next

(* despawn takes a handle and its name out of circulation. *)
LEMMA DespawnRefines ==
  ASSUME RegistryInv, NEW entity \in Entity, RegistryDespawn(entity) PROVE Identity!Next
<1>1. /\ IsAlive(entity)
      /\ \A other \in Entity : IsAlive(other)' <=> IsAlive(other) /\ other # entity
      /\ \A other \in Entity : IsIssued(other)' <=> IsIssued(other)
  BY DeallocEffect DEF RegistryInv, RegistryDespawn
<1>2. /\ entity \in LiveHandles
      /\ LiveHandles' = LiveHandles \ {entity}
      /\ IssuedHandles' = IssuedHandles
  BY <1>1 DEF LiveHandles, IssuedHandles
<1>3. PICK uid : uid = to_universal[entity.index]
  OBVIOUS
<1>4. /\ uid \in UniversalId \cup {NoUid}
      /\ to_local \in [UniversalId -> Entity \cup {NoEntity}]
      /\ to_local' = IF uid = NoUid THEN to_local
                     ELSE [to_local EXCEPT ![uid] = NoEntity]
      /\ next' = next
  BY <1>3 DEF RegistryInv, RegistryTypeOK, RegistryDespawn, Entity
<1>5. ASSUME NEW name \in UniversalId, to_local[name] = entity PROVE name = uid
  BY <1>1, <1>3, <1>5, NoneAssumption DEF RegistryInv, MapsAgree, Resolve, Universal
<1>6. uid # NoUid => to_local[uid] = entity
  <2>1. SUFFICES ASSUME uid # NoUid PROVE to_local[uid] = entity
    OBVIOUS
  <2>2. PICK holder \in Entity : holder = to_local[uid] /\ holder.index = entity.index
    BY <1>3, <1>4, <2>1 DEF RegistryInv, MapsAgree, Resolve, Entity
  <2>3. IsAlive(holder)
    <3>1. Resolve(uid) # NoEntity /\ Resolve(uid) = holder /\ uid \in UniversalId
      BY <1>4, <2>1, <2>2, NoneAssumption DEF Resolve
    <3>2. QED
      BY <3>1 DEF RegistryInv, MapsAgree
  <2>4. QED
    BY <1>1, <2>2, <2>3, OneLivePerSlot
<1>7. to_local' = [name \in UniversalId |->
                     IF to_local[name] = entity THEN NoEntity ELSE to_local[name]]
  BY <1>4, <1>5, <1>6, NoneAssumption
<1>8. Minted' = Minted
  BY <1>4 DEF Minted
<1>9. Identity!Despawn(entity)
  BY <1>2, <1>7, <1>8 DEF Identity!Despawn, LiveHandles, IssuedHandles
<1>10. QED
  BY <1>9 DEF Identity!Next

(* promote gives a live handle a name that was never given. *)
LEMMA PromoteRefines ==
  ASSUME RegistryInv, NEW entity \in Entity, RegistryPromote(entity) PROVE Identity!Next
<1> USE SerialAssumption
<1>1. /\ IsAlive(entity)
      /\ to_universal[entity.index] = NoUid
      /\ next \in 0 .. MaxSerial - 1
      /\ next' = next + 1
      /\ to_local' = [to_local EXCEPT ![OwnUid(next)] = entity]
      /\ UNCHANGED <<generations, frees, alive>>
  BY DEF RegistryInv, RegistryTypeOK, RegistryPromote, allocatorVars
<1>2. OwnUid(next) \in OwnNames \ Minted
  BY <1>1, MinterAssumption DEF OwnNames, Minted, OwnUid, UniversalId
<1>3. to_local[OwnUid(next)] = NoEntity
  BY <1>1, <1>2 DEF RegistryInv, NextIsFresh, OwnNames, OwnUid
<1>4. ~ Identity!Named(entity)
  <2>1. SUFFICES ASSUME NEW name \in UniversalId, to_local[name] = entity PROVE FALSE
    BY DEF Identity!Named
  <2>2. to_universal[entity.index] = name
    BY <1>1, <2>1, NoneAssumption DEF RegistryInv, MapsAgree, Resolve, Universal
  <2>3. QED
    BY <1>1, <2>2, NoneAssumption
<1>5. Minted' = Minted \cup {OwnUid(next)}
  <2>1. ASSUME NEW uid \in UniversalId
        PROVE  uid.minter = Self /\ uid.serial < next + 1
                 <=> (uid.minter = Self /\ uid.serial < next) \/ uid = OwnUid(next)
    BY <1>1 DEF UniversalId, OwnUid
  <2>2. OwnUid(next) \in UniversalId
    BY <1>2 DEF OwnNames
  <2>3. QED
    BY <1>1, <2>1, <2>2 DEF Minted
<1>6. /\ entity \in LiveHandles
      /\ LiveHandles' = LiveHandles
      /\ IssuedHandles' = IssuedHandles
  BY <1>1 DEF LiveHandles, IssuedHandles, IsAlive, IsIssued
<1>7. Identity!Promote(entity, OwnUid(next))
  BY <1>1, <1>2, <1>3, <1>4, <1>5, <1>6
  DEF Identity!Promote, LiveHandles, IssuedHandles, OwnNames
<1>8. QED
  BY <1>2, <1>7 DEF Identity!Next, OwnNames

(* adopt issues a handle for a name that lives nowhere here. *)
LEMMA AdoptRefines ==
  ASSUME RegistryInv, NEW entity, NEW uid \in Minted \cup Foreign, RegistryAdopt(uid, entity)
  PROVE  Identity!Next
<1>1. entity \in Entity /\ Identity!Issue(entity)
  BY AllocIssues DEF RegistryAdopt
<1>2. /\ uid \in UniversalId
      /\ uid \notin OwnNames \ Minted
  BY DEF Minted, Foreign, OwnNames
<1>3. /\ to_local[uid] = NoEntity
      /\ to_local' = [to_local EXCEPT ![uid] = entity]
      /\ Minted' = Minted
  BY DEF RegistryAdopt, Minted
<1>4. Identity!Adopt(uid, entity)
  BY <1>1, <1>2, <1>3 DEF Identity!Adopt, OwnNames
<1>5. QED
  BY <1>1, <1>2, <1>4 DEF Identity!Next

(* The registry implements the abstract identities. *)
THEOREM RegistryImplementsIdentity == RegistrySpec => ImplementsIdentity
<1>1. ASSUME RegistryInv, [RegistryNext]_registryVars PROVE [Identity!Next]_(Identity!vars)
  <2>1. ASSUME NEW entity \in Entity, RegistrySpawn(entity) PROVE Identity!Next
    BY <1>1, <2>1, SpawnRefines
  <2>2. ASSUME NEW entity \in Entity, RegistryDespawn(entity) PROVE Identity!Next
    BY <1>1, <2>2, DespawnRefines
  <2>3. ASSUME NEW entity \in Entity, RegistryPromote(entity) PROVE Identity!Next
    BY <1>1, <2>3, PromoteRefines
  <2>4. ASSUME NEW entity \in Entity, NEW uid \in Minted \cup Foreign,
               RegistryAdopt(uid, entity)
        PROVE  Identity!Next
    BY <1>1, <2>4, AdoptRefines
  <2>5. CASE UNCHANGED registryVars
    BY <2>5 DEF registryVars, allocatorVars, mapVars, Identity!vars, Minted, IsAlive, IsIssued
  <2>6. QED
    BY <1>1, <2>1, <2>2, <2>3, <2>4, <2>5 DEF RegistryNext
<1>2. QED
  BY <1>1, InitRefines, RegistryInvariance, PTL
  DEF RegistrySpec, ImplementsIdentity, Identity!Spec
=============================================================================
