--------------------------- MODULE EntityAllocator ---------------------------
(***************************************************************************)
(* The generational slot allocator of ecs/entity.rs (struct Allocator).    *)
(*                                                                         *)
(* A slot holds a generation: odd while the slot's entity is alive, even   *)
(* once it is dead.  Freed slots wait on a stack and are handed out again  *)
(* with the next generation, so that a stale handle to the same slot can   *)
(* be told from the current one.  A slot whose generation reached the last *)
(* even value is retired: it never comes back.                             *)
(*                                                                         *)
(* An entity index i of the code is slot i + 1 here, so that the vector    *)
(* generations is a sequence.                                              *)
(***************************************************************************)
EXTENDS Integers, Sequences, FiniteSets

CONSTANTS
  MaxSlots,         \* Number of entity indices: 2^32 in the code (index: u32).
  MaxGeneration     \* Largest generation: u32::MAX in the code.

ASSUME SlotsAssumption == MaxSlots \in Nat \ {0}

(* u32::MAX is odd: the last even generation is MaxGeneration - 1. *)
ASSUME GenerationAssumption ==
  /\ MaxGeneration \in Nat
  /\ MaxGeneration > 2
  /\ MaxGeneration % 2 = 1

VARIABLES
  generations,      \* The generation of every slot handed out so far.
  frees,            \* The stack of freed slots, top at the end.
  alive             \* How many entities are alive, as the allocator counts.

allocatorVars == <<generations, frees, alive>>

Slots == 1 .. MaxSlots
EntityGeneration == 1 .. MaxGeneration
Entity == [index : Slots, generation : EntityGeneration]

Odd(generation) == generation % 2 = 1

-----------------------------------------------------------------------------
(* A handle is alive when its slot still carries its (odd) generation. *)
IsAlive(entity) ==
  /\ entity.index \in DOMAIN generations
  /\ generations[entity.index] = entity.generation
  /\ Odd(entity.generation)

(* Every handle the allocator has returned so far, dead ones included: the  *)
(* odd generations a slot has gone through.                                 *)
IsIssued(entity) ==
  /\ entity.index \in DOMAIN generations
  /\ entity.generation <= generations[entity.index]
  /\ Odd(entity.generation)

(* EntityGeneration::next: checked_add, defined below MaxGeneration only.   *)
(* The actions are guarded by CanAdvance; that the guard never blocks one   *)
(* (no "entity generation overflow" panic) is GenerationNeverOverflows.      *)
CanAdvance(generation) == generation < MaxGeneration
NextGeneration(generation) == generation + 1

(* The slot is retired instead of being freed: its generation would run out *)
(* while the next entity in it is alive.  RetiresNever is the code without  *)
(* the retirement check of dealloc.                                         *)
RetiresNever(generation) == FALSE

Retires(generation) == generation = MaxGeneration - 1

AllocatorInit ==
  /\ generations = <<>>
  /\ frees = <<>>
  /\ alive = 0

(* try_alloc, first arm, without the generation's step. *)
AllocRecycledStale(entity) ==
  /\ frees # <<>>
  /\ LET index == frees[Len(frees)]
     IN  /\ entity = [index |-> index, generation |-> 1]
         /\ generations' = [generations EXCEPT ![index] = 1]
  /\ frees' = SubSeq(frees, 1, Len(frees) - 1)
  /\ alive' = alive + 1

(* try_alloc, first arm: the most recently freed slot, one generation on. *)
AllocRecycled(entity) ==
  /\ frees # <<>>
  /\ LET index == frees[Len(frees)]
     IN  /\ CanAdvance(generations[index])
         /\ entity = [index |-> index,
                      generation |-> NextGeneration(generations[index])]
         /\ generations' = [generations EXCEPT ![index] = NextGeneration(@)]
  /\ frees' = SubSeq(frees, 1, Len(frees) - 1)
  /\ alive' = alive + 1

(* try_alloc, second arm: a new slot at the end, as long as indices last. *)
AllocFresh(entity) ==
  /\ frees = <<>>
  /\ Len(generations) < MaxSlots
  /\ entity = [index |-> Len(generations) + 1, generation |-> 1]
  /\ generations' = Append(generations, 1)
  /\ frees' = frees
  /\ alive' = alive + 1

Alloc(entity) == AllocRecycled(entity) \/ AllocFresh(entity)

(* dealloc without its early return for a handle that is already dead. *)
DeallocDouble(entity) ==
  /\ IsIssued(entity)
  /\ CanAdvance(generations[entity.index])
  /\ generations' = [generations EXCEPT ![entity.index] = NextGeneration(@)]
  /\ frees' = IF Retires(NextGeneration(generations[entity.index]))
              THEN frees ELSE Append(frees, entity.index)
  /\ alive' = alive - 1

(* dealloc of a live handle.  For a dead or stale one it returns false and  *)
(* changes nothing.                                                         *)
Dealloc(entity) ==
  /\ IsAlive(entity)
  /\ CanAdvance(entity.generation)
  /\ generations' = [generations EXCEPT ![entity.index] = NextGeneration(@)]
  /\ frees' = IF Retires(NextGeneration(entity.generation))
              THEN frees ELSE Append(frees, entity.index)
  /\ alive' = alive - 1

-----------------------------------------------------------------------------
AllocatorTypeOK ==
  /\ generations \in Seq(EntityGeneration)
  /\ Len(generations) <= MaxSlots
  /\ frees \in Seq(Slots)
  /\ alive \in Nat

LiveSlots == {slot \in DOMAIN generations : Odd(generations[slot])}

IsFree(slot) == \E k \in DOMAIN frees : frees[k] = slot

(* Every slot is accounted for: it is in use and counted by len(), or       *)
(* retired, or on the free stack exactly once.  No slot can be handed out   *)
(* to two entities, and none leaks.                                         *)
SlotsAccounted ==
  /\ \A slot \in DOMAIN generations :
       IsFree(slot) <=> ~ Odd(generations[slot]) /\ ~ Retires(generations[slot])
  /\ \A k \in DOMAIN frees : frees[k] \in DOMAIN generations
  /\ \A k, l \in DOMAIN frees : frees[k] = frees[l] => k = l
  /\ alive = Cardinality(LiveSlots)

(* EntityGeneration::next is only ever asked for the successor of a value   *)
(* that has one: every live slot can still be freed, and every free slot    *)
(* handed out.  The "entity generation overflow" panic cannot happen.       *)
GenerationNeverOverflows ==
  \A slot \in DOMAIN generations : generations[slot] < MaxGeneration
=============================================================================
