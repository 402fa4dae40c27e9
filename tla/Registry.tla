------------------------------- MODULE Registry -------------------------------
(***************************************************************************)
(* One shard's registry of entities (ecs/entity.rs: struct Registry): the  *)
(* slot allocator, the minter of cluster-wide names, and the two maps      *)
(* between local handles and names.                                        *)
(*                                                                         *)
(* Handles are passed around by the shard's systems and may be kept long   *)
(* after their entity is gone, so every operation is offered every handle. *)
(* Names come from outside as well: an entity that migrates in is adopted  *)
(* under the name it already carries.                                      *)
(***************************************************************************)
EXTENDS EntityAllocator

CONSTANTS
  Minters,          \* The <<node, shard>> pairs of the cluster.
  Self,             \* The pair this registry mints for.
  MaxSerial,        \* u64::MAX in the code: the serial that is never minted.
  Start,            \* The serial UniversalAllocator::new starts from.
  NoUid,            \* Option::None where a UniversalId may stand.
  NoEntity          \* Option::None where an Entity may stand.

ASSUME MinterAssumption == Self \in Minters
ASSUME SerialAssumption == MaxSerial \in Nat /\ Start \in 0 .. MaxSerial

UniversalId == [minter : Minters, serial : 0 .. MaxSerial - 1]

ASSUME NoneAssumption == NoUid \notin UniversalId /\ NoEntity \notin Entity

VARIABLES
  next,             \* UniversalAllocator: the serial of the next minted id.
  to_universal,     \* The id of each slot's entity; NoUid past the vector's end.
  to_local          \* The local entity of each id.

mapVars == <<next, to_universal, to_local>>
registryVars == <<allocatorVars, mapVars>>

OwnUid(serial) == [minter |-> Self, serial |-> serial]

(* The own ids in circulation: only these can come back by migration. *)
Minted == {uid \in UniversalId : uid.minter = Self /\ uid.serial < next}
Foreign == {uid \in UniversalId : uid.minter # Self}

-----------------------------------------------------------------------------
(* The id of a handle, if its entity is alive and has been promoted. *)
Universal(entity) ==
  IF IsAlive(entity) THEN to_universal[entity.index] ELSE NoUid

(* The local entity of an id, if it lives on this shard. *)
Resolve(uid) == to_local[uid]

RegistryInit ==
  /\ AllocatorInit
  /\ next = Start
  /\ to_universal = [slot \in Slots |-> NoUid]
  /\ to_local = [uid \in UniversalId |-> NoEntity]

RegistrySpawn(entity) == Alloc(entity) /\ UNCHANGED mapVars

(* despawn that leaves the reverse map alone. *)
DespawnKeepsLocal(entity) ==
  /\ Dealloc(entity)
  /\ to_universal' = [to_universal EXCEPT ![entity.index] = NoUid]
  /\ UNCHANGED <<next, to_local>>

(* Frees the entity and forgets its id in both maps. *)
RegistryDespawn(entity) ==
  /\ Dealloc(entity)
  /\ LET uid == to_universal[entity.index]
     IN  /\ to_universal' = [to_universal EXCEPT ![entity.index] = NoUid]
         /\ to_local' = IF uid = NoUid THEN to_local
                        ELSE [to_local EXCEPT ![uid] = NoEntity]
  /\ UNCHANGED next

(* promote without looking for the id the entity already has. *)
PromoteAgain(entity) ==
  /\ IsAlive(entity)
  /\ next < MaxSerial
  /\ next' = next + 1
  /\ to_universal' = [to_universal EXCEPT ![entity.index] = OwnUid(next)]
  /\ to_local' = [to_local EXCEPT ![OwnUid(next)] = entity]
  /\ UNCHANGED allocatorVars

(* promote that keeps the counter where it is. *)
PromoteReusing(entity) ==
  /\ IsAlive(entity)
  /\ to_universal[entity.index] = NoUid
  /\ next < MaxSerial
  /\ to_universal' = [to_universal EXCEPT ![entity.index] = OwnUid(next)]
  /\ to_local' = [to_local EXCEPT ![OwnUid(next)] = entity]
  /\ UNCHANGED <<allocatorVars, next>>

(* promote that mints the last value of the counter as well. *)
PromotePastLast(entity) ==
  /\ IsAlive(entity)
  /\ to_universal[entity.index] = NoUid
  /\ next' = next + 1
  /\ to_universal' = [to_universal EXCEPT ![entity.index] = OwnUid(next)]
  /\ to_local' = [to_local EXCEPT ![OwnUid(next)] = entity]
  /\ UNCHANGED allocatorVars

(* Mints an id for a live entity that has none.  For one that has, promote  *)
(* returns it and changes nothing; past the last serial it panics before it *)
(* has changed anything a caller can see.                                   *)
RegistryPromote(entity) ==
  /\ IsAlive(entity)
  /\ to_universal[entity.index] = NoUid
  /\ next < MaxSerial
  /\ next' = next + 1
  /\ to_universal' = [to_universal EXCEPT ![entity.index] = OwnUid(next)]
  /\ to_local' = [to_local EXCEPT ![OwnUid(next)] = entity]
  /\ UNCHANGED allocatorVars

(* Spawns a local entity for an id that exists already. *)
RegistryAdopt(uid, entity) ==
  /\ to_local[uid] = NoEntity
  /\ Alloc(entity)
  /\ to_universal' = [to_universal EXCEPT ![entity.index] = uid]
  /\ to_local' = [to_local EXCEPT ![uid] = entity]
  /\ UNCHANGED next

RegistryNext ==
  \E entity \in Entity :
    \/ RegistrySpawn(entity)
    \/ RegistryDespawn(entity)
    \/ RegistryPromote(entity)
    \/ \E uid \in Minted \cup Foreign : RegistryAdopt(uid, entity)

RegistrySpec == RegistryInit /\ [][RegistryNext]_registryVars

-----------------------------------------------------------------------------
(* The types of the registry's state. *)
RegistryTypeOK ==
  /\ AllocatorTypeOK
  /\ next \in 0 .. MaxSerial
  /\ to_universal \in [Slots -> UniversalId \cup {NoUid}]
  /\ to_local \in [UniversalId -> Entity \cup {NoEntity}]

(* The two maps are each other's inverse and hold live entities only: what  *)
(* resolve returns is alive and carries that very id, and an id read off a  *)
(* live entity resolves back to it.  A despawn that forgot one of the maps, *)
(* followed by the recycling of the slot, would break it.                   *)
MapsAgree ==
  /\ \A uid \in UniversalId :
       Resolve(uid) # NoEntity => /\ IsAlive(Resolve(uid))
                                  /\ Universal(Resolve(uid)) = uid
  /\ \A slot \in Slots :
       to_universal[slot] # NoUid =>
         /\ Resolve(to_universal[slot]) # NoEntity
         /\ Resolve(to_universal[slot]).index = slot

(* Ids this registry has not minted yet are unknown to it, so promote never *)
(* overwrites the entity of an id in use.                                   *)
NextIsFresh ==
  \A uid \in UniversalId :
    uid.minter = Self /\ uid.serial >= next => to_local[uid] = NoEntity

(* A handle whose entity is gone never becomes alive again, however often   *)
(* its slot is recycled, up to and over the end of its generations.         *)
HandlesNeverReturn ==
  [][\A entity \in Entity :
       IsIssued(entity) /\ ~ IsAlive(entity) => ~ IsAlive(entity)']_registryVars

(* The registry implements the abstract identities: handles are fresh,      *)
(* names are one-to-one with live entities and minted once.                 *)
Identity == INSTANCE EntityIdentity WITH
  Handle <- Entity,
  Name <- UniversalId,
  OwnName <- {uid \in UniversalId : uid.minter = Self},
  NoHandle <- NoEntity,
  live <- {entity \in Entity : IsAlive(entity)},
  issued <- {entity \in Entity : IsIssued(entity)},
  minted <- Minted,
  names <- to_local

ImplementsIdentity == Identity!Spec
=============================================================================
