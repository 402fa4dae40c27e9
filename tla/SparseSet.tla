------------------------------ MODULE SparseSet ------------------------------
(***************************************************************************)
(* One component table (ecs/storage/sparse_set.rs): the handles and their  *)
(* components side by side in two dense vectors, and a paged array from an *)
(* entity index to the position in them.  Position i of the code is        *)
(* element i + 1 of the sequences.                                         *)
(***************************************************************************)
EXTENDS SparseArray

CONSTANTS
  MaxIndex,         \* Largest entity index: u32::MAX in the code.
  Generations,      \* The generations of a handle.
  Value,            \* The components.
  Nothing           \* No entry (of the abstract map).

ASSUME IndexAssumption == MaxIndex \in Nat
ASSUME NothingAssumption ==
  Nothing \notin [entity : [index : 0 .. MaxIndex, generation : Generations],
                  data : Value]

Index == 0 .. MaxIndex
Entity == [index : Index, generation : Generations]

VARIABLES
  sparse,           \* The position of each index's entry.
  dense,            \* The handles, in the order of their positions.
  data              \* Their components.

vars == <<sparse, dense, data>>

-----------------------------------------------------------------------------
(* index_of: the position of a handle's entry, if it has one; the entry of  *)
(* another generation of the slot is not its.                               *)
Contains(entity) ==
  LET position == Get(sparse, entity.index)
  IN  position # Absent /\ dense[position + 1] = entity

(* Vec::swap_remove: the last element takes the place of the removed one. *)
SwapRemove(seq, k) ==
  SubSeq([seq EXCEPT ![k] = seq[Len(seq)]], 1, Len(seq) - 1)

Init ==
  /\ sparse = <<>>
  /\ dense = <<>>
  /\ data = <<>>

(* insert of an index that has no entry: a new position at the end. *)
InsertNew(entity, component) ==
  /\ Get(sparse, entity.index) = Absent
  /\ sparse' = Insert(sparse, entity.index, Len(dense))
  /\ dense' = Append(dense, entity)
  /\ data' = Append(data, component)

(* insert of an index that has an entry, whatever its generation. *)
Replace(entity, component) ==
  LET position == Get(sparse, entity.index)
  IN  /\ position # Absent
      /\ dense' = [dense EXCEPT ![position + 1] = entity]
      /\ data' = [data EXCEPT ![position + 1] = component]
      /\ UNCHANGED sparse

(* A write through get_mut or iter_mut. *)
Write(entity, component) ==
  /\ Contains(entity)
  /\ data' = [data EXCEPT ![Get(sparse, entity.index) + 1] = component]
  /\ UNCHANGED <<sparse, dense>>

(* remove that does not tell the array where the last entry went. *)
RemoveKeepsPosition(entity) ==
  LET position == Get(sparse, entity.index)
  IN  /\ Contains(entity)
      /\ sparse' = Remove(sparse, entity.index)
      /\ dense' = SwapRemove(dense, position + 1)
      /\ data' = SwapRemove(data, position + 1)

(* remove that closes the gap in one vector by shifting, not by swapping. *)
RemoveShiftsData(entity) ==
  LET position == Get(sparse, entity.index)
      removed == Remove(sparse, entity.index)
  IN  /\ Contains(entity)
      /\ dense' = SwapRemove(dense, position + 1)
      /\ data' = SubSeq(data, 1, position) \o SubSeq(data, position + 2, Len(data))
      /\ sparse' = IF position + 1 \in DOMAIN dense'
                   THEN Insert(removed, dense'[position + 1].index, position)
                   ELSE removed

(* remove: the last entry moves into the gap and its position is updated. *)
RemoveEntry(entity) ==
  LET position == Get(sparse, entity.index)
      removed == Remove(sparse, entity.index)
  IN  /\ Contains(entity)
      /\ dense' = SwapRemove(dense, position + 1)
      /\ data' = SwapRemove(data, position + 1)
      /\ sparse' = IF position + 1 \in DOMAIN dense'
                   THEN Insert(removed, dense'[position + 1].index, position)
                   ELSE removed

Clear == sparse' = <<>> /\ dense' = <<>> /\ data' = <<>>

Next ==
  \/ Clear
  \/ \E entity \in Entity :
       \/ RemoveEntry(entity)
       \/ \E component \in Value :
            \/ InsertNew(entity, component)
            \/ Replace(entity, component)
            \/ Write(entity, component)

Spec == Init /\ [][Next]_vars

-----------------------------------------------------------------------------
(* The types of a table's state. *)
TypeOK ==
  /\ sparse \in Seq(Slot)
  /\ dense \in Seq(Entity)
  /\ data \in Seq(Value)

(* The array and the vectors agree: every stored position is the position   *)
(* of an entry of that very index, and every entry is found under its       *)
(* index.  Else a lookup reads a component of another entity, or past the   *)
(* end of the vector, and a join hands out one component twice.             *)
PositionsAgree ==
  /\ Len(data) = Len(dense)
  /\ \A k \in DOMAIN dense : Get(sparse, dense[k].index) = k - 1
  /\ \A index \in Index :
       LET position == Get(sparse, index)
       IN  position # Absent => /\ position + 1 \in DOMAIN dense
                                /\ dense[position + 1].index = index

(* The paged array holds no more than it needs, whatever the order of       *)
(* insertions and removals (a swap_remove writes to it after a page was     *)
(* given back).                                                             *)
PagesTight == Tight(sparse)

(* The entry the table has under an index. *)
EntryAt(index) ==
  LET position == Get(sparse, index)
  IN  IF position = Absent THEN Nothing
      ELSE [entity |-> dense[position + 1], data |-> data[position + 1]]

Entries == [index \in Index |-> EntryAt(index)]

(* The table implements the map from indices to entries. *)
Map == INSTANCE ComponentMap WITH Handle <- Entity, entries <- Entries

ImplementsMap == Map!Spec
=============================================================================
