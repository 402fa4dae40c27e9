----------------------------- MODULE WorldProofs -----------------------------
(***************************************************************************)
(* The world of a shard, for any number of tables, tasks and slots: where  *)
(* the components of dead entities come from, that a new entity has none,  *)
(* that no table changes under a view, and that whatever its tasks do the  *)
(* world's registry is a registry.                                         *)
(***************************************************************************)
EXTENDS World, RegistryProofs

(* An entry stands under its own index, and its handle was once handed out. *)
EntriesIssued ==
  \A table \in Table, slot \in Slots :
    tables[table][slot] # NoEntity =>
      tables[table][slot].index = slot /\ IsIssued(tables[table][slot])

(* RefCell's rule: a table with a ViewMut has no View, and one ViewMut.     *)
BorrowsExclude ==
  \A task, other \in Tasks : \A table \in exclusive[task] :
    table \notin shared[other] /\ (table \in exclusive[other] => other = task)

IInv ==
  /\ RegistryInv
  /\ TypeOK
  /\ EntriesIssued
  /\ BorrowsExclude
  /\ GhostsExplained

-----------------------------------------------------------------------------
(* What Table::remove leaves of the tables it is called on. *)
LEMMA DroppedEntries ==
  ASSUME TypeOK, NEW entity \in Entity, NEW from \in SUBSET Table
  PROVE  /\ Dropped(entity, from) \in [Table -> [Slots -> Entity \cup {NoEntity}]]
         /\ \A table \in Table : table \notin from =>
              Dropped(entity, from)[table] = tables[table]
         /\ \A table \in Table, slot \in Slots :
              \/ Dropped(entity, from)[table][slot] = NoEntity
              \/ /\ Dropped(entity, from)[table][slot] = tables[table][slot]
                 /\ table \in from /\ slot = entity.index => tables[table][slot] # entity
<1>1. /\ tables \in [Table -> [Slots -> Entity \cup {NoEntity}]]
      /\ entity.index \in Slots
  BY DEF TypeOK, Entity
<1>2. ASSUME NEW table \in Table
      PROVE  /\ Dropped(entity, from)[table] \in [Slots -> Entity \cup {NoEntity}]
             /\ table \notin from => Dropped(entity, from)[table] = tables[table]
             /\ \A slot \in Slots :
                  \/ Dropped(entity, from)[table][slot] = NoEntity
                  \/ /\ Dropped(entity, from)[table][slot] = tables[table][slot]
                     /\ table \in from /\ slot = entity.index => tables[table][slot] # entity
  <2>1. Dropped(entity, from)[table] =
          IF table \in from /\ tables[table][entity.index] = entity
          THEN [tables[table] EXCEPT ![entity.index] = NoEntity]
          ELSE tables[table]
    BY DEF Dropped
  <2>2. QED
    BY <1>1, <2>1
<1>3. Dropped(entity, from) \in [Table -> [Slots -> Entity \cup {NoEntity}]]
  BY <1>2 DEF Dropped
<1>4. QED
  BY <1>2, <1>3

(* The history records the new leftovers as long as every dead entry of the *)
(* next state was a leftover before or is one of them.                      *)
LEMMA LeavesExplained ==
  ASSUME EntriesIssued', tables' \in [Table -> [Slots -> Entity \cup {NoEntity}]],
         leftover \subseteq Table \X Entity,
         NEW new \in SUBSET (Table \X Entity), Leaves(new),
         \A table \in Table, slot \in Slots :
           tables'[table][slot] # NoEntity /\ ~ IsAlive(tables[table][slot])' =>
             <<table, tables'[table][slot]>> \in leftover \cup new
  PROVE  GhostsExplained' /\ leftover' \subseteq Table \X Entity
<1>1. leftover' = {entry \in leftover \cup new :
                     tables'[entry[1]][entry[2].index] = entry[2]}
  BY DEF Leaves
<1>2. ASSUME NEW table \in Table, NEW slot \in Slots, tables'[table][slot] # NoEntity,
             ~ IsAlive(tables[table][slot])'
      PROVE  <<table, tables'[table][slot]>> \in leftover'
  <2>1. tables'[table][slot].index = slot
    BY <1>2 DEF EntriesIssued
  <2>2. QED
    BY <1>1, <1>2, <2>1
<1>3. QED
  BY <1>1, <1>2 DEF GhostsExplained

(* Tables that keep or drop their entries keep them issued. *)
LEMMA EntriesStayIssued ==
  ASSUME IInv, tables' \in [Table -> [Slots -> Entity \cup {NoEntity}]],
         \A other \in Entity : IsIssued(other) => IsIssued(other)',
         \A table \in Table, slot \in Slots :
           tables'[table][slot] = NoEntity \/ tables'[table][slot] = tables[table][slot]
  PROVE  EntriesIssued'
<1>1. SUFFICES ASSUME NEW table \in Table, NEW slot \in Slots, tables'[table][slot] # NoEntity
               PROVE  tables'[table][slot].index = slot /\ IsIssued(tables[table][slot])'
  BY DEF EntriesIssued
<1>2. PICK entry : entry = tables[table][slot] /\ entry = tables'[table][slot]
  BY <1>1
<1>3. entry \in Entity /\ entry.index = slot /\ IsIssued(entry)
  BY <1>1, <1>2, NoneAssumption DEF IInv, TypeOK, EntriesIssued
<1>4. IsIssued(entry)'
  BY <1>3
<1>5. QED
  BY <1>2, <1>3, <1>4 DEF IsIssued

(* An entry whose handle is dead after a step that killed at most one       *)
(* entity, and kept or dropped the entries, was a ghost or is that entity's.*)
LEMMA OldGhosts ==
  ASSUME IInv, tables' \in [Table -> [Slots -> Entity \cup {NoEntity}]],
         NEW entity \in Entity,
         \A other \in Entity : IsAlive(other) /\ other # entity => IsAlive(other)',
         NEW table \in Table, NEW slot \in Slots,
         tables'[table][slot] # NoEntity, ~ IsAlive(tables[table][slot])',
         tables'[table][slot] = tables[table][slot]
  PROVE  <<table, tables'[table][slot]>> \in leftover \/ tables'[table][slot] = entity
<1>1. PICK entry : entry = tables[table][slot] /\ entry = tables'[table][slot]
  OBVIOUS
<1>2. entry \in Entity
  BY <1>1
<1>3. ~ IsAlive(entry)'
  BY <1>1 DEF IsAlive
<1>4. entry = entity \/ ~ IsAlive(entry)
  BY <1>2, <1>3
<1>5. ~ IsAlive(entry) => <<table, entry>> \in leftover
  BY <1>1 DEF IInv, GhostsExplained
<1>6. QED
  BY <1>1, <1>4, <1>5

(* A step that leaves the registry alone. *)
LEMMA RegistryStays ==
  ASSUME IInv, UNCHANGED registryVars
  PROVE  /\ RegistryInv'
         /\ UNCHANGED allocatorVars
         /\ \A other \in Entity : IsAlive(other) <=> IsAlive(other)'
         /\ \A other \in Entity : IsIssued(other) <=> IsIssued(other)'
<1>1. UNCHANGED allocatorVars
  BY DEF registryVars
<1>2. RegistryInv'
  BY RegistryNextInv DEF IInv
<1>3. QED
  BY <1>1, <1>2 DEF IsAlive, IsIssued, allocatorVars

(* spawn and adopt bring one entity to life, of a handle not issued before. *)
LEMMA ArrivalEffect ==
  ASSUME RegistryInv, NEW entity \in Entity,
         \/ RegistrySpawn(entity)
         \/ \E uid \in Minted \cup Foreign : RegistryAdopt(uid, entity)
  PROVE  /\ RegistryInv'
         /\ ~ IsIssued(entity)
         /\ \A other \in Entity : IsAlive(other)' <=> IsAlive(other) \/ other = entity
         /\ \A other \in Entity : IsIssued(other)' <=> IsIssued(other) \/ other = entity
<1>1. RegistryInv'
  BY RegistrySpawnInv, RegistryAdoptInv
<1>2. Alloc(entity) /\ AllocatorInv
  BY DEF RegistrySpawn, RegistryAdopt, RegistryInv
<1>3. QED
  BY <1>1, <1>2, AllocEffect

(* What a despawn means for handles. *)
LEMMA DepartureEffect ==
  ASSUME RegistryInv, NEW entity \in Entity, RegistryDespawn(entity)
  PROVE  /\ RegistryInv'
         /\ \A other \in Entity : IsAlive(other)' <=> IsAlive(other) /\ other # entity
         /\ \A other \in Entity : IsIssued(other)' <=> IsIssued(other)
<1>1. Dealloc(entity) /\ AllocatorInv
  BY DEF RegistryDespawn, RegistryInv
<1>2. QED
  BY <1>1, DeallocEffect, RegistryDespawnInv

(* What a step does that touches neither handles nor tables. *)
LEMMA BorrowInv ==
  ASSUME IInv, RegistryInv', UNCHANGED <<allocatorVars, tables, leftover>>,
         shared' \in [Tasks -> SUBSET Table], exclusive' \in [Tasks -> SUBSET Table],
         reading' \subseteq Tasks, BorrowsExclude'
  PROVE  IInv'
<1>1. TypeOK'
  BY DEF IInv, TypeOK, RegistryInv
<1>2. EntriesIssued' /\ GhostsExplained'
  BY DEF IInv, EntriesIssued, GhostsExplained, IsIssued, IsAlive, allocatorVars
<1>3. QED
  BY <1>1, <1>2 DEF IInv

(* A panic frees borrows and takes none. *)
LEMMA UnwindBorrows ==
  ASSUME TypeOK, BorrowsExclude, NEW task \in Tasks, Unwind(task)
  PROVE  /\ shared' \in [Tasks -> SUBSET Table]
         /\ exclusive' \in [Tasks -> SUBSET Table]
         /\ reading' \subseteq Tasks
         /\ BorrowsExclude'
         /\ \A other \in Tasks : shared'[other] \subseteq shared[other]
BY DEF TypeOK, BorrowsExclude, Unwind

-----------------------------------------------------------------------------
(* An empty world. *)
LEMMA InitInv == Init => IInv
<1>1. SUFFICES ASSUME Init PROVE IInv
  OBVIOUS
<1>2. RegistryInv
  BY <1>1, RegistryInitInv DEF Init
<1>3. TypeOK
  BY <1>1, <1>2 DEF Init, TypeOK, RegistryInv
<1>4. EntriesIssued /\ GhostsExplained
  BY <1>1 DEF Init, EntriesIssued, GhostsExplained
<1>5. BorrowsExclude
  BY <1>1 DEF Init, BorrowsExclude
<1>6. QED
  BY <1>2, <1>3, <1>4, <1>5 DEF IInv

(* view: only of a table without a ViewMut. *)
LEMMA ViewInv ==
  ASSUME IInv, NEW task \in Tasks, NEW table \in Table, View(task, table) PROVE IInv'
<1>1. BorrowsExclude'
  BY DEF IInv, TypeOK, BorrowsExclude, View, BorrowedMut
<1>2. QED
  BY <1>1, BorrowInv, RegistryStays DEF IInv, TypeOK, View

(* view_mut: only of a table without any view. *)
LEMMA ViewMutInv ==
  ASSUME IInv, NEW task \in Tasks, NEW table \in Table, ViewMut(task, table) PROVE IInv'
<1>1. BorrowsExclude'
  BY DEF IInv, TypeOK, BorrowsExclude, ViewMut, Borrowed
<1>2. QED
  BY <1>1, BorrowInv, RegistryStays DEF IInv, TypeOK, ViewMut

(* The end of a view. *)
LEMMA ReleaseInv == ASSUME IInv, NEW task \in Tasks, Release(task) PROVE IInv'
<1>1. PICK table \in Table :
        /\ shared' = [shared EXCEPT ![task] = @ \ {table}]
        /\ exclusive' = [exclusive EXCEPT ![task] = @ \ {table}]
  BY DEF IInv, TypeOK, Release
<1>2. BorrowsExclude'
  BY <1>1 DEF IInv, TypeOK, BorrowsExclude
<1>3. QED
  BY <1>1, <1>2, BorrowInv, RegistryStays DEF IInv, TypeOK, Release

(* The other steps that change borrows alone. *)
LEMMA OtherBorrowInv ==
  ASSUME IInv, NEW task \in Tasks,
         ViewPanics(task) \/ ReadEntities(task) \/ RegistryPanics(task)
  PROVE  IInv'
<1>1. CASE ViewPanics(task) \/ RegistryPanics(task)
  BY <1>1, UnwindBorrows, BorrowInv, RegistryStays DEF IInv, ViewPanics, RegistryPanics
<1>2. CASE ReadEntities(task)
  <2>1. BorrowsExclude'
    BY <1>2 DEF IInv, BorrowsExclude, ReadEntities
  <2>2. QED
    BY <1>2, <2>1, BorrowInv, RegistryStays DEF IInv, TypeOK, ReadEntities
<1>3. QED
  BY <1>1, <1>2

(* spawn and adopt: the new handle was never issued, so no entry comes back *)
(* to life or dies.                                                         *)
LEMMA ArrivalInv == ASSUME IInv, Spawn \/ Adopt PROVE IInv'
<1>1. PICK entity \in Entity :
        \/ RegistrySpawn(entity)
        \/ \E uid \in Minted \cup Foreign : RegistryAdopt(uid, entity)
  BY DEF Spawn, Adopt
<1>2. /\ RegistryInv'
      /\ \A other \in Entity : IsAlive(other) => IsAlive(other)'
      /\ \A other \in Entity : IsIssued(other) => IsIssued(other)'
  BY <1>1, ArrivalEffect DEF IInv
<1>3. UNCHANGED <<tables, shared, exclusive, reading, leftover>>
  BY DEF Spawn, Adopt, borrowVars
<1>4. TypeOK' /\ BorrowsExclude'
  BY <1>2, <1>3 DEF IInv, TypeOK, RegistryInv, BorrowsExclude
<1>5. EntriesIssued'
  BY <1>2, <1>3, EntriesStayIssued DEF IInv, TypeOK
<1>6. GhostsExplained'
  <2>1. SUFFICES ASSUME NEW table \in Table, NEW slot \in Slots,
                        tables[table][slot] # NoEntity, ~ IsAlive(tables[table][slot])'
                 PROVE  <<table, tables[table][slot]>> \in leftover
    BY <1>3 DEF GhostsExplained, IsAlive
  <2>2. PICK entry \in Entity : entry = tables[table][slot]
    BY <2>1 DEF IInv, TypeOK
  <2>3. ~ IsAlive(entry)'
    BY <1>3, <2>1, <2>2 DEF IsAlive
  <2>4. ~ IsAlive(entry)
    BY <1>2, <2>3
  <2>5. QED
    BY <2>1, <2>2, <2>4 DEF IInv, GhostsExplained
<1>7. QED
  BY <1>2, <1>4, <1>5, <1>6 DEF IInv

(* promote: of handles and tables nothing changes. *)
LEMMA PromoteInv == ASSUME IInv, NEW entity \in Entity, Promote(entity) PROVE IInv'
<1>1. RegistryInv'
  BY RegistryPromoteInv DEF IInv, Promote
<1>2. UNCHANGED <<allocatorVars, tables, leftover>> /\ UNCHANGED <<shared, exclusive, reading>>
  BY DEF Promote, RegistryPromote, borrowVars
<1>3. TypeOK /\ BorrowsExclude
  BY DEF IInv
<1>4. QED
  BY <1>1, <1>2, <1>3, BorrowInv DEF TypeOK, BorrowsExclude

(* A step in which at most one entity dies, and the tables keep or drop     *)
(* their entries, with every entry kept under that entity recorded.         *)
LEMMA KeepOrDrop ==
  ASSUME IInv, RegistryInv', NEW entity \in Entity,
         \A other \in Entity : IsAlive(other) /\ other # entity => IsAlive(other)',
         \A other \in Entity : IsIssued(other) => IsIssued(other)',
         tables' \in [Table -> [Slots -> Entity \cup {NoEntity}]],
         \A table \in Table, slot \in Slots :
           tables'[table][slot] = NoEntity \/ tables'[table][slot] = tables[table][slot],
         NEW new \in SUBSET (Table \X Entity), Leaves(new),
         \A table \in Table, slot \in Slots :
           tables'[table][slot] = entity => IsAlive(entity)' \/ <<table, entity>> \in new,
         shared' \in [Tasks -> SUBSET Table], exclusive' \in [Tasks -> SUBSET Table],
         reading' \subseteq Tasks, BorrowsExclude'
  PROVE  IInv'
<1>1. EntriesIssued'
  BY EntriesStayIssued
<1>2. ASSUME NEW table \in Table, NEW slot \in Slots,
             tables'[table][slot] # NoEntity, ~ IsAlive(tables[table][slot])'
      PROVE  <<table, tables'[table][slot]>> \in leftover \cup new
  <2>1. tables'[table][slot] = tables[table][slot]
    BY <1>2
  <2>2. CASE tables'[table][slot] = entity
    <3>1. ~ IsAlive(entity)'
      BY <1>2, <2>2 DEF IsAlive
    <3>2. QED
      BY <2>2, <3>1
  <2>3. CASE tables'[table][slot] # entity
    BY <1>2, <2>1, <2>3, OldGhosts
  <2>4. QED
    BY <2>2, <2>3
<1>3. leftover \subseteq Table \X Entity
  BY DEF IInv, TypeOK
<1>4. GhostsExplained' /\ leftover' \subseteq Table \X Entity
  BY <1>1, <1>2, <1>3, LeavesExplained
<1>5. TypeOK'
  BY <1>4 DEF TypeOK, RegistryInv
<1>6. QED
  BY <1>1, <1>4, <1>5 DEF IInv

(* despawn: no entry of the entity is left in any table. *)
LEMMA DespawnInv == ASSUME IInv, NEW entity \in Entity, Despawn(entity) PROVE IInv'
<1>1. /\ RegistryInv'
      /\ \A other \in Entity : IsAlive(other) /\ other # entity => IsAlive(other)'
      /\ \A other \in Entity : IsIssued(other) => IsIssued(other)'
  BY DepartureEffect DEF IInv, Despawn
<1>2. /\ tables' = Dropped(entity, Table) /\ Leaves({})
      /\ UNCHANGED <<shared, exclusive, reading>>
  BY DEF Despawn, borrowVars
<1>3. TypeOK
  BY DEF IInv
<1>4. /\ tables' \in [Table -> [Slots -> Entity \cup {NoEntity}]]
      /\ \A table \in Table, slot \in Slots :
           \/ tables'[table][slot] = NoEntity
           \/ /\ tables'[table][slot] = tables[table][slot]
              /\ slot = entity.index => tables[table][slot] # entity
  BY <1>2, <1>3, DroppedEntries
<1>5. ASSUME NEW table \in Table, NEW slot \in Slots, tables'[table][slot] = entity
      PROVE  FALSE
  <2>1. tables[table][slot] = entity /\ slot # entity.index
    BY <1>4, <1>5, NoneAssumption
  <2>2. QED
    BY <2>1, NoneAssumption DEF IInv, EntriesIssued
<1>6. /\ shared' \in [Tasks -> SUBSET Table] /\ exclusive' \in [Tasks -> SUBSET Table]
      /\ reading' \subseteq Tasks /\ BorrowsExclude'
  BY <1>2 DEF IInv, TypeOK, BorrowsExclude
<1>7. QED
  BY <1>1, <1>2, <1>4, <1>5, <1>6, KeepOrDrop

(* A despawn that panics: what it did not reach is recorded. *)
LEMMA DespawnPanicsInv ==
  ASSUME IInv, NEW task \in Tasks, NEW entity \in Entity, DespawnPanics(task, entity)
  PROVE  IInv'
<1>1. PICK blocked \in Table :
        /\ RegistryDespawn(entity)
        /\ tables' = Dropped(entity, 1 .. blocked - 1)
        /\ Unwind(task)
        /\ Leaves({<<table, entity>> : table \in blocked .. Tables})
  BY DEF DespawnPanics
<1>2. /\ RegistryInv'
      /\ \A other \in Entity : IsAlive(other) /\ other # entity => IsAlive(other)'
      /\ \A other \in Entity : IsIssued(other) => IsIssued(other)'
  BY <1>1, DepartureEffect DEF IInv
<1>3. /\ 1 .. blocked - 1 \in SUBSET Table
      /\ \A table \in Table : table \in 1 .. blocked - 1 \/ table \in blocked .. Tables
      /\ blocked .. Tables \subseteq Table
  BY TablesAssumption DEF Table
<1>4. PICK reached \in SUBSET Table : reached = 1 .. blocked - 1
  BY <1>3
<1>5. PICK new : new = {<<table, entity>> : table \in blocked .. Tables}
  OBVIOUS
<1>6. new \in SUBSET (Table \X Entity)
  BY <1>3, <1>5
<1>7. /\ tables' \in [Table -> [Slots -> Entity \cup {NoEntity}]]
      /\ \A table \in Table, slot \in Slots :
           \/ tables'[table][slot] = NoEntity
           \/ /\ tables'[table][slot] = tables[table][slot]
              /\ table \in reached /\ slot = entity.index => tables[table][slot] # entity
  <2>1. tables' = Dropped(entity, reached) /\ TypeOK
    BY <1>1, <1>4 DEF IInv
  <2>2. QED
    BY <2>1, DroppedEntries
<1>8. ASSUME NEW table \in Table, NEW slot \in Slots, tables'[table][slot] = entity
      PROVE  <<table, entity>> \in new
  <2>1. tables[table][slot] = entity /\ (table \in reached => slot # entity.index)
    BY <1>7, <1>8, NoneAssumption
  <2>2. slot = entity.index
    BY <2>1, NoneAssumption DEF IInv, EntriesIssued
  <2>3. table \in blocked .. Tables
    BY <1>3, <1>4, <2>1, <2>2
  <2>4. QED
    BY <1>5, <2>3
<1>9. /\ shared' \in [Tasks -> SUBSET Table] /\ exclusive' \in [Tasks -> SUBSET Table]
      /\ reading' \subseteq Tasks /\ BorrowsExclude'
  BY <1>1, UnwindBorrows DEF IInv
<1>10. Leaves(new)
  BY <1>1, <1>5
<1>11. QED
  BY <1>2, <1>6, <1>7, <1>8, <1>9, <1>10, KeepOrDrop

(* A ViewMut that removes an entry, or all of them. *)
LEMMA ClearingInv ==
  ASSUME IInv, UNCHANGED <<registryVars, borrowVars>>, Leaves({}),
         tables' \in [Table -> [Slots -> Entity \cup {NoEntity}]],
         \A table \in Table, slot \in Slots :
           tables'[table][slot] = NoEntity \/ tables'[table][slot] = tables[table][slot]
  PROVE  IInv'
<1>1. UNCHANGED allocatorVars /\ UNCHANGED <<shared, exclusive, reading>>
  BY RegistryStays DEF borrowVars
<1>2. /\ RegistryInv'
      /\ \A other \in Entity : IsAlive(other) <=> IsAlive(other)'
      /\ \A other \in Entity : IsIssued(other) => IsIssued(other)'
  BY RegistryStays
<1>3. EntriesIssued'
  BY <1>2, EntriesStayIssued
<1>4. ASSUME NEW table \in Table, NEW slot \in Slots,
             tables'[table][slot] # NoEntity, ~ IsAlive(tables[table][slot])'
      PROVE  <<table, tables'[table][slot]>> \in leftover
  <2>1. tables'[table][slot] = tables[table][slot] /\ ~ IsAlive(tables[table][slot])
    BY <1>1, <1>4 DEF IsAlive, allocatorVars
  <2>2. QED
    BY <1>4, <2>1 DEF IInv, GhostsExplained
<1>5. GhostsExplained' /\ leftover' \subseteq Table \X Entity
  <2>1. leftover \subseteq Table \X Entity
    BY DEF IInv, TypeOK
  <2>2. QED
    BY <1>3, <1>4, <2>1, LeavesExplained
<1>6. TypeOK' /\ BorrowsExclude'
  BY <1>1, <1>2, <1>5 DEF IInv, TypeOK, RegistryInv, BorrowsExclude
<1>7. QED
  BY <1>2, <1>3, <1>5, <1>6 DEF IInv

(* remove through a ViewMut. *)
LEMMA RemoveInv ==
  ASSUME IInv, NEW task \in Tasks, NEW table \in Table, NEW entity \in Entity,
         Remove(task, table, entity)
  PROVE  IInv'
<1>1. PICK from \in SUBSET Table : from = {table}
  OBVIOUS
<1>2. tables' = Dropped(entity, from) /\ TypeOK
  BY <1>1 DEF Remove, IInv
<1>3. /\ tables' \in [Table -> [Slots -> Entity \cup {NoEntity}]]
      /\ \A other \in Table, slot \in Slots :
           tables'[other][slot] = NoEntity \/ tables'[other][slot] = tables[other][slot]
  BY <1>2, DroppedEntries
<1>4. QED
  BY <1>3, ClearingInv DEF Remove

(* clear through a ViewMut. *)
LEMMA ClearInv ==
  ASSUME IInv, NEW task \in Tasks, NEW table \in Table, Clear(task, table)
  PROVE  IInv'
<1>1. /\ tables' \in [Table -> [Slots -> Entity \cup {NoEntity}]]
      /\ \A other \in Table, slot \in Slots :
           tables'[other][slot] = NoEntity \/ tables'[other][slot] = tables[other][slot]
  BY DEF IInv, TypeOK, Clear
<1>2. QED
  BY <1>1, ClearingInv DEF Clear

(* insert through a ViewMut: one entry under a handle that was issued, and  *)
(* recorded if that handle is dead.                                         *)
LEMMA InsertInv ==
  ASSUME IInv, NEW task \in Tasks, NEW table \in Table, NEW entity \in Entity,
         Insert(task, table, entity)
  PROVE  IInv'
<1>1. PICK new : new = IF IsAlive(entity) THEN {} ELSE {<<table, entity>>}
  OBVIOUS
<1>2. /\ Leaves(new) /\ new \in SUBSET (Table \X Entity)
      /\ IsIssued(entity)
      /\ tables' = [tables EXCEPT ![table][entity.index] = entity]
      /\ UNCHANGED registryVars /\ UNCHANGED <<shared, exclusive, reading>>
      /\ entity.index \in Slots
  BY <1>1 DEF Insert, borrowVars, Entity
<1>3. RegistryInv' /\ UNCHANGED allocatorVars
  BY <1>2, RegistryStays
<1>4. /\ tables' \in [Table -> [Slots -> Entity \cup {NoEntity}]]
      /\ \A other \in Table, slot \in Slots :
           \/ tables'[other][slot] = tables[other][slot]
           \/ other = table /\ slot = entity.index /\ tables'[other][slot] = entity
  BY <1>2 DEF IInv, TypeOK
<1>5. EntriesIssued'
  BY <1>2, <1>3, <1>4 DEF IInv, EntriesIssued, IsIssued, allocatorVars
<1>6. ASSUME NEW other \in Table, NEW slot \in Slots,
             tables'[other][slot] # NoEntity, ~ IsAlive(tables[other][slot])'
      PROVE  <<other, tables'[other][slot]>> \in leftover \cup new
  <2>1. CASE tables'[other][slot] = tables[other][slot]
    <3>1. ~ IsAlive(tables[other][slot])
      BY <1>3, <1>6, <2>1 DEF IsAlive, allocatorVars
    <3>2. QED
      BY <1>6, <2>1, <3>1 DEF IInv, GhostsExplained
  <2>2. CASE other = table /\ tables'[other][slot] = entity
    <3>1. ~ IsAlive(entity)
      BY <1>3, <1>6, <2>2 DEF IsAlive, allocatorVars
    <3>2. QED
      BY <1>1, <2>2, <3>1
  <2>3. QED
    BY <1>4, <2>1, <2>2
<1>7. GhostsExplained' /\ leftover' \subseteq Table \X Entity
  <2>1. leftover \subseteq Table \X Entity
    BY DEF IInv, TypeOK
  <2>2. QED
    BY <1>2, <1>4, <1>5, <1>6, <2>1, LeavesExplained
<1>8. TypeOK' /\ BorrowsExclude'
  BY <1>2, <1>3, <1>4, <1>7 DEF IInv, TypeOK, RegistryInv, BorrowsExclude
<1>9. QED
  BY <1>3, <1>5, <1>7, <1>8 DEF IInv

(* Every step keeps the invariant. *)
LEMMA NextInv == IInv /\ [Next]_vars => IInv'
<1>1. SUFFICES ASSUME IInv, [Next]_vars PROVE IInv'
  OBVIOUS
<1>2. CASE UNCHANGED vars
  <2>1. TypeOK /\ BorrowsExclude
    BY <1>1 DEF IInv
  <2>2. /\ UNCHANGED registryVars /\ UNCHANGED <<tables, leftover>>
        /\ UNCHANGED <<shared, exclusive, reading>>
    BY <1>2 DEF vars, borrowVars
  <2>3. RegistryInv' /\ UNCHANGED allocatorVars
    BY <1>1, <2>2, RegistryStays
  <2>4. QED
    BY <1>1, <2>1, <2>2, <2>3, BorrowInv DEF TypeOK, BorrowsExclude
<1>3. CASE Spawn \/ Adopt
  BY <1>1, <1>3, ArrivalInv
<1>4. ASSUME NEW entity \in Entity, Despawn(entity) \/ Promote(entity) PROVE IInv'
  BY <1>1, <1>4, DespawnInv, PromoteInv
<1>5. ASSUME NEW task \in Tasks, ViewPanics(task) \/ ReadEntities(task) \/ RegistryPanics(task)
      PROVE  IInv'
  BY <1>1, <1>5, OtherBorrowInv
<1>6. ASSUME NEW task \in Tasks, Release(task) PROVE IInv'
  BY <1>1, <1>6, ReleaseInv
<1>7. ASSUME NEW task \in Tasks, NEW entity \in Entity, DespawnPanics(task, entity) PROVE IInv'
  BY <1>1, <1>7, DespawnPanicsInv
<1>8. ASSUME NEW task \in Tasks, NEW table \in Table,
             View(task, table) \/ ViewMut(task, table) \/ Clear(task, table)
      PROVE  IInv'
  BY <1>1, <1>8, ViewInv, ViewMutInv, ClearInv
<1>9. ASSUME NEW task \in Tasks, NEW table \in Table, NEW entity \in Entity,
             Insert(task, table, entity) \/ Remove(task, table, entity)
      PROVE  IInv'
  BY <1>1, <1>9, InsertInv, RemoveInv
<1>10. QED
  BY <1>1, <1>2, <1>3, <1>4, <1>5, <1>6, <1>7, <1>8, <1>9 DEF Next

-----------------------------------------------------------------------------
(* The inductive invariant holds in every reachable state. *)
THEOREM Invariance == Spec => []IInv
BY InitInv, NextInv, PTL DEF Spec

(* The state stays within its types: no entry, view or record is ever of    *)
(* something that is not a table, a task or a handle.                       *)
THEOREM TypeCorrect == Spec => []TypeOK
<1>1. IInv => TypeOK
  BY DEF IInv
<1>2. QED
  BY <1>1, Invariance, PTL

(* Every component of a dead entity in a table was stored under the dead    *)
(* handle or kept by a despawn that panicked; World::despawn is complete.   *)
THEOREM GhostsAlwaysExplained == Spec => []GhostsExplained
<1>1. IInv => GhostsExplained
  BY DEF IInv
<1>2. QED
  BY <1>1, Invariance, PTL

(* World::spawn hands out a handle no table has an entry of: only a spawn   *)
(* brings a handle to life, and that handle was never issued, while every   *)
(* entry's handle was.                                                      *)
THEOREM NewEntitiesAlwaysBare == Spec => NewEntitiesAreBare
<1>1. ASSUME IInv, [Next]_vars, NEW entity \in Entity, NEW table \in Table,
             ~ IsAlive(entity), IsAlive(entity)'
      PROVE  tables[table][entity.index] # entity
  <2>1. CASE Spawn \/ Adopt
    <3>1. PICK new \in Entity :
            \/ RegistrySpawn(new)
            \/ \E uid \in Minted \cup Foreign : RegistryAdopt(uid, new)
      BY <2>1 DEF Spawn, Adopt
    <3>2. ~ IsIssued(new) /\ (IsAlive(entity)' <=> IsAlive(entity) \/ entity = new)
      BY <1>1, <3>1, ArrivalEffect DEF IInv
    <3>3. ~ IsIssued(entity) /\ entity.index \in Slots
      BY <1>1, <3>2 DEF Entity
    <3>4. QED
      BY <1>1, <3>3, NoneAssumption DEF IInv, EntriesIssued
  <2>2. CASE \E other \in Entity : RegistryDespawn(other)
    BY <1>1, <2>2, DepartureEffect DEF IInv
  <2>3. CASE UNCHANGED allocatorVars
    BY <1>1, <2>3 DEF IsAlive, allocatorVars
  <2>4. QED
    BY <1>1, <2>1, <2>2, <2>3
       DEF Next, vars, registryVars, Promote, RegistryPromote, Despawn, DespawnPanics,
           ViewPanics, Release, ReadEntities, RegistryPanics, View, ViewMut, Clear, Insert,
           Remove
<1>2. IInv /\ [Next]_vars =>
        [\A entity \in Entity, table \in Table :
           ~ IsAlive(entity) /\ IsAlive(entity)' =>
             tables[table][entity.index] # entity]_vars
  BY <1>1
<1>3. QED
  BY <1>2, Invariance, PTL DEF Spec, NewEntitiesAreBare

(* A table does not change under a View: what changes a table is a despawn, *)
(* which panics at the first borrowed table before it touches it, or the    *)
(* owner of a ViewMut, which excludes every View.                           *)
THEOREM ViewsAlwaysStable == Spec => ViewsAreStable
<1>1. ASSUME IInv, [Next]_vars, NEW task \in Tasks, NEW table \in shared[task] \cap shared'[task]
      PROVE  tables'[table] = tables[table]
  <2>1. table \in Table /\ Borrowed(table) /\ \A other \in Tasks : table \notin exclusive[other]
    BY <1>1 DEF IInv, TypeOK, BorrowsExclude, Borrowed
  <2>2. CASE \E entity \in Entity : Despawn(entity)
    BY <2>1, <2>2 DEF Despawn
  <2>3. CASE \E other \in Tasks, entity \in Entity : DespawnPanics(other, entity)
    <3>1. PICK entity \in Entity, blocked \in Table :
            /\ \A free \in 1 .. blocked - 1 : ~ Borrowed(free)
            /\ tables' = Dropped(entity, 1 .. blocked - 1)
      BY <2>3 DEF DespawnPanics
    <3>2. PICK reached \in SUBSET Table : reached = 1 .. blocked - 1
      BY TablesAssumption DEF Table
    <3>3. tables' = Dropped(entity, reached) /\ table \notin reached
      BY <2>1, <3>1, <3>2
    <3>4. QED
      BY <1>1, <2>1, <3>3, DroppedEntries DEF IInv
  <2>4. CASE \E other \in Tasks, into \in Table, entity \in Entity :
               Insert(other, into, entity) \/ Remove(other, into, entity)
    <3>1. PICK into \in Table, entity \in Entity :
            /\ into # table
            /\ \/ tables' = [tables EXCEPT ![into][entity.index] = entity]
               \/ tables' = Dropped(entity, {into})
      BY <2>1, <2>4 DEF Insert, Remove
    <3>2. CASE tables' = Dropped(entity, {into})
      <4>1. PICK from \in SUBSET Table : from = {into}
        OBVIOUS
      <4>2. tables' = Dropped(entity, from) /\ table \notin from
        BY <3>1, <3>2, <4>1
      <4>3. QED
        BY <1>1, <2>1, <4>2, DroppedEntries DEF IInv
    <3>3. CASE tables' = [tables EXCEPT ![into][entity.index] = entity]
      BY <1>1, <2>1, <3>1, <3>3 DEF IInv, TypeOK
    <3>4. QED
      BY <3>1, <3>2, <3>3
  <2>5. CASE \E other \in Tasks, into \in Table : Clear(other, into)
    BY <1>1, <2>1, <2>5 DEF Clear, IInv, TypeOK
  <2>6. CASE UNCHANGED tables
    BY <2>6
  <2>7. QED
    BY <1>1, <2>2, <2>3, <2>4, <2>5, <2>6
       DEF Next, vars, Spawn, Adopt, Promote, ViewPanics, Release, ReadEntities,
           RegistryPanics, View, ViewMut
<1>2. IInv /\ [Next]_vars =>
        [\A task \in Tasks : \A table \in shared[task] \cap shared'[task] :
           tables'[table] = tables[table]]_vars
  BY <1>1
<1>3. QED
  BY <1>2, Invariance, PTL DEF Spec, ViewsAreStable

(* Whatever its tasks do, panic or keep borrowed, a world's registry takes  *)
(* the steps of a registry alone; so all that is proved of a registry holds *)
(* of the registry of a world.                                              *)
THEOREM WorldImplementsRegistry == Spec => RegistrySpec
<1>1. Init => RegistryInit
  BY DEF Init
<1>2. [Next]_vars => [RegistryNext]_registryVars
  <2>1. CASE UNCHANGED registryVars
    BY <2>1
  <2>2. CASE Spawn \/ Adopt
    BY <2>2 DEF Spawn, Adopt, RegistryNext
  <2>3. CASE \E entity \in Entity : Promote(entity) \/ Despawn(entity)
    BY <2>3 DEF Promote, Despawn, RegistryNext
  <2>4. CASE \E task \in Tasks, entity \in Entity : DespawnPanics(task, entity)
    BY <2>4 DEF DespawnPanics, RegistryNext
  <2>5. QED
    BY <2>1, <2>2, <2>3, <2>4
       DEF Next, vars, ViewPanics, Release, ReadEntities, RegistryPanics, View, ViewMut, Clear,
           Insert, Remove
<1>3. QED
  BY <1>1, <1>2, PTL DEF Spec, RegistrySpec
=============================================================================
