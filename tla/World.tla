-------------------------------- MODULE World --------------------------------
(***************************************************************************)
(* The world of one shard (ecs/world.rs): the registry of entities, one    *)
(* table per component type, and the views that the shard's tasks hold on  *)
(* them.                                                                   *)
(* The tasks share one thread: a call runs to its end, but a task may keep *)
(* its views across an await while others run.  Borrowing is dynamic       *)
(* (RefCell): a borrow that conflicts panics, the panic unwinds the task   *)
(* that asked and drops all its views, and the other tasks go on.          *)
(*                                                                         *)
(* A table appears as the map it implements (ComponentMap), without the    *)
(* components themselves: for each slot the handle whose component it      *)
(* holds.  A query is the views it checks out, one after the other.        *)
(***************************************************************************)
EXTENDS Registry

CONSTANTS
  Tables,           \* How many component types are registered.
  Tasks             \* The tasks of the shard.

ASSUME TablesAssumption == Tables \in Nat \ {0}

VARIABLES
  tables,           \* Per table and slot, the handle that has a component.
  shared,           \* The tables each task holds a View of.
  exclusive,        \* The tables each task holds a ViewMut of.
  reading,          \* The tasks that hold the borrow World::entities returns.
  leftover          \* The <<table, handle>> entries stored under a dead handle
                    \* or kept by a despawn that panicked (a history variable).

borrowVars == <<shared, exclusive, reading>>
vars == <<registryVars, tables, borrowVars, leftover>>

Table == 1 .. Tables

-----------------------------------------------------------------------------
Borrowed(table) ==
  \E task \in Tasks : table \in shared[task] \cup exclusive[task]

BorrowedMut(table) == \E task \in Tasks : table \in exclusive[task]

Init ==
  /\ RegistryInit
  /\ tables = [table \in Table |-> [slot \in Slots |-> NoEntity]]
  /\ shared = [task \in Tasks |-> {}]
  /\ exclusive = [task \in Tasks |-> {}]
  /\ reading = {}
  /\ leftover = {}

(* A panic ends the task: every view and borrow it holds is dropped. *)
Unwind(task) ==
  /\ shared' = [shared EXCEPT ![task] = {}]
  /\ exclusive' = [exclusive EXCEPT ![task] = {}]
  /\ reading' = reading \ {task}

View(task, table) ==
  /\ ~ BorrowedMut(table)
  /\ shared' = [shared EXCEPT ![task] = @ \cup {table}]
  /\ UNCHANGED <<registryVars, tables, exclusive, reading, leftover>>

ViewMut(task, table) ==
  /\ ~ Borrowed(table)
  /\ exclusive' = [exclusive EXCEPT ![task] = @ \cup {table}]
  /\ UNCHANGED <<registryVars, tables, shared, reading, leftover>>

(* view or view_mut of a table whose borrow is in the way. *)
ViewPanics(task) ==
  /\ \E table \in Table : Borrowed(table)
  /\ Unwind(task)
  /\ UNCHANGED <<registryVars, tables, leftover>>

Release(task) ==
  /\ \E table \in shared[task] \cup exclusive[task] :
       /\ shared' = [shared EXCEPT ![task] = @ \ {table}]
       /\ exclusive' = [exclusive EXCEPT ![task] = @ \ {table}]
  /\ UNCHANGED <<registryVars, tables, reading, leftover>>

(* World::entities, and the drop of the borrow it returns. *)
ReadEntities(task) ==
  /\ reading' = IF task \in reading THEN reading \ {task} ELSE reading \cup {task}
  /\ UNCHANGED <<registryVars, tables, shared, exclusive, leftover>>

Spawn ==
  /\ reading = {}
  /\ \E entity \in Entity : RegistrySpawn(entity)
  /\ UNCHANGED <<tables, borrowVars, leftover>>

Promote(entity) ==
  /\ reading = {}
  /\ RegistryPromote(entity)
  /\ UNCHANGED <<tables, borrowVars, leftover>>

(* adopt of an id this world minted, whose entity has left, or of one that  *)
(* another minted.                                                          *)
Adopt ==
  /\ reading = {}
  /\ \E entity \in Entity, uid \in Minted \cup Foreign : RegistryAdopt(uid, entity)
  /\ UNCHANGED <<tables, borrowVars, leftover>>

(* A call that changes the registry panics while someone reads it, despawn  *)
(* of a dead entity included, and when the indices or the serials are used  *)
(* up: spawn, adopt and promote then leave nothing behind.                  *)
RegistryPanics(task) ==
  /\ \/ reading # {}
     \/ frees = <<>> /\ Len(generations) = MaxSlots
     \/ next = MaxSerial /\ \E entity \in Entity : IsAlive(entity) /\ Universal(entity) = NoUid
  /\ Unwind(task)
  /\ UNCHANGED <<registryVars, tables, leftover>>

(* The leftovers of a step: those still in their tables, and the new ones. *)
Leaves(new) ==
  leftover' = {entry \in leftover \cup new :
                 tables'[entry[1]][entry[2].index] = entry[2]}

(* Table::remove for each of the given tables. *)
Dropped(entity, from) ==
  [table \in Table |->
     IF table \in from /\ tables[table][entity.index] = entity
     THEN [tables[table] EXCEPT ![entity.index] = NoEntity]
     ELSE tables[table]]

(* despawn whose loop stops one table short. *)
DespawnMissesLast(entity) ==
  /\ reading = {}
  /\ \A table \in Table : ~ Borrowed(table)
  /\ RegistryDespawn(entity)
  /\ tables' = Dropped(entity, 1 .. Tables - 1)
  /\ Leaves({})
  /\ UNCHANGED borrowVars

(* despawn that does not borrow the tables it changes. *)
DespawnUnborrowed(entity) ==
  /\ reading = {}
  /\ RegistryDespawn(entity)
  /\ tables' = Dropped(entity, Table)
  /\ Leaves({})
  /\ UNCHANGED borrowVars

(* despawn with no view in the way: the entity's slot is freed, its id      *)
(* forgotten and its components dropped from every table.                   *)
Despawn(entity) ==
  /\ reading = {}
  /\ \A table \in Table : ~ Borrowed(table)
  /\ RegistryDespawn(entity)
  /\ tables' = Dropped(entity, Table)
  /\ Leaves({})
  /\ UNCHANGED borrowVars

(* despawn that meets a borrowed table: the registry has let it go, the     *)
(* tables before that one have dropped the entity, and the others keep it.  *)
DespawnPanics(task, entity) ==
  \E blocked \in Table :
    /\ reading = {}
    /\ Borrowed(blocked)
    /\ \A table \in 1 .. blocked - 1 : ~ Borrowed(table)
    /\ RegistryDespawn(entity)
    /\ tables' = Dropped(entity, 1 .. blocked - 1)
    /\ Unwind(task)
    /\ Leaves({<<table, entity>> : table \in blocked .. Tables})

(* SparseSet::insert through a ViewMut: under the handle's index, whether   *)
(* the handle is alive or not, over whatever entry is there.                *)
Insert(task, table, entity) ==
  /\ table \in exclusive[task]
  /\ IsIssued(entity)
  /\ tables' = [tables EXCEPT ![table][entity.index] = entity]
  /\ Leaves(IF IsAlive(entity) THEN {} ELSE {<<table, entity>>})
  /\ UNCHANGED <<registryVars, borrowVars>>

(* SparseSet::remove and clear through a ViewMut. *)
Remove(task, table, entity) ==
  /\ table \in exclusive[task]
  /\ tables[table][entity.index] = entity
  /\ tables' = Dropped(entity, {table})
  /\ Leaves({})
  /\ UNCHANGED <<registryVars, borrowVars>>

Clear(task, table) ==
  /\ table \in exclusive[task]
  /\ tables' = [tables EXCEPT ![table] = [slot \in Slots |-> NoEntity]]
  /\ Leaves({})
  /\ UNCHANGED <<registryVars, borrowVars>>

Next ==
  \/ Spawn
  \/ Adopt
  \/ \E entity \in Entity : Despawn(entity) \/ Promote(entity)
  \/ \E task \in Tasks :
       \/ ViewPanics(task)
       \/ Release(task)
       \/ ReadEntities(task)
       \/ RegistryPanics(task)
       \/ \E entity \in Entity : DespawnPanics(task, entity)
       \/ \E table \in Table :
            \/ View(task, table)
            \/ ViewMut(task, table)
            \/ Clear(task, table)
            \/ \E entity \in Entity :
                 Insert(task, table, entity) \/ Remove(task, table, entity)

Spec == Init /\ [][Next]_vars

-----------------------------------------------------------------------------
(* The types of the world's state. *)
TypeOK ==
  /\ RegistryTypeOK
  /\ tables \in [Table -> [Slots -> Entity \cup {NoEntity}]]
  /\ shared \in [Tasks -> SUBSET Table]
  /\ exclusive \in [Tasks -> SUBSET Table]
  /\ reading \subseteq Tasks
  /\ leftover \subseteq Table \X Entity

(* A component whose entity is dead is in a table only because a despawn    *)
(* panicked before it reached the table, or because someone stored it under *)
(* the dead handle: a despawn that returns has cleaned every table, and     *)
(* nothing brings a dropped component back.                                 *)
GhostsExplained ==
  \A table \in Table, slot \in Slots :
    LET entity == tables[table][slot]
    IN  entity # NoEntity /\ ~ IsAlive(entity) => <<table, entity>> \in leftover

(* A new entity starts without components, even in a slot whose former      *)
(* entity left some behind: no table holds a handle that is handed out now. *)
NewEntitiesAreBare ==
  [][\A entity \in Entity, table \in Table :
       ~ IsAlive(entity) /\ IsAlive(entity)' =>
         tables[table][entity.index] # entity]_vars

(* A table does not change under a view that is held across a step: neither *)
(* a spawn nor a despawn nor another task moves the entries that an         *)
(* iteration over the view has yet to reach.                                *)
ViewsAreStable ==
  [][\A task \in Tasks : \A table \in shared[task] \cap shared'[task] :
       tables'[table] = tables[table]]_vars
=============================================================================
