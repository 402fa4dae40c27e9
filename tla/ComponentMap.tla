---------------------------- MODULE ComponentMap ----------------------------
(***************************************************************************)
(* What one component table promises: under each entity index at most one  *)
(* entry, the component of one generation of the slot.  A handle of        *)
(* another generation does not see it and cannot remove it, but storing a  *)
(* component under such a handle replaces it.                              *)
(***************************************************************************)
CONSTANTS
  Index,            \* The entity indices.
  Handle,           \* The handles: records with a field index.
  Value,            \* The components.
  Nothing           \* No entry.

VARIABLE entries

Entry(handle, value) == [entity |-> handle, data |-> value]

Has(handle) ==
  entries[handle.index] # Nothing /\ entries[handle.index].entity = handle

Init == entries = [index \in Index |-> Nothing]

Store(handle, value) ==
  entries' = [entries EXCEPT ![handle.index] = Entry(handle, value)]

Write(handle, value) == Has(handle) /\ Store(handle, value)

Drop(handle) ==
  Has(handle) /\ entries' = [entries EXCEPT ![handle.index] = Nothing]

Clear == entries' = [index \in Index |-> Nothing]

Next ==
  \/ Clear
  \/ \E handle \in Handle :
       \/ Drop(handle)
       \/ \E value \in Value : Store(handle, value) \/ Write(handle, value)

Spec == Init /\ [][Next]_entries
=============================================================================
