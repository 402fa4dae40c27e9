CONSTANTS
  MaxSlots = 2
  MaxGeneration = 5
  Minters = {here}
  Self = here
  MaxSerial = 1
  Start = 0
  NoUid = NoUid
  Tables = 2
  Tasks = {t1, t2}
  NoEntity = NoEntity
SPECIFICATION Spec
SYMMETRY Symmetry
INVARIANTS
  GhostsExplained
PROPERTIES
  NewEntitiesAreBare
  ViewsAreStable
