CONSTANTS
  Shards = {s1, s2}
  Handles = {h1, h2}
  MaxSerial = 2
  NoUid = NoUid
  NoEntity = NoEntity
SPECIFICATION Spec
SYMMETRY Symmetry
INVARIANTS
  IdsNeverAlias
CHECK_DEADLOCK FALSE
