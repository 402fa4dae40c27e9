CONSTANTS
  PageLen = 2
  MaxIndex = 3
  Generations = {1, 3}
  Value = {v1, v2}
  Absent = Absent
  NoPage = NoPage
  Nothing = Nothing
SPECIFICATION Spec
SYMMETRY Symmetry
INVARIANTS
  PositionsAgree
  PagesTight
PROPERTIES
  ImplementsMap
