CONSTANTS
  Components = {A, B}
  Dense <- DenseVectors
  Endless = 9
  MaxTerms = 3
SPECIFICATION Spec
INVARIANTS
  YieldsMatching
  NoAliasing
  ShortestDrives
CHECK_DEADLOCK FALSE
