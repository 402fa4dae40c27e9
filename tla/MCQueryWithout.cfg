CONSTANTS
  Components = {A, B}
  Dense <- DenseVectors
  Endless = 9
  MaxTerms = 2
SPECIFICATION Spec
INVARIANTS
  DataTermSuffices
CHECK_DEADLOCK FALSE
