CONSTANTS
  Bits = 3
  Alphabet <- MCAlphabet
  Schemas <- MCNested
  FloatLimit <- MCFloatLimit
  MaxDuration = 5
  MaxVariants = 3
SPECIFICATION Spec
INVARIANT QualifiedNamesUnique
CHECK_DEADLOCK FALSE
