CONSTANTS
  Bits = 3
  Alphabet <- MCAlphabet
  Schemas <- MCSchemas
  FloatLimit <- MCFloatLimit
  MaxDuration = 5
  MaxVariants = 3
SPECIFICATION Spec
INVARIANTS
  KeysFixedAndFloatFree
  FixedAgreesWithLayout
  CyclesExactly
  LinksRoutable
  ValuesFit
  OrderInsensitive
  RolesMeet
  FingerprintCovers
  TraitsFollowContents
CHECK_DEADLOCK FALSE
