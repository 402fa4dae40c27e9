CONSTANTS
  MaxSlots = 3
  MaxGeneration = 5
  Minters = {here, there}
  Self = here
  MaxSerial = 3
  Start = 1
  NoUid = NoUid
  NoEntity = NoEntity
SPECIFICATION RegistrySpec
INVARIANTS
  RegistryTypeOK
  SlotsAccounted
  GenerationNeverOverflows
  MapsAgree
  NextIsFresh
PROPERTIES
  HandlesNeverReturn
  ImplementsIdentity
CHECK_DEADLOCK FALSE
