SPECIFICATION Spec
CONSTANTS
  Bits = 3
  Alphabet <- Identifiers
  Defs <- Schema
  Messages <- Compiled
  TicksPerMicro = 2
  MaxTimestampMicros = 100
  MaxDurationMicros = 50
  Samples <- Values
  Capacities <- Buffers
  Probed <- ProbedMessages
  MaxProbe = 4
INVARIANTS
  RoundTrip
  EncodeOutcome
  ValidatorTotal
  AcceptedIsCanonical
CHECK_DEADLOCK FALSE
