SPECIFICATION Spec
CONSTANTS
  NShards = 2
  Sources <- MCSources
INVARIANTS
  NoShardOutlivesNode
  NoStopWithoutCause
PROPERTIES
  NodeCompletes
  ShutdownReachesAll
  StopInterruptsSleep
CHECK_DEADLOCK FALSE
