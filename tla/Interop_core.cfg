SPECIFICATION Spec
CONSTANTS
  Cycles = 2
  BurstSize = 4
  Suite <- AllModes
  Modes = {"core", "service", "service_failure", "service_parent_close", "reconnect", "service_reconnect"}
  Hosts = {1}
  FaultyModes = {"core", "reconnect"}
  MaxRetries = 1
INVARIANT TypeOK NoFalseFailure
PROPERTY RunEnds ImplementsRounds OnlyRetriedLost
CHECK_DEADLOCK FALSE
