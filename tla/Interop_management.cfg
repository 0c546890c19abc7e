SPECIFICATION Spec
CONSTANTS
  Cycles = 1
  BurstSize = 4
  Suite <- AllModes
  Modes = {"ordered_management"}
  Hosts = {1}
  FaultyModes = {}
  MaxRetries = 0
INVARIANT NoFalseFailure
CHECK_DEADLOCK FALSE
