SPECIFICATION Spec
CONSTANTS
  Cycles = 1
  BurstSize = 4
  Suite <- AllModes
  Modes = {"push", "ordered", "push_reconnect", "ordered_reconnect", "ordered_restart", "ordered_changed", "ordered_leader", "kv_reconnect", "kv_restart", "kv_leader", "object_reconnect", "object_restart", "object_multi", "object_leader"}
  Hosts = {1, 2}
  FaultyModes = {"object_leader"}
  MaxRetries = 1
INVARIANT NoFalseFailure
PROPERTY AcksSurvive RestartedRejoin
CHECK_DEADLOCK FALSE
