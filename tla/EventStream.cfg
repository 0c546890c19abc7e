CONSTANTS
  Capacity = 2
  LameDuck = TRUE
SPECIFICATION Spec
INVARIANTS TypeOK NeverBlocks DoneIsLast ReplacementContiguous
PROPERTIES OneReconnectReserved EndIsSeen
CHECK_DEADLOCK FALSE
