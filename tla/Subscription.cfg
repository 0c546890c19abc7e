CONSTANTS
  None = None
  Capacity = 2
  MessagesLimit = 2
  BytesLimit = 3
  Sizes = {0, 2}
  Drainers = {d1, d2}
  MaxLosses = 2
SPECIFICATION Spec
INVARIANTS TypeOK PendingExact DoneIsLast DetachmentTold DrainOwed
PROPERTIES DrainReturns RecoveryNotMissed
CHECK_DEADLOCK FALSE
