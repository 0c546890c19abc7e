CONSTANTS
  None = None
  Subjects = {inbox}
  Unencodable = {}
  Infos <- OneInfo
  PingInterval = FALSE
  MaxPings = 1
  Calls = {c1, c2}
  Kinds = {"Subscribe", "Drain_subscription"}
  Inbox = inbox
  CommandCapacity = 2
  BufferSize = 2
  MaxAttempts = 2
  MaxSent = 0
  MaxLosses = 1
SPECIFICATION Spec
SYMMETRY Symmetry
INVARIANT DrainReissued
CHECK_DEADLOCK FALSE
