CONSTANTS
  None = None
  Subjects = {inbox}
  Unencodable = {}
  Infos <- OneInfo
  PingInterval = FALSE
  MaxPings = 1
  Calls = {c1, c2}
  Kinds = {"Publish", "Flush"}
  Inbox = inbox
  CommandCapacity = 2
  BufferSize = 2
  MaxAttempts = 2
  MaxSent = 0
  MaxLosses = 2
SPECIFICATION Spec
SYMMETRY Symmetry
INVARIANT FlushHasPing
CHECK_DEADLOCK FALSE
