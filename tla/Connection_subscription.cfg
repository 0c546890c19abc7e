CONSTANTS
  None = None
  Subjects = {inbox}
  Unencodable = {}
  Infos <- OneInfo
  PingInterval = FALSE
  MaxPings = 1
  Calls = {c1, c2, c3}
  Kinds = {"Subscribe", "Ephemeral", "Unsubscribe", "Auto_unsubscribe", "Drain_subscription"}
  Inbox = inbox
  CommandCapacity = 2
  BufferSize = 2
  MaxAttempts = 2
  MaxSent = 1
  MaxLosses = 1
SPECIFICATION Spec
SYMMETRY Symmetry
INVARIANTS HandlesMatchCore
CHECK_DEADLOCK FALSE
