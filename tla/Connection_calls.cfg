CONSTANTS
  None = None
  Subjects = {inbox}
  Unencodable = {}
  Infos <- OneInfo
  PingInterval = FALSE
  MaxPings = 1
  Calls = {c1, c2}
  Kinds = {"Publish", "Subscribe", "Drain_subscription", "Request", "Flush", "Drain", "Close"}
  Inbox = inbox
  CommandCapacity = 2
  BufferSize = 2
  MaxAttempts = 2
  MaxSent = 0
  MaxLosses = 1
SPECIFICATION Spec
INVARIANTS InboxFirst InterestAgrees
PROPERTIES CallsReturn
CHECK_DEADLOCK FALSE
