CONSTANTS
  None = None
  Subjects = {inbox}
  Unencodable = {}
  Infos <- OneInfo
  PingInterval = TRUE
  MaxPings = 1
  Calls = {c1, c2, c3}
  Kinds = {"Publish", "Flush", "Drain"}
  Inbox = inbox
  CommandCapacity = 2
  BufferSize = 2
  MaxAttempts = 2
  MaxSent = 0
  MaxLosses = 2
SPECIFICATION Spec
SYMMETRY Symmetry
INVARIANTS TypeOK AnsweredOnce BarriersMatchCore SentInOrder
PROPERTIES FlushCovers
CHECK_DEADLOCK FALSE
