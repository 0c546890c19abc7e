CONSTANTS
  None = None
  Subjects = {s1, s2}
  Unencodable = {s2}
  Infos <- OneInfo
  PingInterval = TRUE
  MaxPings = 2
  Messages <- OneMessage
  Quotas = {2}
  MaxSid = 1
  MaxSent = 2
  MaxPending = 2
  MaxWire = 3
  MaxLosses = 2
SPECIFICATION Spec
INVARIANTS TypeOK SubscriptionServed QuotaHonoured NoOrphan CoreConsistent BarriersAligned
PROPERTY StaleMeansUnanswered DrainLosesNothing
CHECK_DEADLOCK FALSE
