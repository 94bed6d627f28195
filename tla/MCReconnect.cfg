\* lost and refused connections, crashes and restarts
CONSTANTS
  s1 = s1
  s2 = s2
  k1 = k1
  k2 = k2
  NoKey = NoKey
  NoSession = NoSession
  Sessions = {s1, s2}
  Keys = {k1}
  MaxOps = 2
  Preemption = FALSE
  MaxDrops = 2
  MaxErrors = 0
  MaxInvalidations = 0
  MaxRestarts = 2
  RpcRelease = FALSE
  RejectOnError = TRUE
  Need <- NeedSame
  Limit <- LimitTwo
  OverloadAction <- Rejecting
SPECIFICATION FairSpec
INVARIANTS
  Conservation
  ExclusiveConnection
PROPERTIES
  InitedAfterReset
  QueueDrained
  ReinitCompletes
CHECK_DEADLOCK FALSE
