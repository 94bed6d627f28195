\* two calls, a failover group and a single resource each, every thread preemptible, no faults
CONSTANTS
  s1 = s1
  s2 = s2
  k1 = k1
  k2 = k2
  NoKey = NoKey
  NoSession = NoSession
  Sessions = {s1, s2}
  Keys = {k1, k2}
  MaxOps = 2
  Preemption = TRUE
  MaxDrops = 0
  MaxErrors = 0
  MaxInvalidations = 0
  MaxRestarts = 0
  RpcRelease = TRUE
  RejectOnError = TRUE
  Need <- NeedFailover
  Limit <- LimitTwo
  OverloadAction <- Rejecting
SPECIFICATION Spec
INVARIANTS
  TypeOK
  ReleaseOnce
  UserDataAlive
PROPERTY
  ImplementsLedger
CHECK_DEADLOCK FALSE
