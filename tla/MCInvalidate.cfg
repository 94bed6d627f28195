\* an RPC invalidation preempted between its two steps, threads preempted at
\* the busy flag, and a refused command
CONSTANTS
  s1 = s1
  s2 = s2
  k1 = k1
  k2 = k2
  NoKey = NoKey
  NoSession = NoSession
  Sessions = {s1, s2}
  Keys = {k1}
  MaxOps = 2
  Preemption = TRUE
  MaxDrops = 0
  MaxErrors = 1
  MaxInvalidations = 1
  MaxRestarts = 0
  RpcRelease = FALSE
  RejectOnError = TRUE
  Need <- NeedSame
  Limit <- LimitTwo
  OverloadAction <- Rejecting
SPECIFICATION Spec
INVARIANTS
  NoReleaseWhileInvalidating
  ShareBounded
  OneOperationAtATime
SYMMETRY Symmetry
CHECK_DEADLOCK FALSE
