SPECIFICATION FairSpec
CONSTANTS
  SkipCdrStored = TRUE
  MaxLegs = 2
  ProfileLists <- HuntLists
  AorReplies <- HuntReplies
  Outcomes <- WithUnready
  EarlySdp = FALSE
INVARIANTS
  CtxCounted
  ResourcesOfOneAttempt
  LastCdrOnce
  AttemptsNumbered
  AttemptIntact
  NoNullCdrRead
PROPERTY CallEnds
