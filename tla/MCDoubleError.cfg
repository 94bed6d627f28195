SPECIFICATION Spec
CONSTANTS
  SkipCdrStored = TRUE
  MaxLegs = 2
  ProfileLists <- HuntLists
  AorReplies <- HuntReplies
  Outcomes <- AllOutcomes
  EarlySdp = TRUE
INVARIANT AttemptIntact
