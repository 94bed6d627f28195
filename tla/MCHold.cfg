SPECIFICATION Spec
CONSTANTS
  Profiles <- MCProfiles
  Offers <- MCOffers
  MaxAttempts = 1
  MaxEarly = 0
  MaxRequests = 2
INVARIANT OnHoldTrue
CHECK_DEADLOCK FALSE
