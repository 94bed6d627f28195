SPECIFICATION Spec
CONSTANTS
  Profiles <- MCProfiles
  Offers <- MCOffers
  MaxAttempts = 2
  MaxEarly = 1
  MaxRequests = 2
INVARIANTS AnswerFitsOffer AnswerStable
PROPERTY RequestAnswered
CHECK_DEADLOCK FALSE
