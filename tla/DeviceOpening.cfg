SPECIFICATION FairSpec
CONSTANTS
  MaxRequests = 2
  MaxReturns = 1
  MaxReplugs = 1
  MaxSessions = 2

INVARIANT EndsHaveCause
PROPERTY RequestsAreAnswered
CHECK_DEADLOCK FALSE
