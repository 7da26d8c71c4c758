SPECIFICATION MFairSpec
CONSTANTS
  MaxFiles = 4
  MaxClock = 2
  MaxVersion = 2
  MaxSession = 2
  MaxKey = 2
  MaxEdition = 0
  MaxAge = 1
INVARIANTS ServedFaithful
PROPERTIES FollowsUp
