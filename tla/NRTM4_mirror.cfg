SPECIFICATION FairSpec
CONSTANTS
  MaxFiles = 5
  MaxClock = 1
  MaxVersion = 3
  MaxSession = 2
  MaxKey = 3
  MaxEdition = 1
  MaxAge = 0
INVARIANTS TypeOK Faithful
PROPERTIES NoSessionRollback RewriteRefused OldKeyNeverUsed CatchesUp
