SPECIFICATION Spec
CONSTANTS
  MaxFiles = 6
  MaxClock = 3
  MaxVersion = 2
  MaxSession = 2
  MaxKey = 2
  MaxEdition = 0
  MaxAge = 1
INVARIANTS CurrentKeyReported
