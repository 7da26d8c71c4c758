SPECIFICATION Spec
CONSTANTS
  MaxFiles = 5
  MaxClock = 1
  MaxVersion = 3
  MaxSession = 1
  MaxKey = 1
  MaxEdition = 0
  MaxAge = 0
PROPERTIES OlderRefused
