SPECIFICATION MSpec
CONSTANTS
  MaxFiles = 5
  MaxClock = 2
  MaxVersion = 3
  MaxSession = 2
  MaxKey = 2
  MaxEdition = 0
  MaxAge = 1
PROPERTIES RotationWhileDown
