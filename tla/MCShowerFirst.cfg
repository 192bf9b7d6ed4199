CONSTANTS
  MaxHumans = 2
  QBYTES = 3
  Argvs <- Lines
SPECIFICATION FairSpec
PROPERTIES FreePass
CHECK_DEADLOCK FALSE
