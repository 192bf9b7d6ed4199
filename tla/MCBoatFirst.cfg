CONSTANTS
  SHRT_MAX = 7
  BIG = 4
  MaxPeople = 3
  Argvs <- Lines
SPECIFICATION FairSpec
INVARIANTS Accounting Orderly
PROPERTIES AllGoHome
CHECK_DEADLOCK FALSE
