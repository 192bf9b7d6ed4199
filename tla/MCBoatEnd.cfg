CONSTANTS
  SHRT_MAX = 4
  Argvs <- MCOneArgv
SPECIFICATION FairSpec
PROPERTY EndReachesAll
CHECK_DEADLOCK FALSE
