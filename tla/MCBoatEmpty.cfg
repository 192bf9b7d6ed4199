CONSTANTS
  SHRT_MAX = 4
  Argvs <- MCOneArgv
SPECIFICATION Spec
INVARIANT ShipLeavesEmpty
CHECK_DEADLOCK FALSE
