CONSTANTS
  SHRT_MAX = 4
  Argvs <- MCArgvs
SPECIFICATION FairSpec
INVARIANTS TypeOK SeatAccounting LadderAccounting RemovedAfterAll
PROPERTIES CruiseSpec ShipFinishes LateArrivalsGoHome MainReports
CHECK_DEADLOCK FALSE
