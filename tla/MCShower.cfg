CONSTANTS
  MaxHumans = 4
  QBYTES = 3
  Argvs <- MCArgvs
SPECIFICATION FairSpec
INVARIANTS TypeOK TokensMatch RemovedAfterAll
PROPERTIES BathSpec EverybodyWashes
CHECK_DEADLOCK FALSE
