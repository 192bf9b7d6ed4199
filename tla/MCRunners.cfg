CONSTANTS
  NumRuns <- MCNumRuns
  MaxRun = 4
  QMSGS = 2
SPECIFICATION FairSpec
INVARIANTS TypeOK OneBaton EveryoneHeard RemovedAfterRace
PROPERTIES RaceSpec RaceEnds
CHECK_DEADLOCK FALSE
