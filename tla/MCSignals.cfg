CONSTANTS
  BITS = 2
  BUFFSIZE = 2
  MaxFile = 3
  Builds = {TRUE, FALSE}
SPECIFICATION FairSpec
INVARIANTS TypeOK InOrder WholeOrLastBit
PROPERTIES BothEnd
CHECK_DEADLOCK FALSE
