CONSTANTS
  Names <- Called
  Systems <- Trees
  CommandLines <- Lines
  DIRBUF = 5
  Long <- TooLong
  MaxGone = 1
SPECIFICATION Spec
INVARIANTS Listed FailsOnly
CHECK_DEADLOCK FALSE
