CONSTANTS
  Letters = {"a", "b"}
  MaxLine = 7
  ARGS_NUMBER = 2
  MAX_CMDS = 2
SPECIFICATION Spec
INVARIANTS Understood
CHECK_DEADLOCK FALSE
