CONSTANTS
  MaxCmds = 3
  MaxLines = 2
  PIPE_SIZE = 1
SPECIFICATION FairSpec
INVARIANTS TypeOK NoStrayEnds
PROPERTIES PipelineSpec PromptReturns
CHECK_DEADLOCK FALSE
