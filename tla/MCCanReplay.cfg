SPECIFICATION FairSpec
CONSTANTS
  Files <- MCFiles
  Beg = 1
  End = 3
  Factor = 2
  QueueCap = 1
  MaxStarts = 2
  MaxLines = 6
  MaxCmds = 5
INVARIANTS
  FramesInOrder
  EachResumeOnce
  StopIsClean
PROPERTIES
  StopCompletes
CHECK_DEADLOCK FALSE
