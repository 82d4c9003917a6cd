CONSTANTS
  Threads = {t1, t2}
  Capacity = 1
  Lengths = {3}
  Buffers = {2, 3}
  Timeouts = {1, 2}
  MaxTime = 2
SPECIFICATION FairSpec
INVARIANTS TimersAreOnStack SelectCoversTimers OnlyOwnTimeout
PROPERTIES ReturnsUnlessSignalEarly
CHECK_DEADLOCK FALSE
