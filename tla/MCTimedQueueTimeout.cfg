CONSTANTS
  Threads = {t1}
  Capacity = 1
  Lengths = {3}
  Buffers = {3}
  Timeouts = {1}
  MaxTime = 2
SPECIFICATION FairSpec
PROPERTIES TimedCallReturns
CHECK_DEADLOCK FALSE
