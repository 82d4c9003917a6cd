CONSTANTS
  Loyal = {a}
  Guests = {g}
  N = 3
  MemSize = 4
  Lengths = {2, 3}
SPECIFICATION Spec
INVARIANTS ClaimedIntact NothingMissed
CHECK_DEADLOCK FALSE
