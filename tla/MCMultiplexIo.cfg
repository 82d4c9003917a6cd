CONSTANTS
  Handles = {L, a, b}
  Listener = L
  MaxFd = 2
  Cap = 1
  MaxEvents = 2
  MaxConns = 2
SPECIFICATION FairSpec
INVARIANTS NoDanglingHandle StaysRegistered QueuedIsArmed
PROPERTIES FullRingDrains InputIsServed
CHECK_DEADLOCK FALSE
