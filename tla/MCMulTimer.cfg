SPECIFICATION FairSpec
CONSTANTS
  p = p
  q = q
  r = r
  None = None
  Cnt = 2
  MaxElapse = 3
  Procs <- MCProcs
  Interval <- MCInterval
  Arg <- MCArg
INVARIANTS
  EntriesAreWhole
  KilledOnlyInDestroy
PROPERTIES
  SetTimersAreCalled
CHECK_DEADLOCK FALSE
