SPECIFICATION FairSpec
CONSTANTS
  Sizes = {4, 5, 7}
  RxBuf = 8
  MaxPkt = 7
  MaxIn = 4
  MaxConnects = 2
INVARIANTS
  NoUseAfterFree
  NothingHeldBack
PROPERTIES
  EofIsReported
  DisconnectReturns
CHECK_DEADLOCK FALSE
