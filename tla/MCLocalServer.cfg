CONSTANTS
  Clients = {c1, c2}
  Refs = {r1, r2}
  Ids = {1, 2}
  Packets <- BusPackets
  RxBuf = 13
  MaxPkt = 10
  TxCap = 8
  ReadSizes = {3}
  MaxSent = 3
SPECIFICATION FairSpec
INVARIANTS SubscriptionsConsistent
PROPERTIES RefinesPubSub OnlyClosedAreDropped EverythingIsParsed
CHECK_DEADLOCK FALSE
