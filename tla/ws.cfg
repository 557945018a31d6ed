CONSTANTS
  puback = puback
  publish = publish
  subscribe = subscribe
  Packets = {puback, publish, subscribe}
  Chunks <- MCChunks
  MaxFrames = 2
  MaxFrame = 2
  None = None
SPECIFICATION FairSpec
CHECK_DEADLOCK FALSE
INVARIANTS
  TypeOK
  StreamIntact
PROPERTIES
  ChannelSpec
  EveryWriteReturns
  LossReachesReader
