CONSTANTS
  Consumers = {rtp}
  TotNum = 3
  MaxPuts = 7
  Mss = 24
  Window = 6
  FuHeader = 2
  NalHeader = 1
  Frames <- MCFrames
  Transports = {"TCP", "UDP"}
  None = None
SPECIFICATION SenderFairSpec
INVARIANTS
  TypeOK
  BacklogIsNewest
  PacketFits
PROPERTIES
  GetInOrder
  FrameMovesOn
  FifoSpec
  DeliverySpec
  FrameFinished
CHECK_DEADLOCK FALSE
