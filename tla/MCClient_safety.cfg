CONSTANTS
  max_seq_num_b10 = 2
  window_size = 2
  ChannelCapacity = 2
  Faults = {"loss", "duplication"}
  ChunkCount = 2
  PacketsIn <- FivePackets
  Handlers = {h1, h2}
SPECIFICATION Spec
INVARIANTS
  TypeOK
  MutexExclusive
  InOrderDelivery
  ConfirmedWasDelivered
  AckedWasDelivered
  NoNullPacket
  NullTimerOnlyOnFirstAck
  ReceiverOutlivesTransfer
  WindowRespected
  NoSlotRace
  SlotNumbers
  ResendWithinWindow
PROPERTIES
  SlotReuse
  ResendReachesNext
  UsesTimeout
  ImplementsTransfer
CHECK_DEADLOCK FALSE
