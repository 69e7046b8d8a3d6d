CONSTANTS
  max_seq_num_b10 = 1
  window_size = 1
  ChannelCapacity = 1
  Faults = {}
  ChunkCount = 2
  PacketsIn <- ThreePackets
  Handlers = {h1}
SPECIFICATION FairSpec
PROPERTIES
  TransferEnds
CHECK_DEADLOCK FALSE
