CONSTANTS
  max_seq_num_b10 = 2
  window_size = 2
  ChannelCapacity = 2
  Faults = {"loss"}
  ChunkCount = 2
  PacketsIn <- ThreePackets
  Handlers = {h1}
SPECIFICATION FairSpec
PROPERTIES
  OnlyKnownHangs
CHECK_DEADLOCK FALSE
