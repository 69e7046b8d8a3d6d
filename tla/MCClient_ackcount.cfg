CONSTANTS
  max_seq_num_b10 = 3
  window_size = 2
  ChannelCapacity = 2
  Faults = {"reordering"}
  ChunkCount = 2
  PacketsIn <- ThreePackets
  Handlers = {h1}
SPECIFICATION Spec
INVARIANTS
  AckedWithinChunk
CHECK_DEADLOCK FALSE
