CONSTANTS
  max_seq_num_b10 = 3
  window_size = 2
  ChannelCapacity = 2
  Faults = {}
  ChunkCount = 2
  PacketsIn <- ThreePackets
  Handlers = {h1}
SPECIFICATION Spec
INVARIANTS
  FinishedMeansWholeFile
CHECK_DEADLOCK FALSE
