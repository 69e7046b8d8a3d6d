CONSTANTS
  max_seq_num_b10 = 3
  window_size = 2
  ChannelCapacity = 2
  Faults = {"duplication", "reordering"}
  ChunkCount = 2
  PacketsIn <- FourPackets
  Handlers = {h1}
SPECIFICATION Spec
INVARIANTS
  AckedWasDelivered
  WindowRespected
CHECK_DEADLOCK FALSE
