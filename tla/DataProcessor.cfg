CONSTANTS
  FileLengths = {0, 1, 2, 3, 4, 5, 6, 7, 8, 9, 10, 11, 12, 15, 16, 17, 20}
  ChunkSizes = {1, 2, 3, 4, 5}
  PacketSizes = {1, 2, 3, 4, 6}
  IntMax = 15
  MaxReads = 16
SPECIFICATION FairSpec
INVARIANTS
  PayloadsAreFilePrefix
  PayloadSizes
PROPERTIES
  ChunkYieldsPackets
  WholeFileIsRead
CHECK_DEADLOCK FALSE
