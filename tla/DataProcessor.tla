---------------------------- MODULE DataProcessor ---------------------------
(***************************************************************************)
(* DataProcessor, which reads the file in chunks, and the splitting of a   *)
(* chunk into packets by ClientSender::generatePacketsData.                *)
(*                                                                         *)
(* Byte number b of the file is represented by b, counted from 1, so that  *)
(* a lost, repeated or misplaced byte shows.  0 is the filler clearChunk   *)
(* writes.  File sizes are C ints, of at most IntMax.                      *)
(***************************************************************************)
EXTENDS Integers, Sequences

CONSTANTS
  FileLengths,  \* lengths of the files the client is started with
  ChunkSizes,   \* values of chunk_size (CHUNK_SIZE in Client.cpp)
  PacketSizes,  \* values of --packet_size
  IntMax,       \* greatest int (2^31 - 1)
  MaxReads      \* bound: chunks read in a behaviour

ASSUME DataProcessorAssumption ==
  /\ FileLengths \subseteq Nat
  /\ ChunkSizes \subseteq Nat \ {0}
  /\ PacketSizes \subseteq Nat \ {0}
  /\ IntMax \in Nat
  /\ MaxReads \in Nat

VARIABLES
  file_length,         \* bytes in the file
  chunk_size,
  packet_size,
  file_size,           \* what getFileSize returned
  file_pos,            \* bytes the stream has delivered
  chunk_index,
  current_chunk,
  current_chunk_size,
  packets,             \* packet payloads generated so far
  finished             \* sendChunk has returned false

config == <<file_length, chunk_size, packet_size, file_size>>
vars == <<config, file_pos, chunk_index, current_chunk, current_chunk_size,
          packets, finished>>

\* The cast of tellg's 64-bit result to int.
ToInt(n) ==
  LET ints == 2 * (IntMax + 1)
      low == n % ints
  IN IF low > IntMax THEN low - ints ELSE low

\* C division and remainder, which round towards zero.
CDiv(a, b) == IF a >= 0 THEN a \div b ELSE -((-a) \div b)
CMod(a, b) == a - b * CDiv(a, b)

\* The constructor's fields.
full_chunks_qty == CDiv(file_size, chunk_size)
last_chunk_size == CMod(file_size, chunk_size)

\* Mutant: the last, shorter chunk is forgotten.
total_chunks_qtyFull == full_chunks_qty

total_chunks_qty == full_chunks_qty + (IF last_chunk_size > 0 THEN 1 ELSE 0)

remainingChunks == total_chunks_qty - chunk_index

Cleared == [b \in 1..(chunk_size + 1) |-> 0]

Init ==
  /\ file_length \in FileLengths
  /\ chunk_size \in ChunkSizes
  /\ packet_size \in PacketSizes
  /\ file_size = ToInt(file_length)
  /\ file_pos = 0
  /\ chunk_index = 0
  /\ current_chunk = Cleared
  /\ current_chunk_size = 0
  /\ packets = <<>>
  /\ finished = FALSE

\* Mutant: the last chunk is read as a full one.
SizeToReadFull == chunk_size

\* readChunk's size for the chunk it is about to read.
SizeToRead ==
  IF chunk_index = full_chunks_qty THEN last_chunk_size ELSE chunk_size

\* clearChunk followed by file.read of size bytes, of which the stream has only
\* what is left of the file.
ReadInto(size) ==
  [b \in 1..(chunk_size + 1) |->
     IF b <= size /\ file_pos + b <= file_length THEN file_pos + b ELSE 0]

\* Mutants: a last packet even if nothing is left for it; no last packet.
generatePacketsDataExtra(raw_data, data_size) ==
  LET full_packets_qty == data_size \div packet_size
  IN [q \in 1..(full_packets_qty + 1) |->
        SubSeq(raw_data, (q - 1) * packet_size + 1,
               IF q <= full_packets_qty THEN q * packet_size ELSE data_size)]
generatePacketsDataFull(raw_data, data_size) ==
  [q \in 1..(data_size \div packet_size) |->
     SubSeq(raw_data, (q - 1) * packet_size + 1, q * packet_size)]

\* Split the first data_size bytes of raw_data into payloads of packet_size.
generatePacketsData(raw_data, data_size) ==
  LET full_packets_qty == data_size \div packet_size
      last_packet_size == data_size % packet_size
      total_packets_qty ==
        full_packets_qty + (IF last_packet_size > 0 THEN 1 ELSE 0)
      current_packet_sz(p) ==
        IF p = full_packets_qty THEN last_packet_size ELSE packet_size
  IN [q \in 1..total_packets_qty |->
        SubSeq(raw_data, (q - 1) * packet_size + 1,
                         (q - 1) * packet_size + current_packet_sz(q - 1))]

\* sendChunk reads a chunk and hands its packets over.
SendChunk ==
  /\ ~finished
  /\ remainingChunks # 0
  /\ chunk_index < MaxReads
  /\ current_chunk_size' = SizeToRead
  /\ current_chunk' = ReadInto(SizeToRead)
  /\ file_pos' = IF file_pos + SizeToRead <= file_length
                 THEN file_pos + SizeToRead ELSE file_length
  /\ chunk_index' = chunk_index + 1
  /\ packets' = packets \o generatePacketsData(current_chunk', SizeToRead)
  /\ UNCHANGED <<config, finished>>

\* sendChunk returns false.
NoChunkLeft ==
  /\ ~finished
  /\ remainingChunks = 0
  /\ finished' = TRUE
  /\ UNCHANGED <<config, file_pos, chunk_index, current_chunk,
                 current_chunk_size, packets>>

Next == SendChunk \/ NoChunkLeft

Spec == Init /\ [][Next]_vars

\* The sender thread goes on sending chunks.
FairSpec == Spec /\ WF_vars(Next)

-----------------------------------------------------------------------------

\* The file's size is one an int can hold.
Fits == file_length <= IntMax

\* The last byte of the first p payloads.
LastByte(p) == IF p = 0 THEN 0 ELSE packets[p][Len(packets[p])]

\* One after the other, the payloads are the file from its first byte on, without
\* a gap, a repetition or a filler byte, up to the end of the last chunk read:
\* each goes on where the one before it ended.
PayloadsAreFilePrefix ==
  Fits =>
    /\ \A p \in 1..Len(packets) :
         /\ packets[p] # <<>>
         /\ \A i \in 1..Len(packets[p]) : packets[p][i] = LastByte(p - 1) + i
    /\ LastByte(Len(packets)) = file_pos

\* Every payload is between 1 and packet_size bytes long: an empty payload or
\* an empty packet is never produced by a boundary case of the two divisions.
PayloadSizes ==
  \A p \in 1..Len(packets) : Len(packets[p]) \in 1..packet_size

\* Every chunk that is read yields a packet, so that the sender never waits for
\* the ACKs of a chunk of no packets.
ChunkYieldsPackets ==
  [][chunk_index' # chunk_index => Len(packets') > Len(packets)]_vars

\* The loop ends, with the whole file read.
WholeFileIsRead == Fits => <>(finished /\ file_pos = file_length)
=============================================================================
