--------------------------- MODULE GoBackNProofs ----------------------------
(***************************************************************************)
(* Go-Back-N, proved: theorems about Client for every window, ring, chunk  *)
(* layout and channel capacity, on paths that lose and repeat datagrams    *)
(* but keep their order (KeepsOrder).  With reordering the argument fails: *)
(* an old number can come back when the ring has gone round.  ClientProofs *)
(* has what holds on every network.                                        *)
(*                                                                         *)
(* The code keeps ring positions; the argument is about indices in the     *)
(* file.  The inductive invariant says which packet each position stands   *)
(* for: base_idx for packet Base(a), next_seq_num_idx for NextPacket, the  *)
(* number in a slot for the last packet that was put there.  Path says     *)
(* what can be in flight: data lies within a window of the packet the      *)
(* server expects, ACKs lie in order from the last one confirmed.  The     *)
(* ring has more numbers than the window has packets, so a number within   *)
(* that distance stands for one packet only.                               *)
(* The parameter a is the packet whose ACK ackedPacket is handling, which  *)
(* the code forgets: it only has the number aseq.                          *)
(*                                                                         *)
(* Each part of the invariant has a step lemma; the theorems are at the    *)
(* end.                                                                    *)
(***************************************************************************)
EXTENDS ClientProofs, SequenceTheorems

\* The shorthands the actions are written with are always expanded.
USE DEF SenderGoes, SenderJustGoes, MutexFree, ChunkAcked, resetChunkVars,
        setFinished, MayExpire, stopTimer, setAcked

\* The two UDP paths lose and repeat datagrams but keep their order.
KeepsOrder == "reordering" \notin Faults

-----------------------------------------------------------------------------
(* The inductive invariant.                                                *)

\* The loop of sendChunk and its counters.
ChunkInv ==
  /\ Sending => packet_idx < chunk_packets_qty
  /\ Waiting => packet_idx = chunk_packets_qty
  /\ BetweenChunks => /\ acked_count = 0
                      /\ chunk_index > 0 => packet_idx = chunk_packets_qty
  /\ spc = "reset" => acked_count = chunk_packets_qty
  /\ finished_sending_data => BetweenChunks /\ spc \notin {"readChunk", "finish"}
  /\ next_seq_num_idx = SeqNum(NextPacket)

\* ackedPacket has moved base_idx for its ACK and not counted it yet.
BaseMoved == apc \in {"compare", "stopTimer", "startTimer", "count"}

\* The packet base_idx stands for, when ackedPacket runs for the ACK of packet a.
Base(a) == IF BaseMoved THEN a + 1 ELSE ConfirmedCount

\* base_idx, what the server has and what has been sent are within a window.
WindowInv(a) ==
  /\ ConfirmedCount <= Base(a)
  /\ Base(a) <= Len(delivered)
  /\ Len(delivered) <= SentCount
  /\ SentCount <= Base(a) + window_size
  /\ spc = "send" => SentCount < Base(a) + window_size
  /\ base_idx = SeqNum(Base(a))
  /\ last_acked_packet = IF ConfirmedCount = 0 THEN -1 ELSE SeqNum(ConfirmedCount - 1)

\* ackedPacket has not counted its ACK yet.
Acking == apc \in {"check", "setBase"} \/ BaseMoved

\* ackedPacket runs for the ACK of packet a, which is new from setBaseIdx on.
AckedInv(a) ==
  /\ Acking => aseq = SeqNum(a) /\ a < Len(delivered)
  /\ apc = "check" => a >= ConfirmedCount - 1
  /\ apc = "setBase" \/ BaseMoved => a >= ConfirmedCount
  /\ BaseMoved => a < ConfirmedCount + window_size

\* A path: what is on it lies in low..(high - 1), and nothing is more than slack
\* ahead of what was sent after it.
Path(channel, low, high, slack) ==
  \A j \in 1..Len(channel) : channel[j] # Empty =>
    /\ channel[j] >= low
    /\ channel[j] < high
    /\ \A i \in 1..(j - 1) : channel[i] <= channel[j] + slack

\* Data on its way is at most a window behind the server, and resent packets are
\* less than a window behind those sent before.
DataInv == Path(data, Len(delivered) - window_size, SentCount, window_size - 1)

\* The oldest ACK that can still be on its way.
OldestAck(a) == IF Acking THEN a ELSE ConfirmedCount - 1

\* The ACKs on their way are in order and of accepted packets.
AcksInv(a) == Path(acks, OldestAck(a), Len(delivered), 0)

\* The last packets sent, as many as the ring has numbers, are in their slots,
\* and the last packet confirmed is marked.
SlotInv ==
  /\ \A k \in 0..(SentCount - 1) :
       SentCount <= k + BufferSize => window_map[SeqNum(k)].pkt = k
  /\ \A s \in SeqNums : window_map[s].pkt # -1 =>
       window_map[s].pkt < SentCount /\ SeqNum(window_map[s].pkt) = s
  /\ \A s \in SeqNums : window_map[s].acked => window_map[s].pkt < ConfirmedCount
  /\ ~BaseMoved /\ ConfirmedCount > 0 => window_map[SeqNum(ConfirmedCount - 1)].acked

\* timeoutHandler's loop is at packet r of those from first to NextPacket.
ResendAt(first, r) ==
  /\ first \in 0..NextPacket
  /\ r \in first..NextPacket
  /\ NextPacket <= first + window_size
  /\ resend = [i |-> SeqNum(r), bidx |-> SeqNum(first), nseqnum |-> SeqNum(NextPacket)]

ResendInv ==
  \A h \in Handlers : hpc[h] = "resend" =>
    \E first \in 0..NextPacket : \E r \in first..NextPacket : ResendAt(first, r)

TransferInv(a) ==
  /\ ChunkInv /\ WindowInv(a) /\ AckedInv(a) /\ DataInv /\ AcksInv(a)
  /\ SlotInv /\ ResendInv /\ InOrderDelivery

GoBackNInv == \E a \in 0..Len(delivered) : TransferInv(a)
-----------------------------------------------------------------------------
(* What the steps do to the counters.                                      *)

\* What the counters are, and how they lie together.
LEMMA CounterValues ==
  ASSUME TypeInv, ChunkInv
  PROVE  /\ NextPacket \in Nat /\ SentCount \in Nat /\ ConfirmedCount \in Nat
         /\ SentCount = NextPacket + (IF spc \in {"compare", "startTimer", "inc"}
                                      THEN 1 ELSE 0)
         /\ SentCount <= PacketsIn[chunk_index]
         /\ Waiting => SentCount = PacketsIn[chunk_index]
         /\ BetweenChunks => /\ ConfirmedCount = SentCount
                             /\ ConfirmedCount = PacketsIn[chunk_index]
         /\ ~BetweenChunks =>
              /\ chunk_index # 0
              /\ ConfirmedCount = PacketsIn[chunk_index - 1] + acked_count
  <1>0. /\ packet_idx \in Nat /\ acked_count \in Nat /\ chunk_index \in Nat
        /\ spc \in SenderPCs /\ PacketsIn[0] = 0
        /\ ~BetweenChunks => chunk_index # 0
    BY ClientSenderAssumption DEF TypeInv, TypeOK, ThreadTypeOK, CountTypeOK, InChunk,
       BetweenChunks
  <1>1. ConfirmedCount = IF BetweenChunks THEN PacketsIn[chunk_index]
                         ELSE PacketsIn[chunk_index - 1] + acked_count
    BY DEF ConfirmedCount, BetweenChunks
  <1>2. CASE chunk_index = 0
    BY <1>0, <1>1, <1>2 DEF NextPacket, SentCount, BetweenChunks, Waiting
  <1>3. CASE chunk_index # 0
    <2>1. NextPacket = PacketsIn[chunk_index - 1] + packet_idx
      BY <1>3 DEF NextPacket, CurrentPacket
    <2>2. SentCount = NextPacket + (IF spc \in {"compare", "startTimer", "inc"}
                                    THEN 1 ELSE 0)
      BY <1>3 DEF NextPacket, SentCount
    <2>3. /\ Sending => packet_idx < chunk_packets_qty
          /\ Waiting => packet_idx = chunk_packets_qty
          /\ BetweenChunks => packet_idx = chunk_packets_qty
      BY <1>0, <1>3 DEF ChunkInv
    <2>4. SentCount \in Nat /\ SentCount <= PacketsIn[chunk_index]
      BY <1>0, <1>3, <2>1, <2>2, <2>3, ChunkBounds DEF SenderPCs, Sending, Waiting,
         BetweenChunks
    <2>5. Waiting \/ BetweenChunks => SentCount = PacketsIn[chunk_index]
      BY <1>0, <1>3, <2>1, <2>2, <2>3, ChunkBounds DEF Waiting, BetweenChunks
    <2> QED BY <1>0, <1>1, <1>3, <2>1, <2>2, <2>4, <2>5, ChunkBounds
  <1> QED BY <1>2, <1>3

\* A step that moves the sender thread within one part of sendChunk, and leaves
\* its loop variable and acked_count alone, leaves the counters alone.
LEMMA CountersFrame ==
  ASSUME UNCHANGED <<chunk_index, packet_idx, acked_count>>,
         (spc \in {"compare", "startTimer", "inc"})'
           <=> spc \in {"compare", "startTimer", "inc"},
         BetweenChunks' <=> BetweenChunks
  PROVE  UNCHANGED <<NextPacket, SentCount, ConfirmedCount>>
  BY DEF NextPacket, SentCount, ConfirmedCount, CurrentPacket, BetweenChunks

\* Only SendPacket, IncNextSeqNum and AckedCount change a counter: starting and
\* ending a chunk change what the counters are computed from and not the counters.
LEMMA CountersQuiet ==
  ASSUME TypeInv, ChunkInv, [Next]_vars, ~(Sender /\ SendPacket),
         ~(Sender /\ IncNextSeqNum), ~(AckCallback /\ AckedCount)
  PROVE  UNCHANGED <<NextPacket, SentCount, ConfirmedCount>>
  <1> USE DEF BetweenChunks, countVars, threadVars
  <1>1. CASE Sender
    <2>1. CASE ReadChunk /\ chunk_index = ChunkCount
      BY <2>1, CountersFrame DEF ReadChunk
    <2>2. CASE ReadChunk /\ chunk_index # ChunkCount
      <3>1. /\ spc = "readChunk" /\ spc' = "lock" /\ chunk_index' = chunk_index + 1
            /\ packet_idx' = 0 /\ acked_count' = 0
        BY <2>2 DEF ReadChunk, ChunkInv
      <3>2. /\ chunk_index \in 0..ChunkCount /\ chunk_index + 1 # 0
            /\ chunk_index + 1 - 1 = chunk_index /\ PacketsIn[chunk_index] \in Nat
        BY ClientSenderAssumption DEF TypeInv, TypeOK, ThreadTypeOK
      <3>3. /\ NextPacket' = PacketsIn[chunk_index]
            /\ SentCount' = PacketsIn[chunk_index]
            /\ ConfirmedCount' = PacketsIn[chunk_index]
        BY <3>1, <3>2 DEF NextPacket, SentCount, ConfirmedCount, CurrentPacket
      <3> QED BY <3>1, <3>3, CounterValues
    <2>3. CASE ResetChunkVars
      <3>1. /\ spc = "reset" /\ spc' \in {"readChunk", "finish"}
            /\ UNCHANGED <<chunk_index, packet_idx>>
        BY <2>3 DEF ResetChunkVars
      <3>2. chunk_index # 0 /\ acked_count = chunk_packets_qty
        BY <3>1 DEF ChunkInv, TypeInv, InChunk
      <3>3. /\ ConfirmedCount = PacketsIn[chunk_index - 1] + acked_count
            /\ ConfirmedCount' = PacketsIn[chunk_index]
        BY <3>1 DEF ConfirmedCount
      <3>4. UNCHANGED ConfirmedCount
        BY <3>2, <3>3, ChunkBounds
      <3>5. UNCHANGED <<NextPacket, SentCount>>
        BY <3>1 DEF NextPacket, SentCount, CurrentPacket
      <3> QED BY <3>4, <3>5
    <2>4. CASE \/ LockForSend \/ CheckAdvance \/ BlockOnPacket
               \/ CompareForTimer \/ StartTimerOnSend \/ CheckChunk \/ BlockOnChunk
               \/ FinishSending \/ EndConnection \/ StopTimerAtEnd \/ StopReceiver
      <3>1. UNCHANGED <<chunk_index, packet_idx, acked_count>>
        BY <2>4 DEF LockForSend, CheckAdvance, BlockOnPacket, CompareForTimer,
           StartTimerOnSend, CheckChunk, BlockOnChunk, FinishSending, EndConnection,
           StopTimerAtEnd, StopReceiver
      <3>2. /\ (spc \in {"compare", "startTimer", "inc"})'
                 <=> spc \in {"compare", "startTimer", "inc"}
            /\ BetweenChunks' <=> BetweenChunks
        BY <2>4 DEF LockForSend, CheckAdvance, BlockOnPacket, CompareForTimer,
           StartTimerOnSend, CheckChunk, BlockOnChunk, FinishSending, EndConnection,
           StopTimerAtEnd, StopReceiver
      <3> QED BY <3>1, <3>2, CountersFrame
    <2> QED BY <1>1, <2>1, <2>2, <2>3, <2>4 DEF Sender, SenderThread
  <1>2. CASE Wakeup
    BY <1>2, CountersFrame DEF Wakeup, SpuriousWakeup
  <1>3. CASE Timers
    <2>1. UNCHANGED <<spc, chunk_index, packet_idx, acked_count>>
      BY <1>3 DEF Timers, TimerThread, TimerExpires, HandlerEntry, HandlerLock,
         HandlerResend, HandlerRestart
    <2> QED BY <2>1, CountersFrame
  <1>4. CASE AckCallback
    <2>1. UNCHANGED <<chunk_index, packet_idx, acked_count>>
      BY <1>4 DEF AckCallback, AckedPacketCall, AckedCheck, AckedSetBase, AckedCompare,
         AckedStopTimer, AckedStartTimer, AckedNotifyPacket, AckedNotifyChunk
    <2>2. \/ UNCHANGED spc
          \/ spc = "packetWait" /\ spc' = "lock"
          \/ spc = "chunkWait" /\ spc' = "chunkCheck"
      BY <1>4 DEF AckCallback, AckedPacketCall, AckedCheck, AckedSetBase, AckedCompare,
         AckedStopTimer, AckedStartTimer, AckedNotifyPacket, AckedNotifyChunk
    <2> QED BY <2>1, <2>2, CountersFrame
  <1>5. CASE Receiver
    <2>1. UNCHANGED <<spc, chunk_index, packet_idx, acked_count>>
      BY <1>5 DEF Receiver, ReceiverThread, ReceiveAck, ReceiveCorrupt, ReceiveEmpty,
         senderVars
    <2> QED BY <2>1, CountersFrame
  <1>6. CASE Environment
    BY <1>6, CountersFrame DEF Environment, senderVars
  <1>7. CASE UNCHANGED vars
    BY <1>7, CountersFrame DEF vars, senderVars
  <1> QED BY <1>1, <1>2, <1>3, <1>4, <1>5, <1>6, <1>7 DEF Next

\* SendPacket sends the packet next_seq_num_idx stands for.
LEMMA CountersSend ==
  ASSUME TypeInv, ChunkInv, SendPacket
  PROVE  /\ UNCHANGED <<NextPacket, ConfirmedCount>>
         /\ SentCount' = SentCount + 1
         /\ SentCount = NextPacket
         /\ CurrentPacket = NextPacket
  <1>1. /\ spc = "send" /\ spc' = "compare" /\ chunk_index # 0
        /\ UNCHANGED <<chunk_index, packet_idx, acked_count>>
    BY DEF SendPacket, countVars, TypeInv, InChunk
  <1>2. CurrentPacket \in Nat
    BY <1>1, CurrentPacketType
  <1> QED BY <1>1, <1>2 DEF NextPacket, SentCount, ConfirmedCount, CurrentPacket

\* IncNextSeqNum moves on to the next packet, which has not been sent.
LEMMA CountersInc ==
  ASSUME TypeInv, ChunkInv, IncNextSeqNum
  PROVE  /\ NextPacket' = NextPacket + 1
         /\ UNCHANGED <<SentCount, ConfirmedCount>>
  <1>1. /\ spc = "inc" /\ spc' \in {"lock", "chunkCheck"} /\ chunk_index # 0
        /\ packet_idx' = packet_idx + 1
        /\ UNCHANGED <<chunk_index, acked_count>>
    BY DEF IncNextSeqNum, countVars, TypeInv, InChunk
  <1>2. PacketsIn[chunk_index - 1] \in Nat /\ packet_idx \in Nat
    BY <1>1, ChunkBounds DEF TypeInv, TypeOK, ThreadTypeOK
  <1> QED BY <1>1, <1>2 DEF NextPacket, SentCount, ConfirmedCount, CurrentPacket

\* AckedCount confirms the packets up to the one that is acknowledged.
LEMMA CountersAcked ==
  ASSUME TypeInv, ChunkInv, AckedCount, ~BetweenChunks
  PROVE  /\ ConfirmedCount' = ConfirmedCount + AckedIncrement(last_acked_packet, aseq)
         /\ UNCHANGED <<NextPacket, SentCount>>
  <1>1. /\ acked_count' = acked_count + AckedIncrement(last_acked_packet, aseq)
        /\ UNCHANGED <<spc, chunk_index, packet_idx>>
    BY DEF AckedCount, threadVars
  <1>2. AckedIncrement(last_acked_packet, aseq) \in Int /\ acked_count \in Nat
    BY SeqNumbersAssumption DEF AckedIncrement, TypeInv, TypeOK, CountTypeOK, SeqNums
  <1>3. PacketsIn[chunk_index - 1] \in Nat
    BY CounterValues, ChunkBounds
  <1> QED
    BY <1>1, <1>2, <1>3 DEF NextPacket, SentCount, ConfirmedCount, CurrentPacket,
       BetweenChunks

-----------------------------------------------------------------------------
(* One lemma for each part of the invariant.                               *)

\* An ACK that ackedPacket is about to count is of a packet of the chunk that
\* is being sent, and the chunk is not complete yet.
LEMMA CountsInChunk ==
  ASSUME TypeInv, NEW a \in Nat, ChunkInv, WindowInv(a), AckedInv(a), BaseMoved
  PROVE  ~BetweenChunks /\ spc # "reset"
  <1>1. ConfirmedCount <= a /\ a < Len(delivered)
    BY DEF AckedInv, Acking
  <1>2. Len(delivered) <= SentCount /\ Len(delivered) \in Nat
    BY DEF WindowInv, TypeInv, TypeOK, NetworkTypeOK
  <1>3. ~BetweenChunks
    BY <1>1, <1>2, CounterValues
  <1>4. spc # "reset"
    <2> SUFFICES ASSUME spc = "reset" PROVE FALSE
      OBVIOUS
    <2>1. acked_count = chunk_packets_qty /\ Waiting
      BY DEF ChunkInv, Waiting
    <2>2. ConfirmedCount = PacketsIn[chunk_index]
      BY <1>3, <2>1, CounterValues, ChunkBounds
    <2> QED BY <1>1, <1>2, <2>1, <2>2, CounterValues
  <1> QED BY <1>3, <1>4

\* The loop of sendChunk hands every packet of the chunk over once, and ends when
\* as many have been acknowledged.
LEMMA ChunkStep ==
  ASSUME TypeInv, NEW a \in Nat, ChunkInv, WindowInv(a), AckedInv(a), [Next]_vars
  PROVE  ChunkInv'
  <1> USE DEF Sending, Waiting, BetweenChunks, countVars, threadVars
  <1>1. CASE Sender /\ IncNextSeqNum
    <2>1. next_seq_num_idx' = SeqNum(NextPacket)'
      BY <1>1, CounterValues, CountersInc, SeqNumSucc DEF IncNextSeqNum, ChunkInv
    <2>2. /\ spc = "inc" /\ UNCHANGED <<chunk_index, acked_count, finished_sending_data>>
          /\ packet_idx' = packet_idx + 1
          /\ spc' = IF packet_idx + 1 < chunk_packets_qty THEN "lock" ELSE "chunkCheck"
      BY <1>1 DEF IncNextSeqNum
    <2>3. /\ packet_idx < chunk_packets_qty /\ ~finished_sending_data
          /\ packet_idx \in Nat /\ chunk_packets_qty \in Nat
      BY <2>2, ChunkBounds DEF ChunkInv, TypeInv, TypeOK, ThreadTypeOK, InChunk
    <2>4. UNCHANGED chunk_packets_qty
      BY <2>2 DEF chunk_packets_qty
    <2> QED BY <2>1, <2>2, <2>3, <2>4 DEF ChunkInv
  <1>2. CASE ~(Sender /\ IncNextSeqNum)
    <2>1. next_seq_num_idx' = SeqNum(NextPacket)'
      <3>1. UNCHANGED next_seq_num_idx
        BY <1>2, Writers
      <3>2. UNCHANGED NextPacket
        BY <1>2, CountersQuiet, CountersSend, CountersAcked, CountsInChunk
        DEF AckedCount, BaseMoved
      <3> QED BY <3>1, <3>2 DEF ChunkInv
    <2> DEFINE quiet == /\ UNCHANGED <<chunk_index, packet_idx, acked_count>>
                        /\ UNCHANGED finished_sending_data
                        /\ Sending' => Sending
                        /\ Waiting' => Waiting
                        /\ BetweenChunks' <=> BetweenChunks
                        /\ (spc = "reset")' => spc = "reset"
                        /\ (spc \in {"readChunk", "finish"})'
                             => spc \in {"readChunk", "finish"}
    <2>2. ASSUME quiet PROVE ChunkInv'
      <3>1. UNCHANGED chunk_packets_qty
        BY <2>2 DEF chunk_packets_qty
      <3> QED BY <2>1, <2>2, <3>1 DEF ChunkInv
    <2>3. CASE Sender
      <3>1. CASE ReadChunk /\ chunk_index = ChunkCount
        <4>1. quiet
          BY <3>1 DEF ReadChunk
        <4> QED BY <2>2, <4>1
      <3>2. CASE ReadChunk /\ chunk_index # ChunkCount
        <4>1. /\ spc = "readChunk" /\ spc' = "lock" /\ packet_idx' = 0
              /\ chunk_index' = chunk_index + 1
              /\ UNCHANGED <<acked_count, finished_sending_data>>
          BY <3>2 DEF ReadChunk
        <4>2. /\ chunk_index \in 0..ChunkCount /\ chunk_index + 1 \in 0..ChunkCount
              /\ chunk_index + 1 - 1 = chunk_index
          BY <3>2, ClientSenderAssumption DEF TypeInv, TypeOK, ThreadTypeOK
        <4>3. PacketsIn[chunk_index] < PacketsIn[chunk_index + 1]
          BY <4>2, ClientSenderAssumption
        <4>4. chunk_packets_qty' > 0
          BY <4>1, <4>2, <4>3, ClientSenderAssumption DEF chunk_packets_qty
        <4>5. ~finished_sending_data
          BY <4>1 DEF ChunkInv
        <4> QED BY <2>1, <4>1, <4>4, <4>5 DEF ChunkInv
      <3>3. CASE CheckChunk
        <4>1. /\ spc = "chunkCheck" /\ spc' \in {"reset", "chunkBlock"}
              /\ spc' = "reset" => acked_count = chunk_packets_qty
              /\ UNCHANGED <<chunk_index, packet_idx, acked_count>>
              /\ UNCHANGED finished_sending_data
          BY <3>3 DEF CheckChunk
        <4>2. UNCHANGED chunk_packets_qty
          BY <4>1 DEF chunk_packets_qty
        <4> QED BY <2>1, <4>1, <4>2 DEF ChunkInv
      <3>4. CASE ResetChunkVars
        <4>1. /\ spc = "reset" /\ spc' \in {"readChunk", "finish"} /\ acked_count' = 0
              /\ UNCHANGED <<chunk_index, packet_idx, finished_sending_data>>
          BY <3>4 DEF ResetChunkVars
        <4>2. UNCHANGED chunk_packets_qty
          BY <4>1 DEF chunk_packets_qty
        <4> QED BY <2>1, <4>1, <4>2 DEF ChunkInv
      <3>5. CASE FinishSending
        <4>1. /\ spc = "finish" /\ spc' = "endConnection"
              /\ UNCHANGED <<chunk_index, packet_idx, acked_count>>
          BY <3>5 DEF FinishSending
        <4>2. UNCHANGED chunk_packets_qty
          BY <4>1 DEF chunk_packets_qty
        <4> QED BY <2>1, <4>1, <4>2 DEF ChunkInv
      <3>6. CASE \/ LockForSend \/ CheckAdvance \/ BlockOnPacket \/ SendPacket
                 \/ CompareForTimer \/ StartTimerOnSend \/ BlockOnChunk
                 \/ EndConnection \/ StopTimerAtEnd \/ StopReceiver
        <4>1. quiet
          BY <3>6 DEF LockForSend, CheckAdvance, BlockOnPacket, SendPacket,
             CompareForTimer, StartTimerOnSend, BlockOnChunk, EndConnection,
             StopTimerAtEnd, StopReceiver
        <4> QED BY <2>2, <4>1
      <3> QED
        BY <1>2, <2>3, <3>1, <3>2, <3>3, <3>4, <3>5, <3>6 DEF Sender, SenderThread
    <2>4. CASE Wakeup
      <3>1. quiet
        BY <2>4 DEF Wakeup, SpuriousWakeup
      <3> QED BY <2>2, <3>1
    <2>5. CASE Timers
      <3>1. quiet
        BY <2>5 DEF Timers, TimerThread, TimerExpires, HandlerEntry, HandlerLock,
           HandlerResend, HandlerRestart
      <3> QED BY <2>2, <3>1
    <2>6. CASE AckCallback
      <3>1. CASE AckedCount
        <4>1. UNCHANGED <<spc, chunk_index, packet_idx, finished_sending_data>>
          BY <3>1 DEF AckedCount
        <4>2. ~BetweenChunks /\ spc # "reset"
          BY <3>1, CountsInChunk DEF AckedCount, BaseMoved
        <4>3. UNCHANGED chunk_packets_qty
          BY <4>1 DEF chunk_packets_qty
        <4> QED BY <2>1, <4>1, <4>2, <4>3 DEF ChunkInv
      <3>2. CASE ~AckedCount
        <4>1. UNCHANGED <<chunk_index, packet_idx, acked_count, finished_sending_data>>
          BY <2>6, <3>2 DEF AckCallback, AckedPacketCall, AckedCheck, AckedSetBase,
             AckedCompare, AckedStopTimer, AckedStartTimer, AckedNotifyPacket,
             AckedNotifyChunk
        <4>2. \/ UNCHANGED spc
              \/ spc = "packetWait" /\ spc' = "lock"
              \/ spc = "chunkWait" /\ spc' = "chunkCheck"
          BY <2>6, <3>2 DEF AckCallback, AckedPacketCall, AckedCheck, AckedSetBase,
             AckedCompare, AckedStopTimer, AckedStartTimer, AckedNotifyPacket,
             AckedNotifyChunk
        <4> QED BY <2>2, <4>1, <4>2
      <3> QED BY <3>1, <3>2
    <2>7. CASE Receiver
      <3>1. quiet
        BY <2>7 DEF Receiver, ReceiverThread, ReceiveAck, ReceiveCorrupt, ReceiveEmpty,
           senderVars
      <3> QED BY <2>2, <3>1
    <2>8. CASE Environment
      <3>1. quiet
        BY <2>8 DEF Environment, senderVars
      <3> QED BY <2>2, <3>1
    <2>9. CASE UNCHANGED vars
      <3>1. quiet
        BY <2>9 DEF vars, senderVars
      <3> QED BY <2>2, <3>1
    <2> QED BY <2>3, <2>4, <2>5, <2>6, <2>7, <2>8, <2>9 DEF Next
  <1> QED BY <1>1, <1>2

\* How ackedPacket goes through its phases.
LEMMA Phases ==
  ASSUME [Next]_vars
  PROVE  /\ apc' = "check" => UNCHANGED <<apc, aseq>> \/ (Receiver /\ ReceiveAck)
         /\ apc' = "setBase" => UNCHANGED <<apc, aseq>> \/ (AckCallback /\ AckedCheck)
         /\ BaseMoved' => \/ BaseMoved /\ UNCHANGED aseq
                          \/ AckCallback /\ AckedSetBase
         /\ BaseMoved => BaseMoved' \/ (AckCallback /\ AckedCount)
  <1> USE DEF BaseMoved, ackedVars, threadVars
  <1>1. CASE Sender
    <2>1. UNCHANGED <<apc, aseq>>
      BY <1>1 DEF Sender, SenderThread, ReadChunk, LockForSend, CheckAdvance,
         BlockOnPacket, SendPacket, CompareForTimer, StartTimerOnSend, IncNextSeqNum,
         CheckChunk, BlockOnChunk, ResetChunkVars, FinishSending, EndConnection,
         StopTimerAtEnd, StopReceiver
    <2> QED BY <1>1, <2>1
  <1>2. CASE Wakeup
    BY <1>2 DEF Wakeup, SpuriousWakeup
  <1>3. CASE Timers
    <2>1. UNCHANGED <<spc, apc, aseq>>
      BY <1>3 DEF Timers, TimerThread, TimerExpires, HandlerEntry, HandlerLock,
         HandlerResend, HandlerRestart
    <2> QED BY <2>1
  <1>4. CASE AckCallback
    <2>1. CASE AckedCheck
      BY <1>4, <2>1 DEF AckedCheck, ackedPacketReturns
    <2>2. CASE AckedSetBase
      BY <1>4, <2>2 DEF AckedSetBase
    <2>3. CASE AckedCompare \/ AckedStopTimer \/ AckedStartTimer
      <3>1. /\ UNCHANGED <<spc, aseq>> /\ BaseMoved /\ BaseMoved'
            /\ apc' \notin {"check", "setBase"}
        BY <2>3 DEF AckedCompare, AckedStopTimer, AckedStartTimer
      <3> QED BY <3>1
    <2>4. CASE AckedCount
      BY <1>4, <2>4 DEF AckedCount
    <2>5. CASE AckedNotifyPacket \/ AckedNotifyChunk
      BY <2>5 DEF AckedNotifyPacket, AckedNotifyChunk, ackedPacketReturns
    <2> QED
      BY <1>4, <2>1, <2>2, <2>3, <2>4, <2>5 DEF AckCallback, AckedPacketCall
  <1>5. CASE Receiver
    BY <1>5 DEF Receiver, ReceiverThread, ReceiveAck, ReceiveCorrupt, ReceiveEmpty,
       ackedPacket, senderVars
  <1>6. CASE Environment
    BY <1>6 DEF Environment, senderVars
  <1>7. CASE UNCHANGED vars
    BY <1>7 DEF vars, senderVars
  <1> QED BY <1>1, <1>2, <1>3, <1>4, <1>5, <1>6, <1>7 DEF Next

\* The counters are numbers in the order of the window.
LEMMA WindowBounds ==
  ASSUME TypeInv, NEW a \in Nat, ChunkInv, WindowInv(a)
  PROVE  /\ NextPacket \in Nat /\ SentCount \in Nat /\ ConfirmedCount \in Nat
         /\ Base(a) \in Nat /\ Len(delivered) \in Nat
         /\ window_size \in Nat /\ window_size >= 1 /\ window_size <= max_seq_num_b10
         /\ max_seq_num_b10 \in Nat /\ BufferSize = max_seq_num_b10 + 1
         /\ ConfirmedCount <= Base(a) /\ Base(a) <= Len(delivered)
         /\ Len(delivered) <= SentCount /\ SentCount <= Base(a) + window_size
  BY CounterValues, SeqNumbersAssumption
  DEF Base, WindowInv, BufferSize, TypeInv, TypeOK, NetworkTypeOK

\* A datagram with the number the server expects is the packet it expects,
\* which is one that has been sent.
LEMMA AcceptedIsNext ==
  ASSUME TypeInv, NEW a \in Nat, ChunkInv, WindowInv(a), DataInv,
         NEW i \in 1..Len(data), data[i] # Empty,
         SeqNum(data[i]) = SeqNum(Len(delivered))
  PROVE  data[i] = Len(delivered) /\ data[i] < SentCount
  <1>1. data[i] \in Nat
    BY DEF TypeInv, TypeOK, NetworkTypeOK
  <1>2. data[i] < SentCount /\ Len(delivered) <= data[i] + window_size
    <2>1. data[i] >= Len(delivered) - window_size /\ data[i] < SentCount
      BY DEF DataInv, Path
    <2> QED BY <1>1, <2>1, WindowBounds
  <1>3. CASE data[i] <= Len(delivered)
    BY <1>1, <1>2, <1>3, WindowBounds, SeqNumDistinct
  <1>4. CASE Len(delivered) <= data[i]
    BY <1>1, <1>2, <1>4, WindowBounds, SeqNumDistinct
  <1> QED BY <1>1, <1>2, <1>3, <1>4, WindowBounds

\* What the server does with a datagram: it accepts the next packet of the file,
\* or nothing.
LEMMA ServerStep ==
  ASSUME TypeInv, NEW a \in Nat, ChunkInv, WindowInv(a), DataInv, ServerReceive
  PROVE  \E i \in Deliverable(data) :
           /\ data[i] # Empty
           /\ i \in 1..Len(data)
           /\ data' = RemoveAt(data, i)
           /\ \/ UNCHANGED delivered
              \/ /\ data[i] = Len(delivered)
                 /\ Len(delivered) < SentCount
                 /\ delivered' = Append(delivered, Len(delivered))
           /\ Len(delivered') \in {Len(delivered), Len(delivered) + 1}
           /\ Len(delivered') <= SentCount
           /\ acks' \in {acks, Transmit(acks, Len(delivered') - 1)}
           /\ Len(delivered') = 0 => acks' = acks
  <1>1. PICK i \in Deliverable(data) :
          /\ data[i] # Empty
          /\ data' = RemoveAt(data, i)
          /\ delivered' = IF SeqNum(data[i]) = SeqNum(Len(delivered))
                          THEN Append(delivered, data[i])
                          ELSE delivered
          /\ acks' = IF delivered' = <<>> THEN acks
                     ELSE Transmit(acks, Len(delivered') - 1)
    BY DEF ServerReceive
  <1>2. i \in 1..Len(data)
    BY DeliverableType
  <1>3. \/ UNCHANGED delivered
        \/ /\ data[i] = Len(delivered)
           /\ Len(delivered) < SentCount
           /\ delivered' = Append(delivered, Len(delivered))
    BY <1>1, <1>2, AcceptedIsNext
  <1>4. delivered \in Seq(Nat)
    BY DEF TypeInv, TypeOK, NetworkTypeOK
  <1>5. /\ Len(delivered') \in {Len(delivered), Len(delivered) + 1}
        /\ Len(delivered') <= SentCount
        /\ Len(delivered') = 0 => delivered' = <<>>
    BY <1>3, <1>4, WindowBounds
  <1> QED BY <1>1, <1>2, <1>3, <1>5

\* Base(a) changes only when ackedPacket sets base_idx.
LEMMA BaseFrame ==
  ASSUME NEW a \in Nat, UNCHANGED ConfirmedCount, BaseMoved' <=> BaseMoved
  PROVE  UNCHANGED Base(a)
  BY DEF Base

\* ackedPacket counts exactly the packets between the last ACK and this one.
LEMMA AckedCountExact ==
  ASSUME TypeInv, NEW a \in Nat, ChunkInv, WindowInv(a), AckedInv(a), AckedCount
  PROVE  /\ ConfirmedCount' = a + 1
         /\ UNCHANGED <<NextPacket, SentCount>>
         /\ Base(a) = a + 1 /\ Base(a)' = a + 1
         /\ ConfirmedCount <= a /\ aseq = SeqNum(a)
  <1>1. apc = "count" /\ BaseMoved /\ ~BaseMoved'
    BY DEF AckedCount, BaseMoved
  <1>2. /\ aseq = SeqNum(a) /\ a >= ConfirmedCount
        /\ a < ConfirmedCount + window_size
    BY <1>1 DEF AckedInv, Acking
  <1>3. /\ ConfirmedCount' = ConfirmedCount + AckedIncrement(last_acked_packet, aseq)
        /\ UNCHANGED <<NextPacket, SentCount>>
    BY <1>1, CountsInChunk, CountersAcked
  <1>4. AckedIncrement(last_acked_packet, aseq) = a + 1 - ConfirmedCount
    <2>1. CASE ConfirmedCount = 0
      <3>1. last_acked_packet = -1
        BY <2>1 DEF WindowInv
      <3>2. SeqNum(a) = a
        BY <1>2, <2>1, WindowBounds, SeqNumSmall
      <3> QED
        BY <1>2, <2>1, <3>1, <3>2, SeqNumType, AckedIncrementCorrect
    <2>2. CASE ConfirmedCount # 0
      <3> DEFINE last == ConfirmedCount - 1
      <3>1. last_acked_packet = SeqNum(last)
        BY <2>2 DEF WindowInv
      <3>2. last \in Nat /\ last <= a /\ a - last <= max_seq_num_b10
        BY <1>2, <2>2, WindowBounds
      <3> HIDE DEF last
      <3>3. AckedIncrement(SeqNum(last), SeqNum(a)) = a - last
        BY <3>2, SeqNumType, SeqNumDistance, AckedIncrementCorrect
      <3> QED BY <1>2, <3>1, <3>3, WindowBounds DEF last
    <2> QED BY <2>1, <2>2
  <1>5. ConfirmedCount' = a + 1
    BY <1>3, <1>4, WindowBounds
  <1> QED BY <1>1, <1>2, <1>3, <1>5 DEF Base

\* No thread and no datagram takes the sender out of the window: base_idx never
\* passes what the server has, and canAdvance, which reads base_idx while
\* ackedPacket moves it, lets one more packet out only where it fits.
LEMMA WindowStep ==
  ASSUME TypeInv, NEW a \in Nat, ChunkInv, WindowInv(a), AckedInv(a), DataInv,
         [Next]_vars
  PROVE  WindowInv(a)'
  <1>1. CASE Sender /\ SendPacket
    <2>1. /\ spc = "send" /\ spc' = "compare"
          /\ UNCHANGED <<apc, base_idx, last_acked_packet, delivered>>
      BY <1>1 DEF SendPacket, ackedVars, countVars
    <2>2. SentCount < Base(a) + window_size
      BY <2>1 DEF WindowInv
    <2>3. SentCount' = SentCount + 1 /\ UNCHANGED ConfirmedCount
      BY <1>1, CountersSend
    <2>4. UNCHANGED Base(a)
      BY <2>1, <2>3, BaseFrame DEF BaseMoved
    <2> QED BY <2>1, <2>2, <2>3, <2>4, WindowBounds DEF WindowInv
  <1>2. CASE Sender /\ CheckAdvance
    <2>1. /\ spc = "check"
          /\ spc' = IF canAdvance(base_idx, next_seq_num_idx) THEN "send" ELSE "block"
          /\ UNCHANGED <<apc, base_idx, last_acked_packet, delivered>>
      BY <1>2 DEF CheckAdvance, networkVars, windowVars, ackedVars, countVars
    <2>2. UNCHANGED <<SentCount, ConfirmedCount>>
      BY <1>2, <2>1, CountersQuiet DEF SendPacket, IncNextSeqNum, AckCallback,
         AckedPacketCall, AckedCount, CheckAdvance, ackedVars
    <2>3. UNCHANGED Base(a)
      BY <2>1, <2>2, BaseFrame DEF BaseMoved
    <2>4. SentCount = NextPacket
      BY <2>1, CounterValues
    <2>5. base_idx = SeqNum(Base(a)) /\ next_seq_num_idx = SeqNum(NextPacket)
      BY DEF WindowInv, ChunkInv
    <2>6. Distance(base_idx, next_seq_num_idx) = NextPacket - Base(a)
      BY <2>4, <2>5, WindowBounds, SeqNumDistance
    <2>7. spc' = "send" => SentCount < Base(a) + window_size
      BY <2>1, <2>4, <2>5, <2>6, WindowBounds, SeqNumType, CanAdvanceCorrect
    <2> QED BY <2>1, <2>2, <2>3, <2>7 DEF WindowInv
  <1>3. CASE AckCallback /\ AckedSetBase
    <2>1. /\ apc = "setBase" /\ apc' = "compare" /\ base_idx' = RingSucc(aseq)
          /\ UNCHANGED <<spc, last_acked_packet, delivered>>
      BY <1>3 DEF AckedSetBase, networkVars, threadVars, countVars
    <2>2. UNCHANGED <<SentCount, ConfirmedCount>>
      BY <1>3, CountersQuiet DEF AckedSetBase, AckedCount, SendPacket, IncNextSeqNum,
         threadVars
    <2>3. Base(a) = ConfirmedCount /\ Base(a)' = a + 1
      BY <2>1 DEF Base, BaseMoved
    <2>4. aseq = SeqNum(a) /\ a < Len(delivered) /\ a >= ConfirmedCount
      BY <2>1 DEF AckedInv, Acking
    <2>5. base_idx' = SeqNum(a + 1)
      BY <2>1, <2>4, SeqNumSucc
    <2> QED BY <2>1, <2>2, <2>3, <2>4, <2>5, WindowBounds DEF WindowInv
  <1>4. CASE AckCallback /\ AckedCount
    <2>1. last_acked_packet' = aseq /\ UNCHANGED <<spc, base_idx, delivered>>
      BY <1>4 DEF AckedCount, networkVars, threadVars
    <2>2. /\ ConfirmedCount' = a + 1 /\ UNCHANGED SentCount
          /\ Base(a) = a + 1 /\ Base(a)' = a + 1 /\ aseq = SeqNum(a)
      BY <1>4, AckedCountExact
    <2>3. a + 1 # 0 /\ a + 1 - 1 = a
      OBVIOUS
    <2> QED BY <2>1, <2>2, <2>3, WindowBounds DEF WindowInv
  <1>5. CASE ~ \/ Sender /\ SendPacket
               \/ Sender /\ CheckAdvance
               \/ AckCallback /\ AckedSetBase
               \/ AckCallback /\ AckedCount
    <2>1. UNCHANGED <<SentCount, ConfirmedCount>>
      BY <1>5, CountersQuiet, CountersInc
    <2>2. UNCHANGED Base(a)
      BY <1>5, <2>1, Phases, BaseFrame
    <2>3. UNCHANGED <<base_idx, last_acked_packet>> /\ (spc' = "send" => spc = "send")
      BY <1>5, Writers, Phases
    <2>4. /\ Len(delivered') \in Nat /\ Len(delivered') >= Len(delivered)
          /\ Len(delivered') <= SentCount
      <3>1. CASE Environment /\ ServerReceive
        BY <3>1, WindowBounds, ServerStep
      <3>2. CASE ~(Environment /\ ServerReceive)
        BY <3>2, Writers, WindowBounds
      <3> QED BY <3>1, <3>2
    <2> QED BY <2>1, <2>2, <2>3, <2>4, WindowBounds DEF WindowInv
  <1> QED BY <1>1, <1>2, <1>3, <1>4, <1>5

\* The slot of a packet at most a window back still has it.
LEMMA SlotOf ==
  ASSUME TypeInv, NEW a \in Nat, ChunkInv, WindowInv(a), SlotInv,
         NEW k \in Nat, k < SentCount, SentCount <= k + BufferSize
  PROVE  window_map[SeqNum(k)].pkt = k /\ window_map[SeqNum(k)] # NoPacket
  <1>1. k \in 0..(SentCount - 1)
    BY WindowBounds
  <1>2. window_map[SeqNum(k)].pkt = k
    BY <1>1 DEF SlotInv
  <1> QED BY <1>2 DEF NoPacket

\* ackedPacket goes past its test of the slot only for an ACK of a packet that
\* had not been counted, and what it then works on stays within the window.
LEMMA AckedStep ==
  ASSUME TypeInv, NEW a \in Nat, ChunkInv, WindowInv(a), AckedInv(a), DataInv, SlotInv,
         [Next]_vars, ~(Receiver /\ ReceiveAck)
  PROVE  AckedInv(a)'
  <1>0. Len(delivered') \in Nat /\ Len(delivered') >= Len(delivered)
    <2>1. CASE Environment /\ ServerReceive
      BY <2>1, WindowBounds, ServerStep
    <2>2. CASE ~(Environment /\ ServerReceive)
      BY <2>2, Writers, WindowBounds
    <2> QED BY <2>1, <2>2
  <1>1. CASE AckCallback /\ AckedCheck
    <2>1. apc = "check" /\ UNCHANGED <<delivered, window_map>>
      BY <1>1 DEF AckedCheck, windowVars
    <2>2. UNCHANGED ConfirmedCount
      BY <1>1, CountersQuiet DEF AckedCheck, AckedCount, SendPacket, IncNextSeqNum,
         threadVars
    <2>3. /\ aseq = SeqNum(a) /\ a < Len(delivered)
          /\ a >= ConfirmedCount - 1
      BY <2>1 DEF AckedInv, Acking
    <2>4. \/ apc' = "idle"
          \/ apc' = "check" /\ UNCHANGED aseq
          \/ apc' = "setBase" /\ UNCHANGED aseq /\ ~window_map[aseq].acked
      BY <1>1, <2>1 DEF AckedCheck, ackedPacketReturns, ackedVars
    <2>5. CASE apc' = "setBase"
      <3>1. ~(ConfirmedCount > 0 /\ a = ConfirmedCount - 1)
        BY <2>1, <2>3, <2>4, <2>5 DEF SlotInv, BaseMoved
      <3>2. a >= ConfirmedCount
        BY <2>3, <3>1, WindowBounds
      <3> QED
        BY <1>0, <2>1, <2>2, <2>3, <2>4, <2>5, <3>2, WindowBounds
        DEF AckedInv, Acking, BaseMoved
    <2>6. CASE apc' # "setBase"
      BY <1>0, <2>1, <2>2, <2>3, <2>4, <2>6, WindowBounds DEF AckedInv, Acking, BaseMoved
    <2> QED BY <2>5, <2>6
  <1>2. CASE AckCallback /\ AckedSetBase
    <2>1. apc = "setBase" /\ apc' = "compare" /\ UNCHANGED aseq
      BY <1>2 DEF AckedSetBase
    <2>2. UNCHANGED ConfirmedCount
      BY <1>2, CountersQuiet DEF AckedSetBase, AckedCount, SendPacket, IncNextSeqNum,
         threadVars
    <2>3. Base(a) = ConfirmedCount
      BY <2>1 DEF Base, BaseMoved
    <2> QED
      BY <1>0, <2>1, <2>2, <2>3, WindowBounds DEF AckedInv, Acking, BaseMoved
  <1>3. CASE AckCallback /\ AckedCount
    BY <1>3 DEF AckedCount, AckedInv, Acking, BaseMoved
  <1>4. CASE ~ \/ AckCallback /\ AckedCheck
               \/ AckCallback /\ AckedSetBase
               \/ AckCallback /\ AckedCount
    <2>1. UNCHANGED ConfirmedCount
      BY <1>4, CountersQuiet, CountersSend, CountersInc
    <2>2. /\ apc' \in {"check", "setBase"} => UNCHANGED <<apc, aseq>>
          /\ BaseMoved' => BaseMoved /\ UNCHANGED aseq
      BY <1>4, Phases
    <2>3. CASE BaseMoved'
      <3>1. apc' \notin {"check", "setBase"}
        BY <2>3 DEF BaseMoved
      <3> QED BY <1>0, <2>1, <2>2, <2>3, <3>1, WindowBounds DEF AckedInv, Acking
    <2>4. CASE ~BaseMoved'
      BY <1>0, <2>1, <2>2, <2>4, WindowBounds DEF AckedInv, Acking
    <2> QED BY <2>3, <2>4
  <1> QED BY <1>1, <1>2, <1>3, <1>4

-----------------------------------------------------------------------------
(* Paths that keep their order.                                            *)

\* Such a path delivers, loses or repeats its first datagram.
LEMMA FirstOnly ==
  ASSUME KeepsOrder, NEW channel, NEW i \in Deliverable(channel)
  PROVE  i = 1
  BY DEF KeepsOrder, Deliverable

\* A datagram is sent behind those on the path, of which the first may be lost.
LEMMA TransmitElements ==
  ASSUME NEW channel \in Seq(Nat \cup {Empty}), NEW k \in Nat \cup {Empty}
  PROVE  \E d \in {0, 1} :
           /\ Len(Transmit(channel, k)) = Len(channel) + 1 - d
           /\ Len(Transmit(channel, k)) \in Nat \ {0}
           /\ \A j \in 1..(Len(Transmit(channel, k)) - 1) :
                Transmit(channel, k)[j] = channel[j + d] /\ j + d \in 1..Len(channel)
           /\ Transmit(channel, k)[Len(Transmit(channel, k))] = k
  <1>1. CASE Len(channel) < ChannelCapacity
    <2>1. Transmit(channel, k) = Append(channel, k)
      BY <1>1 DEF Transmit
    <2> QED BY <2>1
  <1>2. CASE ~(Len(channel) < ChannelCapacity)
    <2> DEFINE rest == Tail(channel)
    <2>1. Transmit(channel, k) = Append(rest, k) /\ Len(channel) > 0
      BY <1>2, NetworkAssumption DEF Transmit
    <2>2. /\ rest \in Seq(Nat \cup {Empty}) /\ Len(rest) = Len(channel) - 1
          /\ \A j \in 1..(Len(channel) - 1) : rest[j] = channel[j + 1]
      BY <2>1
    <2> HIDE DEF rest
    <2>3. /\ Len(Append(rest, k)) = Len(rest) + 1
          /\ Append(rest, k)[Len(rest) + 1] = k
          /\ \A j \in 1..Len(rest) : Append(rest, k)[j] = rest[j]
      BY <2>2
    <2>4. \A j \in 1..Len(rest) :
            Append(rest, k)[j] = channel[j + 1] /\ j + 1 \in 1..Len(channel)
      BY <2>2, <2>3
    <2> QED BY <2>1, <2>2, <2>3, <2>4
  <1> QED BY <1>1, <1>2

\* What is left on a path when its first datagram is gone.
LEMMA RemoveFirstElements ==
  ASSUME NEW channel \in Seq(Nat \cup {Empty}), Len(channel) > 0
  PROVE  /\ Len(RemoveAt(channel, 1)) = Len(channel) - 1
         /\ \A j \in 1..(Len(channel) - 1) : RemoveAt(channel, 1)[j] = channel[j + 1]
  <1>1. SubSeq(channel, 1, 0) = <<>>
    OBVIOUS
  <1> DEFINE rest == SubSeq(channel, 2, Len(channel))
  <1>2. /\ rest \in Seq(Nat \cup {Empty})
        /\ Len(rest) = Len(channel) - 1
        /\ \A j \in 1..(Len(channel) - 1) : rest[j] = channel[j + 1]
    <2>1. 2 \in Int /\ Len(channel) \in Nat
      OBVIOUS
    <2>2. \A j \in 2..Len(channel) : channel[j] \in Nat \cup {Empty}
      OBVIOUS
    <2>3. /\ rest \in Seq(Nat \cup {Empty})
          /\ Len(rest) = IF 2 <= Len(channel) THEN Len(channel) - 2 + 1 ELSE 0
          /\ \A j \in 1..(Len(channel) - 2 + 1) : rest[j] = channel[2 + j - 1]
      BY <2>1, <2>2, SubSeqProperties
    <2> HIDE DEF rest
    <2>4. Len(rest) = Len(channel) - 1
      <3>1. CASE Len(channel) = 1
        BY <2>3, <3>1
      <3>2. CASE 2 <= Len(channel)
        BY <2>1, <2>3, <3>2
      <3>3. Len(channel) \in Nat
        OBVIOUS
      <3>4. \A n \in Nat : n > 0 => n = 1 \/ 2 <= n
        OBVIOUS
      <3>5. Len(channel) = 1 \/ 2 <= Len(channel)
        BY <3>3, <3>4, Zenon
      <3> QED BY <3>1, <3>2, <3>5
    <2>5. ASSUME NEW j \in 1..(Len(channel) - 1) PROVE rest[j] = channel[j + 1]
      <3>1. j \in 1..(Len(channel) - 2 + 1) /\ 2 + j - 1 = j + 1
        BY <2>1
      <3> QED BY <2>3, <3>1
    <2> QED BY <2>3, <2>4, <2>5
  <1>3. RemoveAt(channel, 1) = <<>> \o rest
    BY <1>1 DEF RemoveAt
  <1>4. RemoveAt(channel, 1) = rest
    BY <1>2, <1>3
  <1> QED BY <1>2, <1>4

\* What is on a path when its first datagram is repeated.
LEMMA RepeatFirstElements ==
  ASSUME NEW channel \in Seq(Nat \cup {Empty}), Len(channel) > 0
  PROVE  /\ Len(InsertAt(channel, 1, channel[1])) = Len(channel) + 1
         /\ InsertAt(channel, 1, channel[1])[1] = channel[1]
         /\ \A j \in 2..(Len(channel) + 1) :
              InsertAt(channel, 1, channel[1])[j] = channel[j - 1]
  <1>1. SubSeq(channel, 1, 0) = <<>> /\ SubSeq(channel, 1, Len(channel)) = channel
    OBVIOUS
  <1>2. InsertAt(channel, 1, channel[1]) = <<channel[1]>> \o channel
    BY <1>1 DEF InsertAt
  <1> QED BY <1>2

\* The bounds of a path can be widened.
LEMMA PathWiden ==
  ASSUME NEW channel \in Seq(Nat \cup {Empty}), NEW low \in Int, NEW high \in Int,
         NEW slack \in Nat, Path(channel, low, high, slack),
         NEW low2 \in Int, NEW high2 \in Int, low2 <= low, high <= high2
  PROVE  Path(channel, low2, high2, slack)
  <1>1. \A j \in 1..Len(channel) : channel[j] \in Int
    BY DEF Empty
  <1> QED BY <1>1 DEF Path

\* A path stays one when an empty datagram, or one that is not too far behind, is
\* sent.
LEMMA PathTransmit ==
  ASSUME NEW channel \in Seq(Nat \cup {Empty}), NEW low \in Int, NEW high \in Int,
         NEW slack \in Nat, Path(channel, low, high, slack),
         NEW k \in Nat \cup {Empty},
         k # Empty => low <= k /\ k < high /\ high <= k + slack + 1
  PROVE  Path(Transmit(channel, k), low, high, slack)
  <1> DEFINE path == Transmit(channel, k)
  <1>1. PICK d \in {0, 1} :
          /\ Len(path) = Len(channel) + 1 - d
          /\ Len(path) \in Nat \ {0}
          /\ \A j \in 1..(Len(path) - 1) :
               path[j] = channel[j + d] /\ j + d \in 1..Len(channel)
          /\ path[Len(path)] = k
    BY TransmitElements
  <1> HIDE DEF path
  <1>2. ASSUME NEW j \in 1..Len(path), path[j] # Empty
        PROVE  /\ path[j] >= low /\ path[j] < high
               /\ \A i \in 1..(j - 1) : path[i] <= path[j] + slack
    <2>1. CASE j = Len(path)
      <3>1. path[j] = k /\ k \in Nat /\ low <= k /\ k < high /\ high <= k + slack + 1
        BY <1>1, <1>2, <2>1
      <3>2. \A i \in 1..(j - 1) : path[i] \in Int /\ (path[i] = Empty \/ path[i] < high)
        BY <1>1, <2>1 DEF Path, Empty
      <3> QED BY <3>1, <3>2 DEF Empty
    <2>2. CASE j # Len(path)
      <3>1. j \in 1..(Len(path) - 1) /\ j + d \in 1..Len(channel)
        BY <1>1, <2>2
      <3>2. \A i \in 1..(j - 1) :
              /\ i \in 1..(Len(path) - 1)
              /\ i + d \in 1..((j + d) - 1)
        BY <1>1, <3>1
      <3> QED BY <1>1, <1>2, <3>1, <3>2 DEF Path
    <2> QED BY <2>1, <2>2
  <1>3. Path(path, low, high, slack)
    BY <1>2 DEF Path
  <1> QED BY <1>3 DEF path

\* A path stays one when its first datagram is gone, and what is left is not far
\* behind that one.
LEMMA PathRemove ==
  ASSUME NEW channel \in Seq(Nat \cup {Empty}), NEW low \in Int, NEW high \in Int,
         NEW slack \in Nat, Path(channel, low, high, slack), Len(channel) > 0
  PROVE  /\ Path(RemoveAt(channel, 1), low, high, slack)
         /\ Path(RemoveAt(channel, 1), channel[1] - slack, high, slack)
  <1> DEFINE path == RemoveAt(channel, 1)
  <1>1. /\ Len(path) = Len(channel) - 1
        /\ \A j \in 1..(Len(channel) - 1) : path[j] = channel[j + 1]
    BY RemoveFirstElements
  <1> HIDE DEF path
  <1>2. ASSUME NEW j \in 1..Len(path), path[j] # Empty
        PROVE  /\ path[j] >= low /\ path[j] < high
               /\ path[j] >= channel[1] - slack
               /\ \A i \in 1..(j - 1) : path[i] <= path[j] + slack
    <2>1. path[j] = channel[j + 1] /\ j + 1 \in 1..Len(channel) /\ path[j] \in Nat
      BY <1>1, <1>2
    <2>2. /\ path[j] >= low /\ path[j] < high
          /\ \A i \in 1..j : channel[i] <= path[j] + slack
      BY <1>2, <2>1 DEF Path
    <2>3. \A i \in 1..(j - 1) : path[i] = channel[i + 1] /\ i + 1 \in 1..j
      BY <1>1, <2>1
    <2>4. channel[1] <= path[j] + slack /\ channel[1] \in Int
      BY <2>2 DEF Empty
    <2> QED BY <2>1, <2>2, <2>3, <2>4
  <1>3. /\ Path(path, low, high, slack)
        /\ Path(path, channel[1] - slack, high, slack)
    BY <1>2 DEF Path
  <1> QED BY <1>3 DEF path

\* A path stays one when its first datagram is repeated.
LEMMA PathRepeat ==
  ASSUME NEW channel \in Seq(Nat \cup {Empty}), NEW low \in Int, NEW high \in Int,
         NEW slack \in Nat, Path(channel, low, high, slack), Len(channel) > 0
  PROVE  Path(InsertAt(channel, 1, channel[1]), low, high, slack)
  <1> DEFINE path == InsertAt(channel, 1, channel[1])
  <1>1. /\ Len(path) = Len(channel) + 1
        /\ path[1] = channel[1]
        /\ \A j \in 2..(Len(channel) + 1) : path[j] = channel[j - 1]
    BY RepeatFirstElements
  <1> HIDE DEF path
  <1>2. ASSUME NEW j \in 1..Len(path), path[j] # Empty
        PROVE  /\ path[j] >= low /\ path[j] < high
               /\ \A i \in 1..(j - 1) : path[i] <= path[j] + slack
    <2>1. CASE j = 1
      BY <1>1, <1>2, <2>1 DEF Path
    <2>2. CASE j # 1
      <3>1. path[j] = channel[j - 1] /\ j - 1 \in 1..Len(channel) /\ path[j] \in Nat
        BY <1>1, <1>2, <2>2
      <3>2. /\ path[j] >= low /\ path[j] < high
            /\ \A i \in 1..(j - 2) : channel[i] <= path[j] + slack
        BY <1>2, <3>1 DEF Path
      <3>3. ASSUME NEW i \in 1..(j - 1)
            PROVE  path[i] = path[j] \/ \E m \in 1..(j - 2) : path[i] = channel[m]
        <4>1. CASE i = 1 /\ j = 2
          BY <1>1, <3>1, <4>1
        <4>2. CASE i = 1 /\ j # 2
          BY <1>1, <2>2, <4>2
        <4>3. CASE i # 1
          <5>1. i - 1 \in 1..(j - 2) /\ path[i] = channel[i - 1]
            BY <1>1, <4>3
          <5> QED BY <5>1
        <4> QED BY <4>1, <4>2, <4>3
      <3> QED BY <3>1, <3>2, <3>3
    <2> QED BY <2>1, <2>2
  <1>3. Path(path, low, high, slack)
    BY <1>2 DEF Path
  <1> QED BY <1>3 DEF path

-----------------------------------------------------------------------------
(* The resend loop and what is on its way.                                 *)

\* While a timeoutHandler runs its loop no packet is half sent, and the loop is at
\* a packet of the last window; it goes on exactly until NextPacket.
LEMMA ResendPosition ==
  ASSUME TypeInv, MutexInv, NEW a \in Nat, ChunkInv, WindowInv(a), SlotInv, ResendInv,
         NEW h \in Handlers, hpc[h] = "resend"
  PROVE  /\ SentCount = NextPacket
         /\ \E first, r \in Nat :
              /\ ResendAt(first, r)
              /\ ResendMore(resend.i, resend.bidx, resend.nseqnum) <=> r < NextPacket
              /\ r < NextPacket => /\ window_map[resend.i].pkt = r
                                   /\ window_map[resend.i] # NoPacket
  <1>1. ~SenderHolds
    BY DEF MutexInv, MutexExclusive, HandlerHolds
  <1>2. SentCount = NextPacket
    BY <1>1, CounterValues DEF SenderHolds
  <1>3. PICK first, r \in Nat : ResendAt(first, r)
    BY WindowBounds DEF ResendInv, ResendAt
  <1>4. /\ first \in Nat /\ r \in Nat /\ first <= r /\ r <= NextPacket
        /\ NextPacket <= first + window_size
    BY <1>3, WindowBounds DEF ResendAt
  <1>5. /\ resend.i = SeqNum(r) /\ resend.bidx = SeqNum(first)
        /\ resend.nseqnum = SeqNum(NextPacket)
    BY <1>3 DEF ResendAt
  <1>6. /\ Distance(SeqNum(first), SeqNum(NextPacket)) = NextPacket - first
        /\ Distance(SeqNum(first), SeqNum(r)) = r - first
    BY <1>4, WindowBounds, SeqNumDistance
  <1>7. ResendMore(resend.i, resend.bidx, resend.nseqnum) <=> r < NextPacket
    <2>1. /\ Distance(SeqNum(first), SeqNum(NextPacket)) <= window_size
          /\ Distance(SeqNum(first), SeqNum(r))
               <= Distance(SeqNum(first), SeqNum(NextPacket))
      BY <1>4, <1>6, WindowBounds
    <2>2. /\ SeqNum(first) \in SeqNums /\ SeqNum(r) \in SeqNums
          /\ SeqNum(NextPacket) \in SeqNums
      BY <1>4, WindowBounds, SeqNumType
    <2>3. ResendMore(SeqNum(r), SeqNum(first), SeqNum(NextPacket))
            <=> Distance(SeqNum(first), SeqNum(r))
                  < Distance(SeqNum(first), SeqNum(NextPacket))
      BY <2>1, <2>2, ResendMoreCorrect
    <2> QED BY <1>4, <1>5, <1>6, <2>3, WindowBounds
  <1>8. r < NextPacket => /\ window_map[resend.i].pkt = r
                          /\ window_map[resend.i] # NoPacket
    BY <1>2, <1>4, <1>5, WindowBounds, SlotOf
  <1> QED BY <1>2, <1>3, <1>4, <1>7, <1>8

\* One step of the loop sends packet r again or leaves the loop at NextPacket; it
\* never meets an empty slot.
LEMMA ResendOne ==
  ASSUME TypeInv, MutexInv, NEW a \in Nat, ChunkInv, WindowInv(a), SlotInv, ResendInv,
         NEW h \in Handlers, HandlerResend(h)
  PROVE  /\ SentCount = NextPacket
         /\ UNCHANGED crash
         /\ \E first, r \in Nat :
              /\ ResendAt(first, r)
              /\ \/ /\ r = NextPacket
                    /\ hpc' = [hpc EXCEPT ![h] = "restart"]
                    /\ UNCHANGED <<data, resend>>
                 \/ /\ r < NextPacket
                    /\ data' = Transmit(data, r)
                    /\ resend' = [resend EXCEPT !.i = SeqNum(r + 1)]
                    /\ UNCHANGED hpc
  <1>1. hpc[h] = "resend"
    BY DEF HandlerResend
  <1>2. PICK first, r \in Nat :
          /\ ResendAt(first, r)
          /\ ResendMore(resend.i, resend.bidx, resend.nseqnum) <=> r < NextPacket
          /\ r < NextPacket => /\ window_map[resend.i].pkt = r
                               /\ window_map[resend.i] # NoPacket
    BY <1>1, ResendPosition
  <1>3. resend.i = SeqNum(r) /\ r <= NextPacket
    BY <1>2, WindowBounds DEF ResendAt
  <1>4. CASE r < NextPacket
    <2>1. RingSucc(resend.i) = SeqNum(r + 1)
      BY <1>3, SeqNumSucc
    <2> QED BY <1>1, <1>2, <1>4, <2>1, ResendPosition DEF HandlerResend
  <1>5. CASE r = NextPacket
    <2>1. ~(r < NextPacket)
      BY <1>5, WindowBounds
    <2> QED BY <1>1, <1>2, <1>5, <2>1, ResendPosition DEF HandlerResend
  <1> QED BY <1>3, <1>4, <1>5, WindowBounds

\* The network, on paths that keep their order, leaves the data path one.
LEMMA DataEnvironment ==
  ASSUME KeepsOrder, TypeInv, NEW a \in Nat, ChunkInv, WindowInv(a), DataInv,
         NetworkNext, UNCHANGED SentCount
  PROVE  DataInv'
  <1> DEFINE low == Len(delivered) - window_size
             slack == window_size - 1
  <1>0. /\ data \in Seq(Nat \cup {Empty}) /\ low \in Int /\ slack \in Nat
        /\ SentCount \in Int /\ SentCount' = SentCount
    BY WindowBounds DEF TypeInv, TypeOK, NetworkTypeOK
  <1>1. Path(data, low, SentCount, slack)
    BY DEF DataInv
  <1>2. DataInv' <=> Path(data', Len(delivered') - window_size, SentCount', slack)
    BY DEF DataInv, Path
  <1>3. CASE ServerReceive
    <2>1. PICK i \in Deliverable(data) :
            /\ i \in 1..Len(data)
            /\ data' = RemoveAt(data, i)
            /\ \/ UNCHANGED delivered
               \/ /\ data[i] = Len(delivered)
                  /\ Len(delivered) < SentCount
                  /\ delivered' = Append(delivered, Len(delivered))
      BY <1>3, ServerStep
    <2>2. i = 1 /\ Len(data) > 0
      BY <2>1, FirstOnly
    <2>3. /\ Path(data', low, SentCount, slack)
          /\ Path(data', data[1] - slack, SentCount, slack)
      <3> HIDE DEF low, slack
      <3> QED BY <1>0, <1>1, <2>1, <2>2, PathRemove
    <2>4. CASE UNCHANGED delivered
      BY <1>0, <1>2, <2>3, <2>4
    <2>5. CASE data[1] = Len(delivered) /\ delivered' = Append(delivered, Len(delivered))
      <3>1. Len(delivered') = Len(delivered) + 1
        BY <2>5 DEF TypeInv, TypeOK, NetworkTypeOK
      <3>2. data[1] - slack = Len(delivered') - window_size
        BY <2>5, <3>1, WindowBounds
      <3> QED BY <1>0, <1>2, <2>3, <3>2
    <2> QED BY <2>1, <2>2, <2>4, <2>5
  <1>4. CASE ServerClose \/ LoseData
    <2>1. PICK i \in Deliverable(data) : data' = RemoveAt(data, i)
      BY <1>4 DEF ServerClose, LoseData
    <2>2. i = 1 /\ Len(data) > 0
      BY <2>1, FirstOnly, DeliverableType
    <2>3. Path(data', low, SentCount, slack)
      <3> HIDE DEF low, slack
      <3> QED BY <1>0, <1>1, <2>1, <2>2, PathRemove
    <2>4. UNCHANGED delivered
      BY <1>4 DEF ServerClose, LoseData
    <2> QED BY <1>0, <1>2, <2>3, <2>4
  <1>5. CASE DuplicateData
    <2>1. PICK i \in Deliverable(data) : data' = InsertAt(data, i, data[i])
      BY <1>5 DEF DuplicateData
    <2>2. i = 1 /\ Len(data) > 0
      BY <2>1, FirstOnly, DeliverableType
    <2>3. Path(data', low, SentCount, slack)
      <3> HIDE DEF low, slack
      <3> QED BY <1>0, <1>1, <2>1, <2>2, PathRepeat
    <2>4. UNCHANGED delivered
      BY <1>5 DEF DuplicateData
    <2> QED BY <1>0, <1>2, <2>3, <2>4
  <1>6. CASE LoseAck \/ DuplicateAck
    <2>1. UNCHANGED <<data, delivered>>
      BY <1>6 DEF LoseAck, DuplicateAck
    <2> QED BY <1>0, <1>1, <1>2, <2>1
  <1> QED BY <1>3, <1>4, <1>5, <1>6 DEF NetworkNext

\* Whatever the sender thread, ackedPacket and the timer threads send is of the
\* last window, so that the server never takes it for a packet a ring later.
LEMMA DataStep ==
  ASSUME KeepsOrder, TypeInv, MutexInv, NEW a \in Nat, ChunkInv, WindowInv(a),
         AckedInv(a), DataInv, SlotInv, ResendInv, [Next]_vars
  PROVE  DataInv'
  <1> DEFINE low == Len(delivered) - window_size
             slack == window_size - 1
  <1>0. /\ data \in Seq(Nat \cup {Empty}) /\ low \in Int /\ slack \in Nat
        /\ SentCount \in Int /\ SentCount + 1 \in Int
    BY WindowBounds DEF TypeInv, TypeOK, NetworkTypeOK
  <1>1. Path(data, low, SentCount, slack)
    BY DEF DataInv
  <1>2. UNCHANGED delivered => (DataInv' <=> Path(data', low, SentCount', slack))
    BY DEF DataInv, Path
  <1>3. ASSUME NEW k \in Nat \cup {Empty}, data' = Transmit(data, k),
               UNCHANGED <<SentCount, delivered>>,
               k # Empty => k < SentCount /\ SentCount <= k + window_size
        PROVE  DataInv'
    <2>1. k # Empty => low <= k /\ k < SentCount /\ SentCount <= k + slack + 1
      BY <1>3, WindowBounds
    <2>2. Path(data', low, SentCount, slack)
      <3> HIDE DEF low, slack
      <3> QED BY <1>0, <1>1, <1>3, <2>1, PathTransmit
    <2> QED BY <1>2, <1>3, <2>2
  <1>4. CASE Sender /\ SendPacket
    <2>1. /\ data' = Transmit(data, CurrentPacket) /\ UNCHANGED delivered
          /\ SentCount' = SentCount + 1 /\ CurrentPacket = SentCount
      BY <1>4, CountersSend DEF SendPacket
    <2>2. /\ SentCount # Empty => /\ low <= SentCount /\ SentCount < SentCount + 1
                                  /\ SentCount + 1 <= SentCount + slack + 1
          /\ SentCount \in Nat \cup {Empty} /\ low <= low /\ SentCount <= SentCount + 1
      BY WindowBounds
    <2>3. Path(data', low, SentCount + 1, slack)
      <3> HIDE DEF low, slack
      <3>1. Path(data, low, SentCount + 1, slack)
        BY <1>0, <1>1, <2>2, PathWiden
      <3> QED BY <1>0, <2>1, <2>2, <3>1, PathTransmit
    <2> QED BY <1>2, <2>1, <2>3
  <1>5. CASE Sender /\ EndConnection
    <2>1. data' = Transmit(data, Empty) /\ UNCHANGED delivered
      BY <1>5 DEF EndConnection
    <2>2. UNCHANGED SentCount
      BY <1>5, CountersQuiet DEF EndConnection, SendPacket, IncNextSeqNum, AckedCount,
         ackedVars
    <2> QED BY <1>3, <2>1, <2>2
  <1>6. CASE AckCallback /\ AckedCheck
    <2>1. data' \in {data, Transmit(data, Empty)} /\ UNCHANGED delivered
      BY <1>6 DEF AckedCheck
    <2>2. UNCHANGED SentCount
      BY <1>6, CountersQuiet DEF AckedCheck, SendPacket, IncNextSeqNum, AckedCount,
         threadVars
    <2> QED BY <1>1, <1>2, <1>3, <2>1, <2>2
  <1>7. CASE Timers
    <2>1. PICK h \in Handlers : TimerThread(h)
      BY <1>7 DEF Timers
    <2>2. UNCHANGED <<spc, apc, delivered>>
      BY <2>1 DEF TimerThread, TimerExpires, HandlerEntry, HandlerLock, HandlerResend,
         HandlerRestart, networkVars, threadVars, ackedVars
    <2>3. UNCHANGED SentCount
      BY <2>2, CountersQuiet DEF SendPacket, IncNextSeqNum, AckedCount
    <2>4. CASE HandlerResend(h)
      <3>1. PICK first, r \in Nat :
              /\ ResendAt(first, r)
              /\ UNCHANGED data \/ (r < NextPacket /\ data' = Transmit(data, r))
        BY <2>4, ResendOne
      <3>2. SentCount = NextPacket
        BY <2>4, ResendOne
      <3>3. SentCount <= r + window_size
        BY <3>1, <3>2, WindowBounds DEF ResendAt
      <3>4. CASE UNCHANGED data
        BY <1>1, <1>2, <2>2, <2>3, <3>4
      <3>5. CASE r < NextPacket /\ data' = Transmit(data, r)
        BY <1>3, <2>2, <2>3, <3>2, <3>3, <3>5
      <3> QED BY <3>1, <3>4, <3>5
    <2>5. CASE ~HandlerResend(h)
      <3>1. UNCHANGED data
        BY <2>1, <2>5 DEF TimerThread, TimerExpires, HandlerEntry, HandlerLock,
           HandlerRestart, networkVars
      <3> QED BY <1>1, <1>2, <2>2, <2>3, <3>1
    <2> QED BY <2>4, <2>5
  <1>8. CASE Environment
    <2>1. NetworkNext /\ UNCHANGED <<spc, apc>>
      BY <1>8 DEF Environment, senderVars, threadVars, ackedVars
    <2>2. UNCHANGED SentCount
      BY <2>1, CountersQuiet DEF SendPacket, IncNextSeqNum, AckedCount
    <2> QED BY <2>1, <2>2, DataEnvironment
  <1>9. CASE ~ \/ Sender /\ SendPacket
               \/ Sender /\ EndConnection
               \/ AckCallback /\ AckedCheck
               \/ Timers
               \/ Environment
    <2>1. UNCHANGED <<data, delivered>>
      BY <1>9, Writers
    <2>2. UNCHANGED SentCount
      BY <1>9, CountersQuiet, CountersInc, AckedCountExact
    <2> QED BY <1>1, <1>2, <2>1, <2>2
  <1> QED BY <1>4, <1>5, <1>6, <1>7, <1>8, <1>9

\* The network, on paths that keep their order, keeps the ACKs in order.
LEMMA AcksEnvironment ==
  ASSUME KeepsOrder, TypeInv, NEW a \in Nat, ChunkInv, WindowInv(a), AckedInv(a),
         DataInv, AcksInv(a), NetworkNext, UNCHANGED OldestAck(a)
  PROVE  AcksInv(a)'
  <1> DEFINE low == OldestAck(a)
             high == Len(delivered)
  <1>0. /\ acks \in Seq(Nat \cup {Empty}) /\ low \in Int /\ high \in Nat /\ 0 \in Nat
        /\ high \in Int /\ low <= high - 1 /\ low' = low
    <2>1. low <= Len(delivered) - 1
      BY WindowBounds DEF OldestAck, AckedInv
    <2>2. low \in Int
      BY WindowBounds DEF OldestAck
    <2> QED BY <2>1, <2>2, WindowBounds DEF TypeInv, TypeOK, NetworkTypeOK
  <1>1. Path(acks, low, high, 0)
    BY DEF AcksInv
  <1>2. AcksInv(a)' <=> Path(acks', low, Len(delivered'), 0)
    BY <1>0 DEF AcksInv, Path
  <1> HIDE DEF low, high
  <1>3. CASE ServerReceive
    <2>1. /\ Len(delivered') \in {Len(delivered), Len(delivered) + 1}
          /\ acks' \in {acks, Transmit(acks, Len(delivered') - 1)}
          /\ Len(delivered') = 0 => acks' = acks
      BY <1>3, ServerStep
    <2> DEFINE high2 == Len(delivered')
    <2>2. high2 \in Int /\ high <= high2 /\ low <= low
      BY <1>0, <2>1 DEF high
    <2>3. Path(acks, low, high2, 0)
      <3> HIDE DEF high2
      <3> QED BY <1>0, <1>1, <2>2, PathWiden
    <2>4. CASE acks' = acks
      BY <1>2, <2>3, <2>4
    <2>5. CASE high2 # 0 /\ acks' = Transmit(acks, high2 - 1)
      <3> DEFINE k == high2 - 1
      <3>1. /\ k \in Nat \cup {Empty}
            /\ k # Empty => low <= k /\ k < high2 /\ high2 <= k + 0 + 1
        BY <1>0, <2>1, <2>5 DEF high
      <3>2. Path(acks', low, high2, 0)
        <4>1. acks' = Transmit(acks, k)
          BY <2>5
        <4> HIDE DEF high2, k
        <4> QED BY <1>0, <2>2, <2>3, <3>1, <4>1, PathTransmit
      <3> QED BY <1>2, <3>2
    <2> QED BY <2>1, <2>4, <2>5
  <1>4. CASE ServerClose
    <2>1. UNCHANGED delivered /\ acks' \in {acks, Transmit(acks, Empty)}
      BY <1>4 DEF ServerClose
    <2>2. Path(Transmit(acks, Empty), low, high, 0)
      <3>1. ASSUME NEW k \in Nat \cup {Empty}, k = Empty
            PROVE  Path(Transmit(acks, k), low, high, 0)
        BY <1>0, <1>1, <3>1, PathTransmit
      <3> QED BY <3>1
    <2> QED BY <1>1, <1>2, <2>1, <2>2 DEF high
  <1>5. CASE LoseAck
    <2>1. PICK i \in Deliverable(acks) : acks' = RemoveAt(acks, i)
      BY <1>5 DEF LoseAck
    <2>2. i = 1 /\ Len(acks) > 0
      BY <2>1, FirstOnly, DeliverableType
    <2>3. Path(acks', low, high, 0)
      BY <1>0, <1>1, <2>1, <2>2, PathRemove
    <2> QED BY <1>2, <1>5, <2>3 DEF LoseAck, high
  <1>6. CASE DuplicateAck
    <2>1. PICK i \in Deliverable(acks) : acks' = InsertAt(acks, i, acks[i])
      BY <1>6 DEF DuplicateAck
    <2>2. i = 1 /\ Len(acks) > 0
      BY <2>1, FirstOnly, DeliverableType
    <2>3. Path(acks', low, high, 0)
      BY <1>0, <1>1, <2>1, <2>2, PathRepeat
    <2> QED BY <1>2, <1>6, <2>3 DEF DuplicateAck, high
  <1>7. CASE LoseData \/ DuplicateData
    BY <1>1, <1>2, <1>7 DEF LoseData, DuplicateData, high
  <1> QED BY <1>3, <1>4, <1>5, <1>6, <1>7 DEF NetworkNext

\* Until the next ACK is received, the ACKs on their way stay in order and none
\* is older than the one ackedPacket works on.
LEMMA AcksStep ==
  ASSUME KeepsOrder, TypeInv, NEW a \in Nat, ChunkInv, WindowInv(a), AckedInv(a),
         DataInv, AcksInv(a), [Next]_vars, ~(Receiver /\ ReceiveAck)
  PROVE  AcksInv(a)'
  <1> DEFINE low == OldestAck(a)
             high == Len(delivered)
  <1>0. /\ acks \in Seq(Nat \cup {Empty}) /\ low \in Int /\ high \in Int /\ 0 \in Nat
        /\ Path(acks, low, high, 0)
    BY WindowBounds DEF OldestAck, AcksInv, TypeInv, TypeOK, NetworkTypeOK
  <1>1. CASE Environment
    <2>1. NetworkNext /\ UNCHANGED <<spc, apc>>
      BY <1>1 DEF Environment, senderVars, threadVars, ackedVars
    <2>2. UNCHANGED ConfirmedCount
      BY <2>1, CountersQuiet DEF SendPacket, IncNextSeqNum, AckedCount
    <2>3. UNCHANGED OldestAck(a)
      BY <2>1, <2>2 DEF OldestAck, Acking, BaseMoved
    <2> QED BY <2>1, <2>3, AcksEnvironment
  <1>2. CASE Receiver
    <2>1. PICK i \in Deliverable(acks) : acks' = RemoveAt(acks, i)
      BY <1>2 DEF Receiver, ReceiverThread, ReceiveCorrupt, ReceiveEmpty
    <2>2. i = 1 /\ Len(acks) > 0
      BY <2>1, FirstOnly, DeliverableType
    <2>3. UNCHANGED <<spc, apc, delivered>>
      BY <1>2 DEF Receiver, ReceiverThread, ReceiveCorrupt, ReceiveEmpty, senderVars,
         threadVars, ackedVars
    <2>4. UNCHANGED ConfirmedCount
      BY <2>3, CountersQuiet DEF SendPacket, IncNextSeqNum, AckedCount
    <2>5. low' = low /\ high' = high
      BY <2>3, <2>4 DEF OldestAck, Acking, BaseMoved
    <2>6. Path(acks', low, high, 0)
      <3> HIDE DEF low, high
      <3> QED BY <1>0, <2>1, <2>2, PathRemove
    <2> QED BY <2>5, <2>6 DEF AcksInv, Path
  <1>3. CASE ~(Environment \/ Receiver)
    <2>1. UNCHANGED <<acks, delivered>>
      BY <1>3, Writers
    <2>2. low' \in Int /\ low' <= low
      <3>1. CASE AckCallback /\ AckedCount
        <4>1. apc = "count" /\ apc' = "notifyPacket"
          BY <3>1 DEF AckedCount
        <4>2. low = a /\ low' = ConfirmedCount' - 1
          BY <4>1 DEF OldestAck, Acking, BaseMoved
        <4> QED BY <3>1, <4>2, AckedCountExact
      <3>2. CASE ~(AckCallback /\ AckedCount)
        <4>1. UNCHANGED ConfirmedCount
          BY <3>2, CountersQuiet, CountersSend, CountersInc
        <4>2. Acking' => Acking
          <5>1. (AckedCheck => apc = "check") /\ (AckedSetBase => apc = "setBase")
            BY DEF AckedCheck, AckedSetBase
          <5> QED BY <1>3, <5>1, Phases DEF Acking
        <4>3. Acking => a >= ConfirmedCount - 1
          BY WindowBounds DEF AckedInv, Acking
        <4> QED BY <4>1, <4>2, <4>3, WindowBounds DEF OldestAck
      <3> QED BY <3>1, <3>2
    <2>3. Path(acks, low', high, 0)
      <3> DEFINE low2 == low'
      <3>1. low2 \in Int /\ low2 <= low /\ high <= high
        BY <1>0, <2>2
      <3>2. Path(acks, low2, high, 0)
        <4> HIDE DEF low, low2, high
        <4> QED BY <1>0, <3>1, PathWiden
      <3> QED BY <3>2
    <2>4. acks' = acks /\ high' = high
      BY <2>1
    <2> QED BY <2>3, <2>4 DEF AcksInv, Path
  <1> QED BY <1>1, <1>2, <1>3

\* A slot is reused only for the packet a whole ring later, and marked only for
\* the packet that is in it.
LEMMA SlotStep ==
  ASSUME TypeInv, NEW a \in Nat, ChunkInv, WindowInv(a), AckedInv(a), SlotInv,
         [Next]_vars
  PROVE  SlotInv'
  <1>0. window_map \in [SeqNums -> [pkt : Nat \cup {-1}, acked : BOOLEAN]]
    BY DEF TypeInv, TypeOK, WindowTypeOK
  <1>1. CASE Sender /\ SendPacket
    <2> DEFINE n == SentCount
    <2>1. /\ window_map' = [window_map EXCEPT ![SeqNum(n)] = [pkt |-> n, acked |-> FALSE]]
          /\ UNCHANGED apc /\ spc = "send"
          /\ SentCount' = n + 1 /\ UNCHANGED ConfirmedCount
      BY <1>1, CountersSend DEF SendPacket, NewPacket, ChunkInv, ackedVars
    <2>2. n \in Nat /\ SeqNum(n) \in SeqNums
      BY WindowBounds, SeqNumType
    <2>3. ASSUME NEW k \in Nat, k < n, n - k <= max_seq_num_b10
          PROVE  window_map'[SeqNum(k)] = window_map[SeqNum(k)]
      <3>1. SeqNum(k) # SeqNum(n)
        BY <2>2, <2>3, SeqNumDistinct
      <3> QED BY <1>0, <2>1, <3>1, SeqNumType
    <2>4. ASSUME NEW k \in 0..n, n + 1 <= k + BufferSize
          PROVE  window_map'[SeqNum(k)].pkt = k
      <3>1. CASE k = n
        BY <1>0, <2>1, <2>2, <3>1
      <3>2. CASE k # n
        <4>1. k \in Nat /\ k < n /\ n - k <= max_seq_num_b10 /\ n <= k + BufferSize
          BY <2>2, <2>4, <3>2, WindowBounds
        <4> QED BY <2>3, <4>1, SlotOf
      <3> QED BY <3>1, <3>2
    <2>5. ASSUME NEW s \in SeqNums, window_map'[s].pkt # -1
          PROVE  window_map'[s].pkt < n + 1 /\ SeqNum(window_map'[s].pkt) = s
      <3>1. CASE s = SeqNum(n)
        BY <1>0, <2>1, <2>2, <3>1
      <3>2. CASE s # SeqNum(n)
        <4>1. window_map'[s] = window_map[s] /\ window_map[s].pkt \in Nat
          BY <1>0, <2>1, <2>5, <3>2
        <4>2. window_map[s].pkt < n /\ SeqNum(window_map[s].pkt) = s
          BY <2>5, <4>1 DEF SlotInv
        <4> QED BY <2>2, <4>1, <4>2
      <3> QED BY <3>1, <3>2
    <2>6. ASSUME NEW s \in SeqNums, window_map'[s].acked
          PROVE  window_map'[s].pkt < ConfirmedCount
      <3>1. window_map'[s] = window_map[s]
        BY <1>0, <2>1, <2>6
      <3> QED BY <2>6, <3>1 DEF SlotInv
    <2>7. ASSUME ~BaseMoved, ConfirmedCount > 0
          PROVE  window_map'[SeqNum(ConfirmedCount - 1)].acked
      <3>1. n < ConfirmedCount + window_size
        BY <2>1, <2>7 DEF WindowInv, Base
      <3>2. /\ ConfirmedCount - 1 \in Nat /\ ConfirmedCount - 1 < n
            /\ n - (ConfirmedCount - 1) <= max_seq_num_b10
        BY <2>7, <3>1, WindowBounds
      <3>3. window_map'[SeqNum(ConfirmedCount - 1)] = window_map[SeqNum(ConfirmedCount - 1)]
        BY <2>3, <3>2
      <3> QED BY <2>7, <3>3 DEF SlotInv
    <2>8. UNCHANGED BaseMoved
      BY <2>1 DEF BaseMoved
    <2>9. \A k \in 0..(SentCount' - 1) :
            SentCount' <= k + BufferSize => window_map'[SeqNum(k)].pkt = k
      <3>1. SentCount' - 1 = n
        BY <2>1, <2>2
      <3> QED BY <2>1, <2>4, <3>1
    <2>10. \A s \in SeqNums : window_map'[s].pkt # -1 =>
             window_map'[s].pkt < SentCount' /\ SeqNum(window_map'[s].pkt) = s
      BY <2>1, <2>5
    <2>11. \A s \in SeqNums :
             window_map'[s].acked => window_map'[s].pkt < ConfirmedCount'
      BY <2>1, <2>6
    <2>12. ~BaseMoved' /\ ConfirmedCount' > 0
             => window_map'[SeqNum(ConfirmedCount' - 1)].acked
      BY <2>1, <2>7, <2>8
    <2> QED BY <2>9, <2>10, <2>11, <2>12 DEF SlotInv
  <1>2. CASE AckCallback /\ AckedCount
    <2>1. /\ window_map' = [window_map EXCEPT ![aseq].acked = TRUE]
          /\ ConfirmedCount' = a + 1 /\ UNCHANGED SentCount
          /\ aseq = SeqNum(a) /\ ConfirmedCount <= a /\ Base(a) = a + 1
      BY <1>2, AckedCountExact DEF AckedCount
    <2>2. SeqNum(a) \in SeqNums
      BY SeqNumType
    <2>3. window_map[SeqNum(a)].pkt = a
      BY <2>1, WindowBounds, SlotOf
    <2>4. \A s \in SeqNums : /\ window_map'[s].pkt = window_map[s].pkt
                             /\ s # SeqNum(a) => window_map'[s].acked = window_map[s].acked
      BY <1>0, <2>1, <2>2
    <2>5. window_map'[SeqNum(a)].acked
      BY <1>0, <2>1, <2>2
    <2>6. \A k \in 0..(SentCount - 1) : SeqNum(k) \in SeqNums
      BY WindowBounds, SeqNumType
    <2>7. \A k \in 0..(SentCount - 1) :
            SentCount <= k + BufferSize => window_map'[SeqNum(k)].pkt = k
      BY <2>4, <2>6 DEF SlotInv
    <2>8. \A s \in SeqNums : window_map'[s].pkt # -1 =>
            window_map'[s].pkt < SentCount /\ SeqNum(window_map'[s].pkt) = s
      BY <2>4 DEF SlotInv
    <2>9. ASSUME NEW s \in SeqNums, window_map'[s].acked
          PROVE  window_map'[s].pkt < a + 1
      <3>1. CASE s = SeqNum(a)
        BY <2>3, <2>4, <3>1
      <3>2. CASE s # SeqNum(a)
        <4>1. window_map[s].pkt < ConfirmedCount /\ window_map[s].pkt \in Int
          BY <1>0, <2>4, <2>9, <3>2 DEF SlotInv
        <4> QED BY <2>1, <2>4, <4>1, WindowBounds
      <3> QED BY <3>1, <3>2
    <2>10. a + 1 - 1 = a
      OBVIOUS
    <2> QED BY <2>1, <2>5, <2>7, <2>8, <2>9, <2>10 DEF SlotInv
  <1>3. CASE ~ \/ Sender /\ SendPacket
               \/ AckCallback /\ AckedCount
    <2>1. UNCHANGED window_map
      BY <1>3, Writers
    <2>2. UNCHANGED <<SentCount, ConfirmedCount>>
      BY <1>3, CountersQuiet, CountersInc
    <2>3. ~BaseMoved' => ~BaseMoved
      BY <1>3, Phases
    <2> QED BY <2>1, <2>2, <2>3 DEF SlotInv
  <1> QED BY <1>1, <1>2, <1>3

\* The loop of timeoutHandler starts at base_idx, moves on packet by packet, and
\* next_seq_num_idx cannot move while it runs.
LEMMA ResendStep ==
  ASSUME TypeInv, MutexInv, NEW a \in Nat, ChunkInv, WindowInv(a), AckedInv(a), SlotInv,
         ResendInv, [Next]_vars
  PROVE  ResendInv'
  <1>0. hpc \in [Handlers -> HandlerPCs] /\ NextPacket \in Nat
    BY WindowBounds DEF TypeInv, TypeOK, TimerTypeOK
  <1>1. CASE Timers
    <2>1. PICK h \in Handlers : TimerThread(h)
      BY <1>1 DEF Timers
    <2>2. UNCHANGED <<spc, apc>>
      BY <2>1 DEF TimerThread, TimerExpires, HandlerEntry, HandlerLock, HandlerResend,
         HandlerRestart, threadVars, ackedVars
    <2>3. UNCHANGED NextPacket
      BY <2>2, CountersQuiet DEF SendPacket, IncNextSeqNum, AckedCount
    <2>4. CASE HandlerLock(h)
      <3>1. /\ resend' = [i |-> base_idx, bidx |-> base_idx,
                          nseqnum |-> next_seq_num_idx]
            /\ hpc' = [hpc EXCEPT ![h] = "resend"]
            /\ ~packet_send_mutex
        BY <2>4 DEF HandlerLock
      <3>2. ~SenderHolds /\ \A g \in Handlers : hpc[g] # "resend"
        BY <3>1 DEF MutexInv, MutexHeld, HandlerHolds
      <3>3. SentCount = NextPacket
        BY <3>2, CounterValues DEF SenderHolds
      <3>4. base_idx = SeqNum(Base(a)) /\ next_seq_num_idx = SeqNum(NextPacket)
        BY DEF WindowInv, ChunkInv
      <3>5. /\ Base(a) \in 0..NextPacket /\ Base(a) \in Base(a)..NextPacket
            /\ NextPacket <= Base(a) + window_size
        BY <3>3, WindowBounds
      <3> DEFINE b == Base(a)
      <3>6. /\ b \in 0..NextPacket' /\ b \in b..NextPacket'
            /\ NextPacket' <= b + window_size
            /\ resend' = [i |-> SeqNum(b), bidx |-> SeqNum(b),
                          nseqnum |-> SeqNum(NextPacket')]
        BY <2>3, <3>1, <3>4, <3>5
      <3> HIDE DEF b
      <3>7. \E first \in 0..NextPacket' : \E r \in first..NextPacket' :
              /\ NextPacket' <= first + window_size
              /\ resend' = [i |-> SeqNum(r), bidx |-> SeqNum(first),
                            nseqnum |-> SeqNum(NextPacket')]
        BY <3>6
      <3> QED BY <3>7 DEF ResendInv, ResendAt
    <2>5. CASE HandlerResend(h)
      <3>1. hpc[h] = "resend"
        BY <2>5 DEF HandlerResend
      <3>2. \A g \in Handlers : hpc[g] = "resend" => g = h
        BY <3>1 DEF MutexInv, MutexExclusive, HandlerHolds
      <3>3. PICK first, r \in Nat :
              /\ ResendAt(first, r)
              /\ \/ /\ r = NextPacket
                    /\ hpc' = [hpc EXCEPT ![h] = "restart"]
                    /\ UNCHANGED <<data, resend>>
                 \/ /\ r < NextPacket
                    /\ data' = Transmit(data, r)
                    /\ resend' = [resend EXCEPT !.i = SeqNum(r + 1)]
                    /\ UNCHANGED hpc
        BY <2>5, ResendOne
      <3>4. CASE hpc' = [hpc EXCEPT ![h] = "restart"]
        <4>1. \A g \in Handlers : hpc'[g] # "resend"
          BY <1>0, <3>2, <3>4
        <4> QED BY <4>1 DEF ResendInv
      <3>5. CASE r < NextPacket /\ resend' = [resend EXCEPT !.i = SeqNum(r + 1)]
        <4>1. /\ first \in 0..NextPacket' /\ r + 1 \in first..NextPacket'
              /\ NextPacket' <= first + window_size
          BY <1>0, <2>3, <3>3, <3>5 DEF ResendAt
        <4>2. resend' = [i |-> SeqNum(r + 1), bidx |-> SeqNum(first),
                         nseqnum |-> SeqNum(NextPacket')]
          BY <2>3, <3>3, <3>5 DEF ResendAt
        <4> QED BY <4>1, <4>2 DEF ResendInv, ResendAt
      <3> QED BY <3>3, <3>4, <3>5
    <2>6. CASE HandlerRestart(h)
      <3>1. hpc[h] = "restart" /\ hpc' = [hpc EXCEPT ![h] = "idle"]
        BY <2>6 DEF HandlerRestart
      <3>2. \A g \in Handlers : hpc[g] = "resend" => g = h
        BY <3>1 DEF MutexInv, MutexExclusive, HandlerHolds
      <3>3. \A g \in Handlers : hpc'[g] # "resend"
        BY <1>0, <3>1, <3>2
      <3> QED BY <3>3 DEF ResendInv
    <2>7. CASE TimerExpires(h) \/ HandlerEntry(h)
      <3>1. UNCHANGED resend /\ \A g \in Handlers : hpc'[g] = "resend" => hpc[g] = "resend"
        BY <1>0, <2>7 DEF TimerExpires, HandlerEntry
      <3> QED BY <2>3, <3>1 DEF ResendInv, ResendAt
    <2> QED BY <2>1, <2>4, <2>5, <2>6, <2>7 DEF TimerThread
  <1>2. CASE ~Timers
    <2>1. UNCHANGED <<hpc, resend>>
      BY <1>2, Writers
    <2>2. CASE Sender /\ IncNextSeqNum
      <3>1. SenderHolds
        BY <2>2 DEF IncNextSeqNum, SenderHolds
      <3>2. \A h \in Handlers : hpc[h] # "resend"
        BY <3>1 DEF MutexInv, MutexExclusive, HandlerHolds
      <3> QED BY <2>1, <3>2 DEF ResendInv
    <2>3. CASE ~(Sender /\ IncNextSeqNum)
      <3>1. UNCHANGED NextPacket
        BY <2>3, CountersQuiet, CountersSend, AckedCountExact
      <3> QED BY <2>1, <3>1 DEF ResendInv, ResendAt
    <2> QED BY <2>2, <2>3
  <1> QED BY <1>1, <1>2

\* The server has accepted packets 0, 1, 2, ... of the file.
LEMMA InOrderStep ==
  ASSUME TypeInv, NEW a \in Nat, ChunkInv, WindowInv(a), DataInv, InOrderDelivery,
         [Next]_vars
  PROVE  InOrderDelivery'
  <1>1. CASE UNCHANGED delivered
    BY <1>1 DEF InOrderDelivery
  <1>2. CASE delivered' = Append(delivered, Len(delivered))
    BY <1>2, InOrderAppend
  <1> QED BY <1>1, <1>2, Writers, ServerStep

-----------------------------------------------------------------------------
(* The invariant and what it says.                                         *)

\* A new ACK is received while ackedPacket is idle: it is no older than the one
\* before base_idx, and the ACKs behind it are no older than it is.
LEMMA ReceiveAckStep ==
  ASSUME KeepsOrder, TypeInv, NEW a \in Nat, ChunkInv, WindowInv(a), AckedInv(a),
         DataInv, AcksInv(a), Receiver /\ ReceiveAck, [Next]_vars
  PROVE  \E b \in 0..Len(delivered') : WindowInv(b)' /\ AckedInv(b)' /\ AcksInv(b)'
  <1>1. PICK i \in Deliverable(acks) :
          /\ acks[i] # Empty
          /\ acks' = RemoveAt(acks, i)
          /\ ackedPacket(SeqNum(acks[i]))
    BY DEF ReceiveAck
  <1>2. /\ i = 1 /\ Len(acks) > 0 /\ 1 \in 1..Len(acks)
        /\ acks \in Seq(Nat \cup {Empty})
    BY <1>1, FirstOnly, DeliverableType DEF TypeInv, TypeOK, NetworkTypeOK
  <1>3. PICK b \in Nat : b = acks[1]
    BY <1>1, <1>2
  <1>4. /\ b # Empty /\ acks' = RemoveAt(acks, 1)
        /\ apc = "idle" /\ apc' = "check" /\ aseq' = SeqNum(b)
        /\ UNCHANGED <<spc, base_idx, last_acked_packet, delivered>>
    BY <1>1, <1>2, <1>3 DEF ackedPacket, ReceiveAck, threadVars, windowVars, countVars
  <1>5. UNCHANGED <<SentCount, ConfirmedCount>>
    BY <1>4, CountersQuiet DEF SendPacket, IncNextSeqNum, AckedCount
  <1>6. Path(acks, ConfirmedCount - 1, Len(delivered), 0)
    BY <1>4 DEF AcksInv, OldestAck, Acking, BaseMoved
  <1>7. b >= ConfirmedCount - 1 /\ b < Len(delivered)
    BY <1>2, <1>3, <1>4, <1>6 DEF Path
  <1>8. /\ ~BaseMoved /\ ~BaseMoved' /\ Acking'
        /\ Base(a) = ConfirmedCount
    BY <1>4 DEF BaseMoved, Acking, Base
  <1>9. Path(acks', b - 0, Len(delivered), 0)
    <2>1. ConfirmedCount - 1 \in Int /\ Len(delivered) \in Int /\ 0 \in Nat
      BY WindowBounds
    <2> QED BY <1>2, <1>3, <1>4, <1>6, <2>1, PathRemove
  <1>10. b \in 0..Len(delivered')
    BY <1>4, <1>7, WindowBounds
  <1>11. Base(b)' = ConfirmedCount
    BY <1>5, <1>8 DEF Base
  <1>12. WindowInv(b)'
    BY <1>4, <1>5, <1>8, <1>11 DEF WindowInv
  <1>13. AckedInv(b)'
    BY <1>4, <1>5, <1>7, <1>8 DEF AckedInv
  <1>14. AcksInv(b)'
    <2>1. b - 0 = b
      OBVIOUS
    <2>2. OldestAck(b)' = b
      BY <1>8 DEF OldestAck
    <2> QED BY <1>4, <1>9, <2>1, <2>2 DEF AcksInv, Path
  <1> QED BY <1>10, <1>12, <1>13, <1>14

\* The invariant holds when Client::start has launched the threads.
LEMMA GoBackNInit == Init => GoBackNInv
  <1> SUFFICES ASSUME Init PROVE TransferInv(0) /\ 0 \in 0..Len(delivered)
    BY DEF GoBackNInv
  <1> USE DEF Init, NetworkInit, SenderInit, ReceiverInit
  <1>0. SeqNum(0) = 0 /\ window_size \in Nat /\ window_size >= 1
    BY SeqNumSmall, SeqNumbersAssumption
  <1>1. NextPacket = 0 /\ SentCount = 0 /\ ConfirmedCount = 0
    BY ClientSenderAssumption DEF NextPacket, SentCount, ConfirmedCount
  <1>2. ~BaseMoved /\ ~Acking /\ Base(0) = 0
    BY <1>1 DEF BaseMoved, Acking, Base
  <1>3. ChunkInv
    BY <1>0, <1>1 DEF ChunkInv, Sending, Waiting, BetweenChunks
  <1>4. WindowInv(0)
    BY <1>0, <1>1, <1>2 DEF WindowInv
  <1>5. AckedInv(0)
    BY <1>2 DEF AckedInv
  <1>6. DataInv /\ AcksInv(0)
    BY DEF DataInv, AcksInv, Path
  <1>7. SlotInv
    BY <1>1 DEF SlotInv, NoPacket
  <1>8. ResendInv /\ InOrderDelivery
    BY <1>1 DEF ResendInv, InOrderDelivery
  <1> QED BY <1>3, <1>4, <1>5, <1>6, <1>7, <1>8 DEF TransferInv

\* Every step of every thread, of the network and of the server preserves it.
LEMMA GoBackNStep ==
  ASSUME KeepsOrder
  PROVE  TypeInv /\ MutexInv /\ GoBackNInv /\ [Next]_vars => GoBackNInv'
  <1> SUFFICES ASSUME TypeInv, MutexInv, GoBackNInv, [Next]_vars PROVE GoBackNInv'
    OBVIOUS
  <1>1. PICK a \in 0..Len(delivered) : TransferInv(a)
    BY DEF GoBackNInv
  <1>2. /\ ChunkInv /\ WindowInv(a) /\ AckedInv(a) /\ DataInv /\ AcksInv(a)
        /\ SlotInv /\ ResendInv /\ InOrderDelivery /\ a \in Nat
    BY <1>1 DEF TransferInv
  <1>3. ChunkInv' /\ DataInv' /\ SlotInv' /\ ResendInv' /\ InOrderDelivery'
    BY <1>2, ChunkStep, DataStep, SlotStep, ResendStep, InOrderStep
  <1>4. CASE Receiver /\ ReceiveAck
    BY <1>2, <1>3, <1>4, ReceiveAckStep DEF GoBackNInv, TransferInv
  <1>5. CASE ~(Receiver /\ ReceiveAck)
    <2>1. WindowInv(a)' /\ AckedInv(a)' /\ AcksInv(a)'
      BY <1>2, <1>5, WindowStep, AckedStep, AcksStep
    <2>2. a \in 0..Len(delivered')
      <3>1. Len(delivered') \in Nat /\ Len(delivered') >= Len(delivered)
        BY <1>2, Writers, WindowBounds, ServerStep
      <3> QED BY <1>1, <1>2, <3>1, WindowBounds
    <2> QED BY <1>3, <2>1, <2>2 DEF GoBackNInv, TransferInv
  <1> QED BY <1>4, <1>5

\* The invariant with the ones it rests on.
ClientInv == TypeInv /\ MutexInv /\ GoBackNInv

\* On paths that keep their order it holds for ever.
LEMMA ClientInvariant ==
  ASSUME KeepsOrder
  PROVE  Spec => []ClientInv
  <1>1. Init => ClientInv
    BY TypeInit, GoBackNInit DEF ClientInv, Init, SenderInit, MutexInv, MutexHeld,
       MutexExclusive, SenderHolds, HandlerHolds
  <1>2. ClientInv /\ [Next]_vars => ClientInv'
    BY TypeStep, MutexStep, GoBackNStep DEF ClientInv
  <1> QED BY <1>1, <1>2, PTL DEF Spec

\* What the invariant says in a state, for the ACK that ackedPacket works on.
LEMMA Unfold ==
  ASSUME ClientInv
  PROVE  /\ TypeInv /\ MutexInv /\ ChunkInv /\ DataInv /\ SlotInv /\ ResendInv
         /\ InOrderDelivery
         /\ \E a \in Nat : WindowInv(a) /\ AckedInv(a)
  BY DEF ClientInv, GoBackNInv, TransferInv

\* sendPacketReliable is reliable: on paths that lose and repeat datagrams but keep
\* their order, the server accepts packet 0, 1, 2, ... of the file in order, each
\* once, for every file, ring, window, and number of timer threads that resend.
THEOREM DeliversInOrder ==
  ASSUME KeepsOrder
  PROVE  Spec => []InOrderDelivery
  <1>1. ClientInv => InOrderDelivery
    BY Unfold
  <1> QED BY <1>1, ClientInvariant, PTL

\* The sender thread is never more than window_size packets ahead of the server,
\* although canAdvance reads a base_idx that ackedPacket moves under another mutex.
THEOREM KeepsWindow ==
  ASSUME KeepsOrder
  PROVE  Spec => []WindowRespected
  <1>1. ClientInv => WindowRespected
    BY Unfold, WindowBounds DEF WindowRespected
  <1> QED BY <1>1, ClientInvariant, PTL

\* acked_count counts accepted packets only, and never passes the number of
\* packets of the chunk, which sendChunk's wait compares it with by ==.
THEOREM ConfirmsDelivered ==
  ASSUME KeepsOrder
  PROVE  Spec => []ConfirmedWasDelivered
  <1>1. ClientInv => ConfirmedWasDelivered
    <2> SUFFICES ASSUME ClientInv PROVE ConfirmedWasDelivered
      OBVIOUS
    <2>1. /\ TypeInv /\ ChunkInv
          /\ \E a \in Nat : WindowInv(a) /\ AckedInv(a)
      BY Unfold
    <2>2. ConfirmedCount <= Len(delivered) /\ ConfirmedCount <= SentCount
      BY <2>1, WindowBounds
    <2>3. ASSUME chunk_index > 0 PROVE acked_count <= chunk_packets_qty
      <3>1. chunk_index # 0 /\ acked_count \in Nat
        BY <2>1, <2>3 DEF TypeInv, TypeOK, ThreadTypeOK, CountTypeOK
      <3>2. CASE BetweenChunks
        BY <2>1, <3>1, <3>2, ChunkBounds DEF ChunkInv
      <3>3. CASE ~BetweenChunks
        BY <2>1, <2>2, <3>1, <3>3, ChunkBounds, CounterValues
      <3> QED BY <3>2, <3>3
    <2> QED BY <2>2, <2>3 DEF ConfirmedWasDelivered
  <1> QED BY <1>1, ClientInvariant, PTL

\* The packet ackedPacket marks, after it has let the sender reuse slots, is one
\* the server has.
THEOREM MarksDelivered ==
  ASSUME KeepsOrder
  PROVE  Spec => []AckedWasDelivered
  <1>1. ClientInv => AckedWasDelivered
    <2> SUFFICES ASSUME ClientInv, NEW s \in SeqNums, window_map[s].acked
                 PROVE  window_map[s].pkt < Len(delivered)
      BY DEF AckedWasDelivered
    <2>1. TypeInv /\ ChunkInv /\ SlotInv /\ \E a \in Nat : WindowInv(a)
      BY Unfold
    <2>2. window_map[s].pkt < ConfirmedCount /\ window_map[s].pkt \in Int
      BY <2>1 DEF SlotInv, TypeInv, TypeOK, WindowTypeOK
    <2> QED BY <2>1, <2>2, WindowBounds
  <1> QED BY <1>1, ClientInvariant, PTL

\* ackedPacket looks window_map up without packet_send_mutex, and never the slot
\* whose packet sendPacketReliable is about to replace.
THEOREM SlotsNotRaced ==
  ASSUME KeepsOrder
  PROVE  Spec => []NoSlotRace
  <1>1. ClientInv => NoSlotRace
    <2> SUFFICES ASSUME ClientInv, spc = "send", apc \in {"check", "count"},
                        aseq = next_seq_num_idx
                 PROVE  FALSE
      BY DEF NoSlotRace
    <2>1. PICK a \in Nat : WindowInv(a) /\ AckedInv(a)
      BY Unfold
    <2>2. TypeInv /\ ChunkInv
      BY Unfold
    <2>3. SentCount = NextPacket /\ next_seq_num_idx = SeqNum(NextPacket)
      BY <2>2, CounterValues DEF ChunkInv
    <2>4. aseq = SeqNum(a) /\ a < Len(delivered)
      BY <2>1 DEF AckedInv, Acking, BaseMoved
    <2>5. SentCount < Base(a) + window_size
      BY <2>1 DEF WindowInv
    <2>6. Base(a) <= a + 1
      <3>1. \/ Base(a) = a + 1
            \/ Base(a) = ConfirmedCount /\ a >= ConfirmedCount - 1
        BY <2>1 DEF Base, AckedInv, BaseMoved
      <3> QED BY <2>1, <2>2, <3>1, WindowBounds
    <2>7. a < NextPacket /\ NextPacket - a <= max_seq_num_b10
      BY <2>1, <2>2, <2>3, <2>4, <2>5, <2>6, WindowBounds
    <2>8. a = NextPacket
      <3>1. NextPacket \in Nat /\ a <= NextPacket /\ SeqNum(a) = SeqNum(NextPacket)
        BY <2>1, <2>2, <2>3, <2>4, <2>7, WindowBounds
      <3> QED BY <2>7, <3>1, SeqNumDistinct
    <2> QED BY <2>1, <2>2, <2>7, <2>8, WindowBounds
  <1> QED BY <1>1, ClientInvariant, PTL

\* Whatever timeoutHandler sends again, with a copy of base_idx that ackedPacket
\* may have moved since, is one of the last window_size packets.
THEOREM ResendsWindow ==
  ASSUME KeepsOrder
  PROVE  Spec => []ResendWithinWindow
  <1>1. ClientInv => ResendWithinWindow
    <2> SUFFICES ASSUME ClientInv, NEW h \in Handlers, hpc[h] = "resend",
                        ResendMore(resend.i, resend.bidx, resend.nseqnum)
                 PROVE  /\ window_map[resend.i].pkt \in 0..(SentCount - 1)
                        /\ window_map[resend.i].pkt >= SentCount - window_size
      BY DEF ResendWithinWindow
    <2>1. PICK a \in Nat : WindowInv(a)
      BY Unfold
    <2>2. TypeInv /\ MutexInv /\ ChunkInv /\ SlotInv /\ ResendInv
      BY Unfold
    <2>3. PICK first, r \in Nat :
            /\ ResendAt(first, r)
            /\ ResendMore(resend.i, resend.bidx, resend.nseqnum) <=> r < NextPacket
            /\ r < NextPacket => /\ window_map[resend.i].pkt = r
                                 /\ window_map[resend.i] # NoPacket
      BY <2>1, <2>2, ResendPosition
    <2>4. SentCount = NextPacket
      BY <2>1, <2>2, ResendPosition
    <2> QED BY <2>1, <2>2, <2>3, <2>4, WindowBounds DEF ResendAt
  <1> QED BY <1>1, ClientInvariant, PTL

\* A slot of window_map is overwritten only when the server has the packet in it.
THEOREM ReusesDelivered ==
  ASSUME KeepsOrder
  PROVE  Spec => SlotReuse
  <1>1. ClientInv /\ [Next]_vars
          => [\A s \in SeqNums : window_map'[s].pkt # window_map[s].pkt
                => window_map[s].pkt < Len(delivered)]_vars
    <2> SUFFICES ASSUME ClientInv, [Next]_vars, NEW s \in SeqNums,
                        window_map'[s].pkt # window_map[s].pkt
                 PROVE  window_map[s].pkt < Len(delivered)
      OBVIOUS
    <2>0. /\ TypeInv /\ ChunkInv /\ SlotInv
          /\ window_map \in [SeqNums -> [pkt : Nat \cup {-1}, acked : BOOLEAN]]
      BY Unfold DEF TypeInv, TypeOK, WindowTypeOK
    <2>1. PICK a \in Nat : WindowInv(a)
      BY Unfold
    <2>2. ~AckedCount
      BY <2>0 DEF AckedCount, TypeInv, TypeOK
    <2>3. SendPacket
      BY <2>2, Writers
    <2>4. s = SeqNum(SentCount)
      BY <2>0, <2>3, CountersSend DEF SendPacket, ChunkInv
    <2>5. CASE window_map[s].pkt = -1
      BY <2>0, <2>1, <2>5, WindowBounds
    <2>6. CASE window_map[s].pkt # -1
      <3> DEFINE p == window_map[s].pkt
      <3>1. p \in Nat /\ p < SentCount /\ SeqNum(p) = SeqNum(SentCount)
        BY <2>0, <2>4, <2>6 DEF SlotInv
      <3> HIDE DEF p
      <3>2. ~(SentCount - p <= max_seq_num_b10)
        BY <2>0, <2>1, <3>1, WindowBounds, SeqNumDistinct
      <3> QED BY <2>0, <2>1, <3>1, <3>2, WindowBounds DEF p
    <2> QED BY <2>5, <2>6
  <1> QED BY <1>1, ClientInvariant, PTL DEF Spec, SlotReuse

\* timeoutHandler leaves its loop at next_seq_num_idx and nowhere else, also when
\* the window wraps around the ring: it resends all that is in flight.
THEOREM ResendsAll ==
  ASSUME KeepsOrder
  PROVE  Spec => ResendReachesNext
  <1>1. ClientInv /\ [Next]_vars
          => [\A h \in Handlers : hpc[h] = "resend" /\ hpc'[h] = "restart"
                => resend.i = resend.nseqnum]_vars
    <2> SUFFICES ASSUME ClientInv, [Next]_vars, NEW h \in Handlers,
                        hpc[h] = "resend", hpc'[h] = "restart"
                 PROVE  resend.i = resend.nseqnum
      OBVIOUS
    <2>0. /\ TypeInv /\ MutexInv /\ ChunkInv /\ SlotInv /\ ResendInv
      BY Unfold
    <2>1. PICK a \in Nat : WindowInv(a)
      BY Unfold
    <2>3. HandlerResend(h)
      BY <2>0, LeavesLoop
    <2>4. PICK first, r \in Nat : ResendAt(first, r) /\ (r = NextPacket \/ UNCHANGED hpc)
      BY <2>0, <2>1, <2>3, ResendOne
    <2>5. r = NextPacket
      BY <2>4
    <2> QED BY <2>4, <2>5 DEF ResendAt
  <1> QED BY <1>1, ClientInvariant, PTL DEF Spec, ResendReachesNext

\* The client implements ReliableTransfer: whatever its threads, the ring and the
\* network do shows there as a delivery of the next packet, a confirmation of
\* packets the server has, the end of the transfer at the end of a chunk with
\* everything delivered confirmed, or nothing.
THEOREM RefinesTransfer ==
  ASSUME KeepsOrder
  PROVE  Spec => ImplementsTransfer
  <1>1. Init => Transfer!Init
    BY ClientSenderAssumption DEF Init, NetworkInit, SenderInit, Transfer!Init,
       ConfirmedCount
  <1>2. ClientInv /\ [Next]_vars => [Transfer!Next]_(Transfer!transferVars)
    <2> SUFFICES ASSUME ClientInv, [Next]_vars
                 PROVE  \/ Transfer!Next
                        \/ UNCHANGED <<delivered, ConfirmedCount, finished_sending_data>>
      BY DEF Transfer!transferVars
    <2>0. /\ TypeInv /\ ChunkInv /\ DataInv /\ finished_sending_data \in BOOLEAN
      BY Unfold DEF TypeInv, TypeOK, CountTypeOK
    <2>1. PICK a \in Nat : WindowInv(a) /\ AckedInv(a)
      BY Unfold
    <2>2. BetweenChunks => ConfirmedCount = Len(delivered) /\ Len(delivered) = SentCount
      BY <2>0, <2>1, CounterValues, WindowBounds
    <2>3. CASE Environment /\ ServerReceive
      <3>1. UNCHANGED <<spc, apc, finished_sending_data>>
        BY <2>3 DEF Environment, senderVars, threadVars, ackedVars, countVars
      <3>2. UNCHANGED ConfirmedCount
        BY <2>0, <3>1, CountersQuiet DEF SendPacket, IncNextSeqNum, AckedCount
      <3>3. \/ UNCHANGED delivered
            \/ /\ Len(delivered) < SentCount
               /\ delivered' = Append(delivered, Len(delivered))
        BY <2>0, <2>1, <2>3, ServerStep
      <3>4. ASSUME Len(delivered) < SentCount
            PROVE  ~finished_sending_data /\ Len(delivered) < PacketsIn[ChunkCount]
        <4>1. ~finished_sending_data
          BY <2>0, <2>1, <2>2, <3>4, WindowBounds DEF ChunkInv
        <4>2. chunk_index # 0
          BY <2>0, <2>1, <3>4, CounterValues, WindowBounds, ClientSenderAssumption
        <4>3. /\ SentCount <= PacketsIn[chunk_index]
              /\ PacketsIn[chunk_index] <= PacketsIn[ChunkCount]
              /\ PacketsIn[chunk_index] \in Nat /\ PacketsIn[ChunkCount] \in Nat
          BY <2>0, <4>2, CounterValues, ChunkBounds, ClientSenderAssumption
        <4> QED BY <2>0, <2>1, <3>4, <4>1, <4>3, WindowBounds
      <3> QED BY <3>1, <3>2, <3>3, <3>4 DEF Transfer!Next, Transfer!Deliver
    <2>4. CASE AckCallback /\ AckedCount
      <3>1. UNCHANGED <<delivered, finished_sending_data>> /\ BaseMoved
        BY <2>4 DEF AckedCount, networkVars, BaseMoved
      <3>2. ~finished_sending_data
        BY <2>0, <2>1, <3>1, CountsInChunk DEF ChunkInv
      <3>3. /\ ConfirmedCount' = a + 1 /\ ConfirmedCount <= a
            /\ a + 1 <= Len(delivered)
        BY <2>0, <2>1, <2>4, AckedCountExact, WindowBounds
      <3>4. ConfirmedCount' \in (ConfirmedCount + 1)..Len(delivered)
        BY <2>0, <2>1, <3>3, WindowBounds
      <3> QED BY <3>1, <3>2, <3>4 DEF Transfer!Next, Transfer!Confirm
    <2>5. CASE Sender /\ FinishSending
      <3>1. /\ spc = "finish" /\ spc' = "endConnection"
            /\ finished_sending_data' = TRUE /\ UNCHANGED <<delivered, apc>>
        BY <2>5 DEF FinishSending, networkVars, ackedVars
      <3>2. UNCHANGED ConfirmedCount
        BY <2>0, <3>1, CountersQuiet DEF SendPacket, IncNextSeqNum, AckedCount
      <3>3. ~finished_sending_data /\ BetweenChunks
        BY <2>0, <3>1 DEF ChunkInv, BetweenChunks
      <3>4. /\ ConfirmedCount = Len(delivered)
            /\ ConfirmedCount \in {PacketsIn[c] : c \in 0..ChunkCount}
        <4>1. chunk_index \in 0..ChunkCount
          BY <2>0 DEF TypeInv, TypeOK, ThreadTypeOK
        <4> QED BY <2>0, <2>2, <3>3, <4>1, CounterValues
      <3> QED BY <3>1, <3>2, <3>3, <3>4 DEF Transfer!Next, Transfer!Finish
    <2>6. CASE ~ \/ Environment /\ ServerReceive
                 \/ AckCallback /\ AckedCount
                 \/ Sender /\ FinishSending
      <3>1. UNCHANGED <<delivered, finished_sending_data>>
        BY <2>6, Writers
      <3>2. UNCHANGED ConfirmedCount
        BY <2>0, <2>6, CountersQuiet, CountersSend, CountersInc
      <3> QED BY <3>1, <3>2
    <2> QED BY <2>3, <2>4, <2>5, <2>6
  <1> QED
    BY <1>1, <1>2, ClientInvariant, PTL DEF Spec, ImplementsTransfer, Transfer!Spec
=============================================================================
