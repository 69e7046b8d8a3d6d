---------------------------- MODULE ClientSender ----------------------------
(***************************************************************************)
(* ClientSender: the Go-Back-N sender of the client.                       *)
(*                                                                         *)
(* Three kinds of threads run its code and share its fields:               *)
(*   - the sender thread (threadFun, sendChunk, sendPacketReliable), spc;  *)
(*   - the timer threads (timeoutHandler), one per expired timer, hpc;     *)
(*   - the receiver thread, inside ackedPacket, apc.                       *)
(* A step is what one thread does between two points where another thread  *)
(* can observe or change what it uses: a critical section, one access to a *)
(* field guarded by its own mutex, one notify, one datagram.               *)
(*                                                                         *)
(* The file is abstracted to how many packets generatePacketsData splits   *)
(* each of its chunks into, given as the running total PacketsIn.  The     *)
(* timer is abstracted to whether the current Timer object is absent,      *)
(* waiting or stopped; module Timer shows that this is what it implements. *)
(***************************************************************************)
EXTENDS Network

CONSTANTS
  ChunkCount,  \* chunks of the file
  PacketsIn,   \* PacketsIn[c]: packets in the first c chunks
  Handlers     \* bound: timer threads that can be in timeoutHandler at once

\* Every chunk has a packet (ChunkYieldsPackets of module DataProcessor).
ASSUME ClientSenderAssumption ==
  /\ ChunkCount \in Nat
  /\ PacketsIn \in [0..ChunkCount -> Nat]
  /\ PacketsIn[0] = 0
  /\ \A c, d \in 0..ChunkCount : c < d => PacketsIn[c] < PacketsIn[d]

VARIABLES
  spc,                   \* where the sender thread is
  chunk_index,           \* chunks read so far
  packet_idx,            \* packets of the current chunk handed to the network
  base_idx,              \* oldest sequence number not acknowledged
  next_seq_num_idx,      \* next sequence number to use
  window_map,            \* packets by sequence number
  acked_count,           \* packets of the current chunk acknowledged
  last_acked_packet,     \* sequence number of the last ACK applied
  finished_sending_data,
  packet_send_mutex,     \* TRUE when held
  timeoutTimer,          \* "null", "armed" or "stopped"
  hpc,                   \* where each timer thread is in timeoutHandler
  resend,                \* locals of the timeoutHandler that holds the mutex
  apc,                   \* where the receiver thread is in ackedPacket
  aseq,                  \* its argument seqnum
  crash                  \* what null pointer was dereferenced, if any

threadVars == <<spc, chunk_index, packet_idx>>
windowVars == <<base_idx, next_seq_num_idx, window_map>>
countVars  == <<acked_count, last_acked_packet, finished_sending_data>>
timerVars  == <<timeoutTimer, hpc, resend>>
ackedVars  == <<apc, aseq>>
senderVars == <<threadVars, windowVars, countVars, packet_send_mutex,
                timerVars, ackedVars, crash>>

\* splittedData.size(): packets of the current chunk.
chunk_packets_qty == PacketsIn[chunk_index] - PacketsIn[chunk_index - 1]

\* A slot of window_map: a null pointer or a Packet.
NoPacket == [pkt |-> -1, acked |-> FALSE]
NewPacket(k) == [pkt |-> k, acked |-> FALSE]

NoResend == [i |-> 0, bidx |-> 0, nseqnum |-> 0]

SenderInit ==
  /\ spc = "readChunk"
  /\ chunk_index = 0
  /\ packet_idx = 0
  /\ base_idx = 0
  /\ next_seq_num_idx = 0
  /\ window_map = [s \in SeqNums |-> NoPacket]
  /\ acked_count = 0
  /\ last_acked_packet = -1
  /\ finished_sending_data = FALSE
  /\ packet_send_mutex = FALSE
  /\ timeoutTimer = "null"
  /\ hpc = [h \in Handlers |-> "idle"]
  /\ resend = NoResend
  /\ apc = "idle"
  /\ aseq = 0
  /\ crash = "none"

-----------------------------------------------------------------------------
(* The sender thread.                                                      *)

\* It goes from one step to the next; the second form changes nothing else.
SenderGoes(from, to) ==
  /\ spc = from /\ spc' = to
  /\ UNCHANGED <<chunk_index, packet_idx>>
SenderJustGoes(from, to) ==
  /\ SenderGoes(from, to)
  /\ UNCHANGED <<networkVars, windowVars, countVars, packet_send_mutex, timerVars,
                 ackedVars, crash>>

\* Index in the file of the packet the sender thread is about to send.
CurrentPacket == PacketsIn[chunk_index - 1] + packet_idx

\* sendChunk, first half: no chunk left ends the loop of threadFun.
ReadChunk ==
  /\ spc = "readChunk"
  /\ IF chunk_index = ChunkCount
     THEN /\ spc' = "finish"
          /\ UNCHANGED <<chunk_index, packet_idx>>
     ELSE /\ spc' = "lock"
          /\ chunk_index' = chunk_index + 1
          /\ packet_idx' = 0
  /\ UNCHANGED <<networkVars, windowVars, countVars, packet_send_mutex,
                 timerVars, ackedVars, crash>>

\* Mutant: packet_send_mutex does not exclude.
MutexFreeAlways == TRUE

MutexFree == ~packet_send_mutex

\* sendPacketReliable: take packet_send_mutex, on entry or on wake-up.
LockForSend ==
  /\ MutexFree
  /\ SenderGoes("lock", "check")
  /\ packet_send_mutex' = TRUE
  /\ UNCHANGED <<networkVars, windowVars, countVars, timerVars, ackedVars, crash>>

\* The predicate of packet_send_cv.wait.  It reads base_idx, which ackedPacket
\* writes without holding packet_send_mutex.
CheckAdvance ==
  SenderJustGoes("check", IF canAdvance(base_idx, next_seq_num_idx) THEN "send"
                          ELSE "block")

\* The predicate was false: release the mutex and sleep.
BlockOnPacket ==
  /\ SenderGoes("block", "packetWait")
  /\ packet_send_mutex' = FALSE
  /\ UNCHANGED <<networkVars, windowVars, countVars, timerVars, ackedVars, crash>>

\* Store the packet in window_map and send it for the first time.
SendPacket ==
  /\ SenderGoes("send", "compare")
  /\ window_map' = [window_map EXCEPT ![next_seq_num_idx] = NewPacket(CurrentPacket)]
  /\ data' = Transmit(data, CurrentPacket)
  /\ UNCHANGED <<acks, delivered, server_open, base_idx, next_seq_num_idx, countVars,
                 packet_send_mutex, timerVars, ackedVars, crash>>

\* Is this the only packet in flight?
CompareForTimer ==
  SenderJustGoes("compare", IF base_idx = next_seq_num_idx THEN "startTimer" ELSE "inc")

\* startTimeoutTimer: stop the current Timer and start another one.
StartTimerOnSend ==
  /\ SenderGoes("startTimer", "inc")
  /\ timeoutTimer' = "armed"
  /\ UNCHANGED <<networkVars, windowVars, countVars, packet_send_mutex, hpc, resend,
                 ackedVars, crash>>

\* incNextSeqNum, notify packet_send_cv (nobody else waits on it), unlock, and
\* the next iteration of sendChunk's loop.
IncNextSeqNum ==
  /\ spc = "inc"
  /\ next_seq_num_idx' = RingSucc(next_seq_num_idx)
  /\ packet_send_mutex' = FALSE
  /\ packet_idx' = packet_idx + 1
  /\ spc' = IF packet_idx + 1 < chunk_packets_qty THEN "lock" ELSE "chunkCheck"
  /\ UNCHANGED <<networkVars, chunk_index, base_idx, window_map, countVars,
                 timerVars, ackedVars, crash>>

\* Mutant: the chunk is done when its packets have been sent.
ChunkAckedAlways == TRUE

ChunkAcked == acked_count = chunk_packets_qty

\* The predicate of chunk_sent_cv.wait: has all of the chunk been acknowledged?
CheckChunk == SenderJustGoes("chunkCheck", IF ChunkAcked THEN "reset" ELSE "chunkBlock")

BlockOnChunk == SenderJustGoes("chunkBlock", "chunkWait")

\* Mutant: acked_count is not reset.
resetChunkVarsMissing == UNCHANGED acked_count

resetChunkVars == acked_count' = 0

\* cleanTimers, resetChunkVars, and the end of sendChunk, which returns no
\* value: threadFun's loop condition reads whatever is in the register.
ResetChunkVars ==
  /\ \E next \in {"readChunk", "finish"} : SenderGoes("reset", next)
  /\ resetChunkVars
  /\ UNCHANGED <<networkVars, windowVars, last_acked_packet, finished_sending_data,
                 packet_send_mutex, timerVars, ackedVars, crash>>

\* Mutant: finished_sending_data is not set.
setFinishedMissing == UNCHANGED finished_sending_data

setFinished == finished_sending_data' = TRUE

\* threadFun after the loop: finished_sending_data, the closing datagram, the
\* timer, and stopReceiver (which does not interrupt a blocking receive_from).
FinishSending ==
  /\ SenderGoes("finish", "endConnection")
  /\ setFinished
  /\ UNCHANGED <<networkVars, windowVars, acked_count, last_acked_packet,
                 packet_send_mutex, timerVars, ackedVars, crash>>

EndConnection ==
  /\ SenderGoes("endConnection", "stopTimer")
  /\ data' = Transmit(data, Empty)
  /\ UNCHANGED <<acks, delivered, server_open, windowVars, countVars,
                 packet_send_mutex, timerVars, ackedVars, crash>>

StopTimerAtEnd ==
  /\ SenderGoes("stopTimer", "stopReceiver")
  /\ timeoutTimer' = IF timeoutTimer = "null" THEN "null" ELSE "stopped"
  /\ UNCHANGED <<networkVars, windowVars, countVars, packet_send_mutex, hpc, resend,
                 ackedVars, crash>>

StopReceiver == SenderJustGoes("stopReceiver", "done")

\* A condition variable may wake its waiter without a notify.
SpuriousWakeup ==
  SenderJustGoes("packetWait", "lock") \/ SenderJustGoes("chunkWait", "chunkCheck")

SenderThread ==
  \/ ReadChunk \/ LockForSend \/ CheckAdvance \/ BlockOnPacket
  \/ SendPacket \/ CompareForTimer \/ StartTimerOnSend \/ IncNextSeqNum
  \/ CheckChunk \/ BlockOnChunk \/ ResetChunkVars
  \/ FinishSending \/ EndConnection \/ StopTimerAtEnd \/ StopReceiver

-----------------------------------------------------------------------------
(* The timer threads.                                                      *)

\* Mutant: the thread does not look whether its Timer was stopped.
MayExpireStopped == timeoutTimer # "null"

MayExpire == timeoutTimer = "armed"

\* The current Timer expires: it marks itself stopped and its thread calls
\* timeoutHandler.
TimerExpires(h) ==
  /\ MayExpire
  /\ hpc[h] = "idle"
  /\ timeoutTimer' = "stopped"
  /\ hpc' = [hpc EXCEPT ![h] = "entry"]
  /\ UNCHANGED <<networkVars, threadVars, windowVars, countVars,
                 packet_send_mutex, resend, ackedVars, crash>>

\* timeoutHandler gives up when the transfer has finished.
HandlerEntry(h) ==
  /\ hpc[h] = "entry"
  /\ hpc' = [hpc EXCEPT ![h] = IF finished_sending_data THEN "idle" ELSE "lock"]
  /\ UNCHANGED <<networkVars, threadVars, windowVars, countVars,
                 packet_send_mutex, timeoutTimer, resend, ackedVars, crash>>

\* Take packet_send_mutex and read the window once.
HandlerLock(h) ==
  /\ hpc[h] = "lock"
  /\ MutexFree
  /\ packet_send_mutex' = TRUE
  /\ resend' = [i |-> base_idx, bidx |-> base_idx, nseqnum |-> next_seq_num_idx]
  /\ hpc' = [hpc EXCEPT ![h] = "resend"]
  /\ UNCHANGED <<networkVars, threadVars, windowVars, countVars, timeoutTimer,
                 ackedVars, crash>>

\* One iteration of the resend loop, or its exit.
HandlerResend(h) ==
  /\ hpc[h] = "resend"
  /\ IF ~ResendMore(resend.i, resend.bidx, resend.nseqnum)
     THEN /\ hpc' = [hpc EXCEPT ![h] = "restart"]
          /\ UNCHANGED <<data, resend, crash>>
     ELSE IF window_map[resend.i] = NoPacket
     THEN /\ crash' = "window_map"
          /\ UNCHANGED <<data, resend, hpc>>
     ELSE /\ data' = Transmit(data, window_map[resend.i].pkt)
          /\ resend' = [resend EXCEPT !.i = RingSucc(resend.i)]
          /\ UNCHANGED <<hpc, crash>>
  /\ UNCHANGED <<acks, delivered, server_open, threadVars, windowVars, countVars,
                 packet_send_mutex, timeoutTimer, ackedVars>>

\* startTimeoutTimer and unlock; the timer thread ends.
HandlerRestart(h) ==
  /\ hpc[h] = "restart"
  /\ timeoutTimer' = "armed"
  /\ packet_send_mutex' = FALSE
  /\ resend' = NoResend
  /\ hpc' = [hpc EXCEPT ![h] = "idle"]
  /\ UNCHANGED <<networkVars, threadVars, windowVars, countVars, ackedVars, crash>>

TimerThread(h) ==
  \/ TimerExpires(h) \/ HandlerEntry(h) \/ HandlerLock(h)
  \/ HandlerResend(h) \/ HandlerRestart(h)

-----------------------------------------------------------------------------
(* ackedPacket, on the receiver thread.                                    *)

\* The call: cleanTimers only joins threads that have ended.
ackedPacket(seqnum) ==
  /\ apc = "idle"
  /\ apc' = "check"
  /\ aseq' = seqnum

\* It returns; its argument is forgotten.
ackedPacketReturns ==
  /\ apc' = "idle"
  /\ aseq' = 0

\* First critical section of ackcount_mutex.  After the transfer has finished
\* every ACK is answered by another closing datagram; an ACK of a packet that
\* was acknowledged before is ignored.
AckedCheck ==
  /\ apc = "check"
  /\ IF finished_sending_data
     THEN /\ data' = Transmit(data, Empty)
          /\ ackedPacketReturns
          /\ UNCHANGED crash
     ELSE IF window_map[aseq] = NoPacket
     THEN /\ crash' = "window_map"
          /\ UNCHANGED <<data, ackedVars>>
     ELSE /\ IF window_map[aseq].acked THEN ackedPacketReturns
             ELSE apc' = "setBase" /\ UNCHANGED aseq
          /\ UNCHANGED <<data, crash>>
  /\ UNCHANGED <<acks, delivered, server_open, threadVars, windowVars, countVars,
                 packet_send_mutex, timerVars>>

AckedSetBase ==
  /\ apc = "setBase"
  /\ base_idx' = RingSucc(aseq)
  /\ apc' = "compare"
  /\ UNCHANGED <<networkVars, threadVars, next_seq_num_idx, window_map, countVars,
                 packet_send_mutex, timerVars, aseq, crash>>

\* Read base and next; what is done about the timer is a later step.
AckedCompare ==
  /\ apc = "compare"
  /\ apc' = IF base_idx = next_seq_num_idx THEN "stopTimer" ELSE "startTimer"
  /\ UNCHANGED <<networkVars, threadVars, windowVars, countVars,
                 packet_send_mutex, timerVars, aseq, crash>>

\* Mutant: the stopped Timer is released.
stopTimerReleases == timeoutTimer' = "null"

stopTimer == timeoutTimer' = "stopped"

AckedStopTimer ==
  /\ apc = "stopTimer"
  /\ IF timeoutTimer = "null"
     THEN /\ crash' = "timeoutTimer"
          /\ UNCHANGED <<timeoutTimer, apc>>
     ELSE /\ stopTimer
          /\ apc' = "count"
          /\ UNCHANGED crash
  /\ UNCHANGED <<networkVars, threadVars, windowVars, countVars,
                 packet_send_mutex, hpc, resend, aseq>>

AckedStartTimer ==
  /\ apc = "startTimer"
  /\ timeoutTimer' = "armed"
  /\ apc' = "count"
  /\ UNCHANGED <<networkVars, threadVars, windowVars, countVars,
                 packet_send_mutex, hpc, resend, aseq, crash>>

\* Mutant: the packet after the acknowledged one is marked.
setAckedNext(s) == window_map' = [window_map EXCEPT ![RingSucc(s)].acked = TRUE]

setAcked(s) == window_map' = [window_map EXCEPT ![s].acked = TRUE]

\* Second critical section of ackcount_mutex.
AckedCount ==
  /\ apc = "count"
  /\ acked_count' = acked_count + AckedIncrement(last_acked_packet, aseq)
  /\ last_acked_packet' = aseq
  /\ setAcked(aseq)
  /\ apc' = "notifyPacket"
  /\ UNCHANGED <<networkVars, threadVars, base_idx, next_seq_num_idx,
                 finished_sending_data, packet_send_mutex, timerVars, aseq, crash>>

\* The two notify_all calls, made without the mutexes of their waiters.
AckedNotifyPacket ==
  /\ apc = "notifyPacket"
  /\ spc' = IF spc = "packetWait" THEN "lock" ELSE spc
  /\ apc' = "notifyChunk"
  /\ UNCHANGED <<networkVars, chunk_index, packet_idx, windowVars, countVars,
                 packet_send_mutex, timerVars, aseq, crash>>

AckedNotifyChunk ==
  /\ apc = "notifyChunk"
  /\ spc' = IF spc = "chunkWait" THEN "chunkCheck" ELSE spc
  /\ ackedPacketReturns
  /\ UNCHANGED <<networkVars, chunk_index, packet_idx, windowVars, countVars,
                 packet_send_mutex, timerVars, crash>>

AckedPacketCall ==
  \/ AckedCheck \/ AckedSetBase \/ AckedCompare
  \/ AckedStopTimer \/ AckedStartTimer \/ AckedCount
  \/ AckedNotifyPacket \/ AckedNotifyChunk
=============================================================================
