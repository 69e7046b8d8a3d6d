------------------------------- MODULE Client -------------------------------
(***************************************************************************)
(* The client: the sender, timer and receiver threads that Client::start   *)
(* launches, composed with the network and the server.                     *)
(***************************************************************************)
EXTENDS ClientReceiver

vars == <<networkVars, senderVars, receiver_running>>

\* Client::start has launched both threads; no timer exists yet.
Init == NetworkInit /\ SenderInit /\ ReceiverInit

\* A null dereference in any thread ends the process.
Running == crash = "none"

Sender == Running /\ SenderThread /\ UNCHANGED receiver_running

Wakeup == Running /\ SpuriousWakeup /\ UNCHANGED receiver_running

Timers == Running /\ (\E h \in Handlers : TimerThread(h)) /\ UNCHANGED receiver_running

AckCallback == Running /\ AckedPacketCall /\ UNCHANGED receiver_running

Receiver == Running /\ ReceiverThread

Environment == NetworkNext /\ UNCHANGED <<senderVars, receiver_running>>

Next ==
  \/ Sender \/ Wakeup \/ Timers \/ AckCallback \/ Receiver \/ Environment

Spec == Init /\ [][Next]_vars

\* Threads are scheduled, an armed timer expires, nobody starves on
\* packet_send_mutex, and a datagram that is sent again and again gets through.
\* Nothing is assumed of spurious wake-ups.
Fairness ==
  /\ WF_vars(Sender)
  /\ SF_vars(Sender /\ LockForSend)
  /\ WF_vars(AckCallback)
  /\ \A h \in Handlers :
       /\ WF_vars(Running /\ TimerThread(h) /\ UNCHANGED receiver_running)
       /\ SF_vars(Running /\ HandlerLock(h) /\ UNCHANGED receiver_running)
  /\ \A k \in 0..(PacketsIn[ChunkCount] - 1) :
       /\ SF_vars(Environment /\ ServerReceive /\ Head(data) = k)
       /\ SF_vars(Receiver /\ ReceiveAck /\ Head(acks) = k)

FairSpec == Spec /\ Fairness

-----------------------------------------------------------------------------

SenderPCs ==
  {"readChunk", "lock", "check", "block", "packetWait", "send", "compare",
   "startTimer", "inc", "chunkCheck", "chunkBlock", "chunkWait", "reset",
   "finish", "endConnection", "stopTimer", "stopReceiver", "done"}

HandlerPCs == {"idle", "entry", "lock", "resend", "restart"}

AckedPCs ==
  {"idle", "check", "setBase", "compare", "stopTimer", "startTimer", "count",
   "notifyPacket", "notifyChunk"}

NetworkTypeOK ==
  /\ data \in Seq(Nat \cup {Empty})
  /\ acks \in Seq(Nat \cup {Empty})
  /\ delivered \in Seq(Nat)
  /\ server_open \in BOOLEAN

ThreadTypeOK ==
  /\ spc \in SenderPCs
  /\ chunk_index \in 0..ChunkCount
  /\ packet_idx \in Nat

WindowTypeOK ==
  /\ base_idx \in SeqNums
  /\ next_seq_num_idx \in SeqNums
  /\ window_map \in [SeqNums -> [pkt : Nat \cup {-1}, acked : BOOLEAN]]

CountTypeOK ==
  /\ acked_count \in Nat
  /\ last_acked_packet \in SeqNums \cup {-1}
  /\ finished_sending_data \in BOOLEAN

TimerTypeOK ==
  /\ timeoutTimer \in {"null", "armed", "stopped"}
  /\ hpc \in [Handlers -> HandlerPCs]
  /\ resend \in [i : SeqNums, bidx : SeqNums, nseqnum : SeqNums]

\* Every field of the client and of the network has its type; in particular
\* the ring indices stay on the ring and acked_count is never negative.
TypeOK ==
  /\ NetworkTypeOK /\ ThreadTypeOK /\ WindowTypeOK /\ CountTypeOK /\ TimerTypeOK
  /\ packet_send_mutex \in BOOLEAN
  /\ apc \in AckedPCs
  /\ aseq \in SeqNums
  /\ crash \in {"none", "window_map", "timeoutTimer"}
  /\ receiver_running \in BOOLEAN

\* sendPacketReliable and timeoutHandler never overlap between their lock and
\* their unlock of packet_send_mutex.
SenderHolds == spc \in {"check", "block", "send", "compare", "startTimer", "inc"}
HandlerHolds(h) == hpc[h] \in {"resend", "restart"}
MutexExclusive ==
  /\ \A h \in Handlers : HandlerHolds(h) => ~SenderHolds
  /\ \A g, h \in Handlers : HandlerHolds(g) /\ HandlerHolds(h) => g = h

\* Packets of the file handed to the network at least once.
SentCount ==
  IF chunk_index = 0 THEN 0
  ELSE CurrentPacket + (IF spc \in {"compare", "startTimer", "inc"} THEN 1 ELSE 0)

\* Packets of the file the client has counted as acknowledged.
ConfirmedCount ==
  IF spc \in {"readChunk", "finish", "endConnection", "stopTimer",
              "stopReceiver", "done"}
  THEN PacketsIn[chunk_index]
  ELSE PacketsIn[chunk_index - 1] + acked_count

\* The server accepts packet 0, 1, 2, ... of the file in order, each once,
\* whatever the network loses or repeats and however often timeoutHandler
\* resends (sendPacketReliable's name is the promise).
InOrderDelivery ==
  \A i \in 1..Len(delivered) : delivered[i] = i - 1

\* acked_count never counts a packet the server has not accepted, and never
\* exceeds the packets of the chunk, which the wait in sendChunk tests with ==.
ConfirmedWasDelivered ==
  /\ ConfirmedCount <= Len(delivered)
  /\ chunk_index > 0 => acked_count <= chunk_packets_qty

\* ackedPacket looks window_map[seqnum] up twice, before and after setBaseIdx
\* lets the sender reuse slots: the packet it marks as acknowledged is one
\* the server has accepted.
AckedWasDelivered ==
  \A s \in SeqNums : window_map[s].acked => window_map[s].pkt < Len(delivered)

\* Neither ackedPacket nor timeoutHandler dereferences an empty slot.
NoNullPacket == crash # "window_map"

\* The one null dereference that does happen, of timeoutTimer, can only hit
\* the first ACK of the whole transfer.
NullTimerOnlyOnFirstAck ==
  crash = "timeoutTimer" => last_acked_packet = -1 /\ ConfirmedCount = 0

\* The receive loop outlives the transfer: no ACK can be missed because the
\* loop was left.
ReceiverOutlivesTransfer == ~receiver_running => finished_sending_data

\* The window: canAdvance, computed on the ring with a base_idx that ackedPacket
\* moves under another mutex, never lets the sender run more than window_size
\* packets ahead of what the server has accepted.
WindowRespected == SentCount <= Len(delivered) + window_size

\* sendPacketReliable overwrites a slot of window_map only when the packet in
\* it has been accepted by the server: timeoutHandler can still resend every
\* packet that may be needed.
SlotReuse ==
  [][\A s \in SeqNums :
       window_map'[s].pkt # window_map[s].pkt
         => window_map[s].pkt < Len(delivered)]_vars

\* ackedPacket looks window_map up without packet_send_mutex: it never touches
\* the slot whose unique_ptr sendPacketReliable is about to replace.
NoSlotRace ==
  ~ /\ spc = "send"
    /\ apc \in {"check", "count"}
    /\ aseq = next_seq_num_idx

\* timeoutHandler works with a copy of base_idx that ackedPacket may have moved
\* since: whatever it sends again is still one of the last window_size packets.
ResendWithinWindow ==
  \A h \in Handlers :
    hpc[h] = "resend" /\ ResendMore(resend.i, resend.bidx, resend.nseqnum) =>
      /\ window_map[resend.i].pkt \in 0..(SentCount - 1)
      /\ window_map[resend.i].pkt >= SentCount - window_size

\* The resend loop ends at next_seq_num_idx, also when the window wraps around
\* the ring: no packet in flight is left out of a retransmission.
ResendReachesNext ==
  [][\A h \in Handlers :
       hpc[h] = "resend" /\ hpc'[h] = "restart" => resend.i = resend.nseqnum]_vars

\* The steps above use the timer only in the ways TimeoutTimer allows, which
\* module Timer is shown to provide.
TimerUse == INSTANCE TimeoutTimer WITH
  HandlerIds <- Handlers,
  timeout <- timeoutTimer,
  handlers <- {h \in Handlers : hpc[h] # "idle"}

UsesTimeout == TimerUse!Spec

\* The number written on packet k of the file is SeqNum(k): the sender counts
\* around the ring across chunks, waits and retransmissions without a slip.
SlotNumbers ==
  \A s \in SeqNums : window_map[s].pkt # -1 => SeqNum(window_map[s].pkt) = s

\* The client with its threads, ring and lossy network implements the abstract
\* transfer: no step of any thread, and no loss, repetition or resend, is
\* visible there except as a delivery in order, a confirmation of packets the
\* server has, or the end of the transfer at the end of a chunk.
Transfer == INSTANCE ReliableTransfer WITH
  Total <- PacketsIn[ChunkCount],
  Boundaries <- {PacketsIn[c] : c \in 0..ChunkCount},
  confirmed <- ConfirmedCount,
  finished <- finished_sending_data

ImplementsTransfer == Transfer!Spec

-----------------------------------------------------------------------------
(* Progress.                                                               *)

\* The transfer comes to an end: the sender thread leaves threadFun, unless the
\* process died.
Ended == spc = "done" \/ crash # "none"
TransferEnds == <>Ended

\* The sender thread sleeps although what it waits for is true: ackedPacket
\* notified between its test of the predicate and its sleep.
SleptThroughNotify ==
  \/ spc = "packetWait" /\ canAdvance(base_idx, next_seq_num_idx)
  \/ spc = "chunkWait" /\ acked_count = chunk_packets_qty

\* Packets are unacknowledged, and no timer is left to resend them: ackedPacket
\* stopped it for a comparison with a next_seq_num_idx that was about to change.
TimerLost ==
  /\ timeoutTimer = "stopped"
  /\ \A h \in Handlers : hpc[h] = "idle"
  /\ ConfirmedCount < SentCount

\* A transfer that never ends is in one of these two situations for ever.
OnlyKnownHangs ==
  TransferEnds \/ <>[]SleptThroughNotify \/ <>[]TimerLost

-----------------------------------------------------------------------------
(* Statements the program or its README makes that the code does not keep. *)

\* ackedPacket logs "current_base_idx == getNextSeqNum()" when it stops the
\* timer: nothing is in flight at that moment.
StopsTimerOnlyWhenIdle ==
  [][apc = "stopTimer" /\ apc' = "count" => base_idx = next_seq_num_idx]_vars

\* sendChunk logs "Current Acked: n/m": n of the m packets of the chunk have
\* been acknowledged, so n never exceeds m.
AckedWithinChunk ==
  chunk_index > 0 => acked_count <= chunk_packets_qty

\* The README has the file sent when the client says it is finished.
FinishedMeansWholeFile ==
  finished_sending_data => Len(delivered) = PacketsIn[ChunkCount]
=============================================================================
