---------------------------- MODULE ClientProofs ----------------------------
(***************************************************************************)
(* Theorems about the client, for every ring, window, file, channel        *)
(* capacity, set of faults (reordering included) and number of timer       *)
(* threads.                                                                *)
(***************************************************************************)
EXTENDS Client, SeqNumbersProofs, TLAPS

\* The shorthands the actions are written with are always expanded.
USE DEF SenderGoes, SenderJustGoes, MutexFree, ChunkAcked, resetChunkVars,
        setFinished, MayExpire, stopTimer, setAcked

-----------------------------------------------------------------------------
(* Channels.                                                               *)

\* What a socket puts on a path is still a sequence of datagrams.
LEMMA TransmitType ==
  ASSUME NEW S, NEW channel \in Seq(S), NEW k \in S
  PROVE  Transmit(channel, k) \in Seq(S)
  BY NetworkAssumption DEF Transmit

\* Delivering or losing a datagram leaves a sequence of datagrams.
LEMMA RemoveAtType ==
  ASSUME NEW S, NEW channel \in Seq(S), NEW i \in 1..Len(channel)
  PROVE  RemoveAt(channel, i) \in Seq(S)
  BY DEF RemoveAt

\* Repeating a datagram leaves a sequence of datagrams.
LEMMA InsertAtType ==
  ASSUME NEW S, NEW channel \in Seq(S), NEW i \in 1..Len(channel)
  PROVE  InsertAt(channel, i, channel[i]) \in Seq(S)
  BY DEF InsertAt

\* The network delivers datagrams that are on the path.
LEMMA DeliverableType ==
  ASSUME NEW channel, NEW i \in Deliverable(channel)
  PROVE  i \in 1..Len(channel)
  BY DEF Deliverable

-----------------------------------------------------------------------------
(* Type correctness.  TypeOK is not inductive: the packet that SendPacket  *)
(* stores is a packet of the file only if a chunk has been read.           *)

InChunk ==
  spc \notin {"readChunk", "finish", "endConnection", "stopTimer",
              "stopReceiver", "done"} => chunk_index # 0

TypeInv == TypeOK /\ InChunk

\* The fields have their types when Client::start has launched the threads.
LEMMA TypeInit == Init => TypeInv
  <1> SUFFICES ASSUME Init PROVE TypeInv
    OBVIOUS
  <1> USE DEF Init, NetworkInit, SenderInit, ReceiverInit
  <1>1. NetworkTypeOK
    BY DEF NetworkTypeOK
  <1>2. ThreadTypeOK /\ InChunk
    BY ClientSenderAssumption DEF ThreadTypeOK, SenderPCs, InChunk
  <1>3. WindowTypeOK
    BY SeqNumbersAssumption DEF WindowTypeOK, SeqNums, NoPacket
  <1>4. CountTypeOK
    BY DEF CountTypeOK
  <1>5. TimerTypeOK
    BY SeqNumbersAssumption DEF TimerTypeOK, HandlerPCs, NoResend, SeqNums
  <1>6. aseq \in SeqNums
    BY SeqNumbersAssumption DEF SeqNums
  <1> QED
    BY <1>1, <1>2, <1>3, <1>4, <1>5, <1>6 DEF TypeInv, TypeOK, AckedPCs

\* The packet the sender thread is working on has a number.
LEMMA CurrentPacketType ==
  ASSUME TypeInv, chunk_index # 0
  PROVE  CurrentPacket \in Nat
  BY ClientSenderAssumption DEF TypeInv, TypeOK, ThreadTypeOK, CurrentPacket

\* No step of threadFun, sendChunk or sendPacketReliable breaks a type.
LEMMA SenderType ==
  ASSUME TypeInv, SenderThread
  PROVE  /\ NetworkTypeOK' /\ ThreadTypeOK' /\ WindowTypeOK' /\ CountTypeOK'
         /\ TimerTypeOK' /\ InChunk'
         /\ packet_send_mutex' \in BOOLEAN
         /\ UNCHANGED <<apc, aseq, crash>>
  <1> USE DEF TypeInv, TypeOK, InChunk, NetworkTypeOK, ThreadTypeOK,
              WindowTypeOK, CountTypeOK, TimerTypeOK, SenderPCs, networkVars,
              threadVars, windowVars, countVars, timerVars, ackedVars
  <1>1. CASE ReadChunk
    BY <1>1, ClientSenderAssumption DEF ReadChunk
  <1>2. CASE LockForSend
    BY <1>2 DEF LockForSend
  <1>3. CASE CheckAdvance
    BY <1>3 DEF CheckAdvance
  <1>4. CASE BlockOnPacket
    BY <1>4 DEF BlockOnPacket
  <1>5. CASE SendPacket
    <2>1. CurrentPacket \in Nat
      BY <1>5, CurrentPacketType DEF SendPacket
    <2>2. data' \in Seq(Nat \cup {Empty})
      BY <1>5, <2>1, TransmitType DEF SendPacket
    <2>3. window_map' \in [SeqNums -> [pkt : Nat \cup {-1}, acked : BOOLEAN]]
      BY <1>5, <2>1 DEF SendPacket, NewPacket
    <2> QED BY <1>5, <2>2, <2>3 DEF SendPacket
  <1>6. CASE CompareForTimer
    BY <1>6 DEF CompareForTimer
  <1>7. CASE StartTimerOnSend
    BY <1>7 DEF StartTimerOnSend
  <1>8. CASE IncNextSeqNum
    <2>1. next_seq_num_idx' \in SeqNums
      BY <1>8, RingSuccCases DEF IncNextSeqNum
    <2>2. /\ spc' \in {"lock", "chunkCheck"}
          /\ packet_idx' \in Nat
          /\ UNCHANGED chunk_index
      BY <1>8 DEF IncNextSeqNum
    <2>3. /\ packet_send_mutex' = FALSE
          /\ UNCHANGED <<networkVars, base_idx, window_map, countVars, timerVars,
                         ackedVars, crash>>
      BY <1>8 DEF IncNextSeqNum
    <2>4. chunk_index # 0
      BY <1>8 DEF IncNextSeqNum
    <2> QED BY <2>1, <2>2, <2>3, <2>4
  <1>9. CASE CheckChunk
    BY <1>9 DEF CheckChunk
  <1>10. CASE BlockOnChunk
    BY <1>10 DEF BlockOnChunk
  <1>11. CASE ResetChunkVars
    BY <1>11 DEF ResetChunkVars
  <1>12. CASE FinishSending
    BY <1>12 DEF FinishSending
  <1>13. CASE EndConnection
    <2>1. data' \in Seq(Nat \cup {Empty})
      BY <1>13, TransmitType DEF EndConnection
    <2> QED BY <1>13, <2>1 DEF EndConnection
  <1>14. CASE StopTimerAtEnd
    BY <1>14 DEF StopTimerAtEnd
  <1>15. CASE StopReceiver
    BY <1>15 DEF StopReceiver
  <1> QED
    BY <1>1, <1>2, <1>3, <1>4, <1>5, <1>6, <1>7, <1>8, <1>9, <1>10, <1>11,
       <1>12, <1>13, <1>14, <1>15 DEF SenderThread

\* No step of a timer thread in timeoutHandler breaks a type.
LEMMA TimerType ==
  ASSUME TypeInv, NEW h \in Handlers, TimerThread(h)
  PROVE  /\ NetworkTypeOK' /\ TimerTypeOK'
         /\ packet_send_mutex' \in BOOLEAN
         /\ crash' \in {"none", "window_map", "timeoutTimer"}
         /\ UNCHANGED <<threadVars, windowVars, countVars, ackedVars>>
  <1> USE DEF TypeInv, TypeOK, NetworkTypeOK, WindowTypeOK, TimerTypeOK,
              HandlerPCs, networkVars
  <1>1. CASE TimerExpires(h)
    BY <1>1 DEF TimerExpires
  <1>2. CASE HandlerEntry(h)
    BY <1>2 DEF HandlerEntry
  <1>3. CASE HandlerLock(h)
    BY <1>3 DEF HandlerLock
  <1>4. CASE HandlerResend(h)
    <2>1. RingSucc(resend.i) \in SeqNums
      BY RingSuccCases
    <2>2. resend' \in [i : SeqNums, bidx : SeqNums, nseqnum : SeqNums]
      BY <1>4, <2>1 DEF HandlerResend
    <2>3. window_map[resend.i].pkt \in Nat \cup {Empty}
      BY DEF Empty
    <2>4. data' \in Seq(Nat \cup {Empty})
      BY <1>4, <2>3, TransmitType DEF HandlerResend
    <2> QED BY <1>4, <2>2, <2>4 DEF HandlerResend
  <1>5. CASE HandlerRestart(h)
    <2>1. NoResend \in [i : SeqNums, bidx : SeqNums, nseqnum : SeqNums]
      BY SeqNumbersAssumption DEF NoResend, SeqNums
    <2> QED BY <1>5, <2>1 DEF HandlerRestart
  <1> QED BY <1>1, <1>2, <1>3, <1>4, <1>5 DEF TimerThread

\* No step of ackedPacket breaks a type: acked_count grows, and the slot it
\* marks stays a packet.
LEMMA AckedType ==
  ASSUME TypeInv, AckedPacketCall, UNCHANGED receiver_running
  PROVE  TypeOK' /\ InChunk'
  <1> USE DEF TypeInv, TypeOK, InChunk, NetworkTypeOK, ThreadTypeOK,
              WindowTypeOK, CountTypeOK, TimerTypeOK, AckedPCs, networkVars,
              threadVars, windowVars, countVars, timerVars, ackedVars
  <1>0. 0 \in SeqNums
    BY SeqNumbersAssumption DEF SeqNums
  <1>1. CASE AckedCheck
    <2>1. data' \in Seq(Nat \cup {Empty})
      BY <1>1, TransmitType DEF AckedCheck
    <2>2. apc' \in AckedPCs /\ aseq' \in SeqNums
      BY <1>0, <1>1 DEF AckedCheck, ackedPacketReturns
    <2> QED BY <1>1, <2>1, <2>2 DEF AckedCheck
  <1>2. CASE AckedSetBase
    <2>1. base_idx' \in SeqNums
      BY <1>2, RingSuccCases DEF AckedSetBase
    <2> QED BY <1>2, <2>1 DEF AckedSetBase
  <1>3. CASE AckedCompare
    BY <1>3 DEF AckedCompare
  <1>4. CASE AckedStopTimer
    BY <1>4 DEF AckedStopTimer
  <1>5. CASE AckedStartTimer
    BY <1>5 DEF AckedStartTimer
  <1>6. CASE AckedCount
    <2>1. AckedIncrement(last_acked_packet, aseq) \in Nat
      BY SeqNumbersAssumption DEF AckedIncrement, SeqNums
    <2>2. acked_count' \in Nat
      BY <1>6, <2>1 DEF AckedCount
    <2>3. window_map' \in [SeqNums -> [pkt : Nat \cup {-1}, acked : BOOLEAN]]
      BY <1>6 DEF AckedCount
    <2> QED BY <1>6, <2>2, <2>3 DEF AckedCount
  <1>7. CASE AckedNotifyPacket
    BY <1>7 DEF AckedNotifyPacket, SenderPCs
  <1>8. CASE AckedNotifyChunk
    BY <1>0, <1>8 DEF AckedNotifyChunk, ackedPacketReturns, SenderPCs
  <1> QED
    BY <1>1, <1>2, <1>3, <1>4, <1>5, <1>6, <1>7, <1>8 DEF AckedPacketCall

\* What the receiver thread takes off the path has a sequence number.
LEMMA ReceiverType ==
  ASSUME TypeInv, ReceiverThread
  PROVE  TypeOK' /\ InChunk'
  <1> USE DEF TypeInv, TypeOK, InChunk, NetworkTypeOK, ThreadTypeOK,
              WindowTypeOK, CountTypeOK, TimerTypeOK, AckedPCs, networkVars,
              threadVars, windowVars, countVars, timerVars, ackedVars, senderVars
  <1>1. CASE ReceiveAck
    <2>1. PICK i \in Deliverable(acks) :
            /\ acks[i] # Empty
            /\ acks' = RemoveAt(acks, i)
            /\ ackedPacket(SeqNum(acks[i]))
      BY <1>1 DEF ReceiveAck
    <2>2. acks[i] \in Nat
      BY <2>1, DeliverableType
    <2>3. acks' \in Seq(Nat \cup {Empty})
      BY <2>1, DeliverableType, RemoveAtType
    <2>4. apc' \in AckedPCs /\ aseq' \in SeqNums
      BY <2>1, <2>2, SeqNumType DEF ackedPacket
    <2> QED BY <1>1, <2>3, <2>4 DEF ReceiveAck
  <1>2. CASE ReceiveCorrupt
    <2>1. acks' \in Seq(Nat \cup {Empty})
      BY <1>2, DeliverableType, RemoveAtType DEF ReceiveCorrupt
    <2> QED BY <1>2, <2>1 DEF ReceiveCorrupt
  <1>3. CASE ReceiveEmpty
    <2>1. acks' \in Seq(Nat \cup {Empty})
      BY <1>3, DeliverableType, RemoveAtType DEF ReceiveEmpty
    <2> QED BY <1>3, <2>1 DEF ReceiveEmpty
  <1> QED BY <1>1, <1>2, <1>3 DEF ReceiverThread

\* The network and the server handle datagrams and nothing else.
LEMMA NetworkType ==
  ASSUME NetworkTypeOK, NetworkNext
  PROVE  NetworkTypeOK'
  <1> USE DEF NetworkTypeOK
  <1>1. CASE ServerReceive
    <2>1. PICK i \in Deliverable(data) :
            /\ data[i] # Empty
            /\ data' = RemoveAt(data, i)
            /\ delivered' = IF SeqNum(data[i]) = SeqNum(Len(delivered))
                            THEN Append(delivered, data[i])
                            ELSE delivered
            /\ acks' = IF delivered' = <<>> THEN acks
                       ELSE Transmit(acks, Len(delivered') - 1)
      BY <1>1 DEF ServerReceive
    <2>2. data[i] \in Nat
      BY <2>1, DeliverableType
    <2>3. data' \in Seq(Nat \cup {Empty})
      BY <2>1, DeliverableType, RemoveAtType
    <2>4. delivered' \in Seq(Nat)
      BY <2>1, <2>2
    <2>5. delivered' # <<>> => Len(delivered') - 1 \in Nat \cup {Empty}
      BY <2>4
    <2>6. acks' \in Seq(Nat \cup {Empty})
      BY <2>1, <2>5, TransmitType
    <2> QED BY <1>1, <2>3, <2>4, <2>6 DEF ServerReceive
  <1>2. CASE ServerClose
    <2>1. data' \in Seq(Nat \cup {Empty})
      BY <1>2, DeliverableType, RemoveAtType DEF ServerClose
    <2>2. acks' \in Seq(Nat \cup {Empty})
      BY <1>2, TransmitType DEF ServerClose
    <2> QED BY <1>2, <2>1, <2>2 DEF ServerClose
  <1>3. CASE LoseData
    BY <1>3, DeliverableType, RemoveAtType DEF LoseData
  <1>4. CASE LoseAck
    BY <1>4, DeliverableType, RemoveAtType DEF LoseAck
  <1>5. CASE DuplicateData
    BY <1>5, DeliverableType, InsertAtType DEF DuplicateData
  <1>6. CASE DuplicateAck
    BY <1>6, DeliverableType, InsertAtType DEF DuplicateAck
  <1> QED BY <1>1, <1>2, <1>3, <1>4, <1>5, <1>6 DEF NetworkNext

\* Every step of the client preserves the types.
LEMMA TypeStep == TypeInv /\ [Next]_vars => TypeInv'
  <1> SUFFICES ASSUME TypeInv, [Next]_vars PROVE TypeInv'
    OBVIOUS
  <1> USE DEF TypeInv
  <1>1. CASE Sender
    <2>1. /\ NetworkTypeOK' /\ ThreadTypeOK' /\ WindowTypeOK' /\ CountTypeOK'
          /\ TimerTypeOK' /\ InChunk'
          /\ packet_send_mutex' \in BOOLEAN
          /\ UNCHANGED <<apc, aseq, crash, receiver_running>>
      BY <1>1, SenderType DEF Sender
    <2> QED BY <2>1 DEF TypeOK
  <1>2. CASE Wakeup
    BY <1>2 DEF Wakeup, SpuriousWakeup, TypeOK, InChunk, NetworkTypeOK,
       ThreadTypeOK, WindowTypeOK, CountTypeOK, TimerTypeOK, SenderPCs,
       networkVars, windowVars, countVars, timerVars, ackedVars
  <1>3. CASE Timers
    <2>1. /\ NetworkTypeOK' /\ TimerTypeOK'
          /\ packet_send_mutex' \in BOOLEAN
          /\ crash' \in {"none", "window_map", "timeoutTimer"}
          /\ UNCHANGED <<threadVars, windowVars, countVars, ackedVars>>
          /\ UNCHANGED receiver_running
      BY <1>3, TimerType DEF Timers
    <2> QED
      BY <2>1 DEF TypeOK, InChunk, ThreadTypeOK, WindowTypeOK, CountTypeOK,
         threadVars, windowVars, countVars, ackedVars
  <1>4. CASE AckCallback
    BY <1>4, AckedType DEF AckCallback
  <1>5. CASE Receiver
    BY <1>5, ReceiverType DEF Receiver
  <1>6. CASE Environment
    <2>1. NetworkTypeOK' /\ UNCHANGED <<senderVars, receiver_running>>
      BY <1>6, NetworkType DEF Environment, TypeOK
    <2> QED
      BY <2>1 DEF TypeOK, InChunk, ThreadTypeOK, WindowTypeOK, CountTypeOK,
         TimerTypeOK, senderVars, threadVars, windowVars, countVars, timerVars,
         ackedVars
  <1>7. CASE UNCHANGED vars
    BY <1>7 DEF vars, TypeOK, InChunk, NetworkTypeOK, ThreadTypeOK, WindowTypeOK,
       CountTypeOK, TimerTypeOK, networkVars, senderVars, threadVars, windowVars,
       countVars, timerVars, ackedVars
  <1> QED BY <1>1, <1>2, <1>3, <1>4, <1>5, <1>6, <1>7 DEF Next

\* The fields of the client keep their types: the ring indices that ackedPacket
\* and sendPacketReliable compute stay on the ring, so that window_map is never
\* indexed out of range, and acked_count never becomes negative.
THEOREM TypeCorrect == Spec => []TypeOK
  <1>1. Spec => []TypeInv
    BY TypeInit, TypeStep, PTL DEF Spec
  <1>2. TypeInv => TypeOK
    BY DEF TypeInv
  <1> QED BY <1>1, <1>2, PTL

-----------------------------------------------------------------------------
(* Mutual exclusion.  MutexExclusive becomes inductive with the fact that  *)
(* whoever is between lock and unlock holds packet_send_mutex.             *)

MutexHeld ==
  /\ SenderHolds => packet_send_mutex
  /\ \A h \in Handlers : HandlerHolds(h) => packet_send_mutex

MutexInv == MutexHeld /\ MutexExclusive

\* A step that leaves alone the mutex and who holds it preserves the invariant.
LEMMA MutexStutter ==
  ASSUME MutexInv, UNCHANGED <<packet_send_mutex, hpc>>, SenderHolds' => SenderHolds
  PROVE  MutexInv'
  BY DEF MutexInv, MutexHeld, MutexExclusive, HandlerHolds

\* Every step of the client preserves mutual exclusion.
LEMMA MutexStep == TypeInv /\ MutexInv /\ [Next]_vars => MutexInv'
  <1> SUFFICES ASSUME TypeInv, MutexInv, [Next]_vars PROVE MutexInv'
    OBVIOUS
  <1> USE DEF SenderHolds
  <1>1. CASE Sender
    <2>1. CASE LockForSend
      BY <2>1 DEF LockForSend, timerVars, MutexInv, MutexHeld, MutexExclusive,
         HandlerHolds
    <2>2. CASE BlockOnPacket
      BY <2>2 DEF BlockOnPacket, timerVars, MutexInv, MutexHeld, MutexExclusive,
         HandlerHolds
    <2>3. CASE IncNextSeqNum
      <3>1. /\ spc = "inc"
            /\ spc' \in {"lock", "chunkCheck"}
            /\ UNCHANGED hpc
        BY <2>3 DEF IncNextSeqNum, timerVars
      <3> QED
        BY <3>1 DEF MutexInv, MutexHeld, MutexExclusive, HandlerHolds
    <2>4. CASE ~(LockForSend \/ BlockOnPacket \/ IncNextSeqNum)
      <3>1. UNCHANGED <<packet_send_mutex, hpc>> /\ (SenderHolds' => SenderHolds)
        BY <1>1, <2>4 DEF Sender, SenderThread, ReadChunk, CheckAdvance, SendPacket,
           CompareForTimer, StartTimerOnSend, CheckChunk, BlockOnChunk,
           ResetChunkVars, FinishSending, EndConnection, StopTimerAtEnd,
           StopReceiver, timerVars
      <3> QED BY <3>1, MutexStutter
    <2> QED BY <2>1, <2>2, <2>3, <2>4
  <1>2. CASE Wakeup
    <2>1. UNCHANGED <<packet_send_mutex, hpc>> /\ (SenderHolds' => SenderHolds)
      BY <1>2 DEF Wakeup, SpuriousWakeup, timerVars
    <2> QED BY <2>1, MutexStutter
  <1>3. CASE Timers
    <2>1. PICK h \in Handlers : TimerThread(h)
      BY <1>3 DEF Timers
    <2>2. hpc \in [Handlers -> HandlerPCs]
      BY DEF TypeInv, TypeOK, TimerTypeOK
    <2>3. UNCHANGED spc
      BY <2>1 DEF TimerThread, TimerExpires, HandlerEntry, HandlerLock,
         HandlerResend, HandlerRestart, threadVars
    <2>4. CASE HandlerLock(h)
      BY <2>2, <2>3, <2>4 DEF HandlerLock, MutexInv, MutexHeld, MutexExclusive,
         HandlerHolds
    <2>5. CASE HandlerRestart(h)
      BY <2>2, <2>3, <2>5 DEF HandlerRestart, MutexInv, MutexHeld, MutexExclusive,
         HandlerHolds
    <2>6. CASE TimerExpires(h) \/ HandlerEntry(h) \/ HandlerResend(h)
      <3>1. /\ UNCHANGED packet_send_mutex
            /\ \A g \in Handlers : HandlerHolds(g)' => HandlerHolds(g)
        BY <2>2, <2>6 DEF TimerExpires, HandlerEntry, HandlerResend, HandlerHolds
      <3> QED
        BY <2>3, <3>1 DEF MutexInv, MutexHeld, MutexExclusive
    <2> QED BY <2>1, <2>4, <2>5, <2>6 DEF TimerThread
  <1>4. CASE AckCallback
    <2>1. UNCHANGED <<packet_send_mutex, hpc>> /\ (SenderHolds' => SenderHolds)
      BY <1>4 DEF AckCallback, AckedPacketCall, AckedCheck, AckedSetBase,
         AckedCompare, AckedStopTimer, AckedStartTimer, AckedCount,
         AckedNotifyPacket, AckedNotifyChunk, threadVars, timerVars
    <2> QED BY <2>1, MutexStutter
  <1>5. CASE Receiver
    <2>1. UNCHANGED <<packet_send_mutex, hpc>> /\ (SenderHolds' => SenderHolds)
      BY <1>5 DEF Receiver, ReceiverThread, ReceiveAck, ReceiveCorrupt,
         ReceiveEmpty, senderVars, threadVars, timerVars
    <2> QED BY <2>1, MutexStutter
  <1>6. CASE Environment
    <2>1. UNCHANGED <<packet_send_mutex, hpc>> /\ (SenderHolds' => SenderHolds)
      BY <1>6 DEF Environment, senderVars, threadVars, timerVars
    <2> QED BY <2>1, MutexStutter
  <1>7. CASE UNCHANGED vars
    <2>1. UNCHANGED <<packet_send_mutex, hpc>> /\ (SenderHolds' => SenderHolds)
      BY <1>7 DEF vars, senderVars, threadVars, timerVars
    <2> QED BY <2>1, MutexStutter
  <1> QED BY <1>1, <1>2, <1>3, <1>4, <1>5, <1>6, <1>7 DEF Next

\* sendPacketReliable and every timeoutHandler exclude each other between lock
\* and unlock of packet_send_mutex, for any number of timer threads.
THEOREM MutualExclusion == Spec => []MutexExclusive
  <1>1. Init => MutexInv
    BY DEF Init, SenderInit, MutexInv, MutexHeld, MutexExclusive, SenderHolds,
       HandlerHolds
  <1>2. Spec => [](TypeInv /\ MutexInv)
    BY <1>1, TypeInit, TypeStep, MutexStep, PTL DEF Spec
  <1>3. MutexInv => MutexExclusive
    BY DEF MutexInv
  <1> QED BY <1>2, <1>3, PTL

-----------------------------------------------------------------------------
(* Closing.  Before finished_sending_data is set there is no empty         *)
(* datagram anywhere.  timeoutHandler sends what is in window_map, so this *)
(* rests on a slot that is in use holding a packet.                        *)

\* The steps of ackedPacket after it has found a packet in the slot.
AckedFound == {"setBase", "compare", "stopTimer", "startTimer", "count"}

SlotsInUse ==
  /\ \A s \in SeqNums : window_map[s].acked => window_map[s].pkt # -1
  /\ apc \in AckedFound => window_map[aseq].pkt # -1

NotClosing ==
  /\ data \in Seq(Nat)
  /\ acks \in Seq(Nat)
  /\ server_open
  /\ receiver_running
  /\ spc # "endConnection"

CloseInv == SlotsInUse /\ (finished_sending_data \/ NotClosing)

\* A slot that is not a null pointer has a packet of the file in it.
LEMMA SlotHasPacket ==
  ASSUME TypeInv, SlotsInUse, NEW s \in SeqNums, window_map[s] # NoPacket
  PROVE  window_map[s].pkt \in Nat
  <1>1. window_map[s] \in [pkt : Nat \cup {-1}, acked : BOOLEAN]
    BY DEF TypeInv, TypeOK, WindowTypeOK
  <1> SUFFICES ASSUME window_map[s].pkt = -1 PROVE FALSE
    BY <1>1
  <1>2. ~window_map[s].acked
    BY DEF SlotsInUse
  <1>3. window_map[s] = NoPacket
    BY <1>1, <1>2 DEF NoPacket
  <1> QED BY <1>3

\* ackedPacket acknowledges, and the sender stores, packets only.
LEMMA SlotsStep == TypeInv /\ SlotsInUse /\ [Next]_vars => SlotsInUse'
  <1> SUFFICES ASSUME TypeInv, SlotsInUse, [Next]_vars PROVE SlotsInUse'
    OBVIOUS
  <1>0. /\ window_map \in [SeqNums -> [pkt : Nat \cup {-1}, acked : BOOLEAN]]
        /\ aseq \in SeqNums /\ next_seq_num_idx \in SeqNums
    BY DEF TypeInv, TypeOK, WindowTypeOK
  <1> USE DEF AckedFound
  <1>1. CASE Sender
    <2>1. CASE SendPacket
      <3>1. CurrentPacket \in Nat
        BY <2>1, CurrentPacketType DEF SendPacket, TypeInv, InChunk
      <3>2. window_map' = [window_map EXCEPT ![next_seq_num_idx] =
                             [pkt |-> CurrentPacket, acked |-> FALSE]]
        BY <2>1 DEF SendPacket, NewPacket
      <3>3. UNCHANGED <<apc, aseq>>
        BY <2>1 DEF SendPacket, ackedVars
      <3> QED BY <1>0, <3>1, <3>2, <3>3 DEF SlotsInUse
    <2>2. CASE ~SendPacket
      <3>1. UNCHANGED <<window_map, apc, aseq>>
        BY <1>1, <2>2 DEF Sender, SenderThread, ReadChunk, LockForSend, CheckAdvance,
           BlockOnPacket, CompareForTimer, StartTimerOnSend, IncNextSeqNum,
           CheckChunk, BlockOnChunk, ResetChunkVars, FinishSending, EndConnection,
           StopTimerAtEnd, StopReceiver, windowVars, ackedVars
      <3> QED BY <3>1 DEF SlotsInUse
    <2> QED BY <2>1, <2>2
  <1>2. CASE Wakeup
    BY <1>2 DEF Wakeup, SpuriousWakeup, windowVars, ackedVars, SlotsInUse
  <1>3. CASE Timers
    <2>1. UNCHANGED <<window_map, apc, aseq>>
      BY <1>3 DEF Timers, TimerThread, TimerExpires, HandlerEntry, HandlerLock,
         HandlerResend, HandlerRestart, windowVars, ackedVars
    <2> QED BY <2>1 DEF SlotsInUse
  <1>4. CASE AckCallback
    <2>1. CASE AckedCheck
      <3>1. UNCHANGED window_map
        BY <2>1 DEF AckedCheck, windowVars
      <3>2. apc' \in AckedFound => aseq' = aseq /\ window_map[aseq] # NoPacket
        BY <2>1 DEF AckedCheck, ackedPacketReturns, ackedVars
      <3>3. apc' \in AckedFound => window_map[aseq].pkt \in Nat
        BY <1>0, <3>2, SlotHasPacket
      <3> QED BY <1>0, <3>1, <3>2, <3>3 DEF SlotsInUse
    <2>2. CASE AckedCount
      <3>1. /\ window_map' = [window_map EXCEPT ![aseq].acked = TRUE]
            /\ apc' = "notifyPacket" /\ window_map[aseq].pkt # -1
        BY <2>2 DEF AckedCount, SlotsInUse
      <3> QED BY <1>0, <3>1 DEF SlotsInUse
    <2>3. CASE ~(AckedCheck \/ AckedCount)
      <3>1. /\ UNCHANGED window_map
            /\ apc' \in AckedFound => apc \in AckedFound /\ aseq' = aseq
        BY <1>4, <2>3 DEF AckCallback, AckedPacketCall, AckedSetBase, AckedCompare,
           AckedStopTimer, AckedStartTimer, AckedNotifyPacket, AckedNotifyChunk,
           ackedPacketReturns, windowVars
      <3> QED BY <3>1 DEF SlotsInUse
    <2> QED BY <2>1, <2>2, <2>3
  <1>5. CASE Receiver
    <2>1. /\ UNCHANGED window_map
          /\ apc' \in AckedFound => apc \in AckedFound /\ aseq' = aseq
      BY <1>5 DEF Receiver, ReceiverThread, ReceiveAck, ReceiveCorrupt, ReceiveEmpty,
         ackedPacket, senderVars, windowVars, ackedVars
    <2> QED BY <2>1 DEF SlotsInUse
  <1>6. CASE Environment
    BY <1>6 DEF Environment, senderVars, windowVars, ackedVars, SlotsInUse
  <1>7. CASE UNCHANGED vars
    BY <1>7 DEF vars, senderVars, windowVars, ackedVars, SlotsInUse
  <1> QED BY <1>1, <1>2, <1>3, <1>4, <1>5, <1>6, <1>7 DEF Next

\* finished_sending_data is never reset.
LEMMA FinishedStays ==
  ASSUME [Next]_vars, finished_sending_data
  PROVE  finished_sending_data'
  <1>1. CASE Sender
    BY <1>1 DEF Sender, SenderThread, ReadChunk, LockForSend, CheckAdvance,
       BlockOnPacket, SendPacket, CompareForTimer, StartTimerOnSend, IncNextSeqNum,
       CheckChunk, BlockOnChunk, ResetChunkVars, FinishSending, EndConnection,
       StopTimerAtEnd, StopReceiver, countVars
  <1>2. CASE Wakeup
    BY <1>2 DEF Wakeup, SpuriousWakeup, countVars
  <1>3. CASE Timers
    BY <1>3 DEF Timers, TimerThread, TimerExpires, HandlerEntry, HandlerLock,
       HandlerResend, HandlerRestart, countVars
  <1>4. CASE AckCallback
    BY <1>4 DEF AckCallback, AckedPacketCall, AckedCheck, AckedSetBase, AckedCompare,
       AckedStopTimer, AckedStartTimer, AckedCount, AckedNotifyPacket,
       AckedNotifyChunk, countVars
  <1>5. CASE Receiver
    BY <1>5 DEF Receiver, ReceiverThread, ReceiveAck, ReceiveCorrupt, ReceiveEmpty,
       senderVars, countVars
  <1>6. CASE Environment
    BY <1>6 DEF Environment, senderVars, countVars
  <1>7. CASE UNCHANGED vars
    BY <1>7 DEF vars, senderVars, countVars
  <1> QED BY <1>1, <1>2, <1>3, <1>4, <1>5, <1>6, <1>7 DEF Next

\* Until finished_sending_data is set, no step puts an empty datagram on a path.
LEMMA NotClosingStep ==
  ASSUME TypeInv, SlotsInUse, NotClosing, ~finished_sending_data, [Next]_vars
  PROVE  finished_sending_data' \/ NotClosing'
  <1> USE DEF NotClosing
  <1>1. CASE Sender
    <2>1. CASE SendPacket
      <3>1. CurrentPacket \in Nat
        BY <2>1, CurrentPacketType DEF SendPacket, TypeInv, InChunk
      <3>2. data' \in Seq(Nat)
        BY <2>1, <3>1, TransmitType DEF SendPacket
      <3> QED BY <1>1, <2>1, <3>2 DEF Sender, SendPacket
    <2>2. CASE FinishSending
      BY <2>2 DEF FinishSending
    <2>3. CASE ~(SendPacket \/ FinishSending)
      BY <1>1, <2>3 DEF Sender, SenderThread, ReadChunk, LockForSend, CheckAdvance,
         BlockOnPacket, CompareForTimer, StartTimerOnSend, IncNextSeqNum, CheckChunk,
         BlockOnChunk, ResetChunkVars, EndConnection, StopTimerAtEnd, StopReceiver,
         networkVars
    <2> QED BY <2>1, <2>2, <2>3
  <1>2. CASE Wakeup
    BY <1>2 DEF Wakeup, SpuriousWakeup, networkVars
  <1>3. CASE Timers
    <2>1. PICK h \in Handlers : TimerThread(h)
      BY <1>3 DEF Timers
    <2>2. CASE HandlerResend(h)
      <3>1. resend.i \in SeqNums
        BY DEF TypeInv, TypeOK, TimerTypeOK
      <3>2. window_map[resend.i] # NoPacket => window_map[resend.i].pkt \in Nat
        BY <3>1, SlotHasPacket
      <3>3. data' \in Seq(Nat)
        BY <2>2, <3>2, TransmitType DEF HandlerResend
      <3> QED BY <1>3, <2>2, <3>3 DEF Timers, HandlerResend, threadVars
    <2>3. CASE ~HandlerResend(h)
      BY <1>3, <2>1, <2>3 DEF Timers, TimerThread, TimerExpires, HandlerEntry,
         HandlerLock, HandlerRestart, networkVars, threadVars
    <2> QED BY <2>2, <2>3
  <1>4. CASE AckCallback
    BY <1>4 DEF AckCallback, AckedPacketCall, AckedCheck, AckedSetBase, AckedCompare,
       AckedStopTimer, AckedStartTimer, AckedCount, AckedNotifyPacket,
       AckedNotifyChunk, networkVars, threadVars
  <1>5. CASE Receiver
    <2>1. acks' \in Seq(Nat)
      BY <1>5, DeliverableType, RemoveAtType DEF Receiver, ReceiverThread, ReceiveAck,
         ReceiveCorrupt, ReceiveEmpty
    <2>2. \A i \in Deliverable(acks) : acks[i] # Empty
      BY DeliverableType DEF Empty
    <2>3. ~ReceiveEmpty
      BY <2>2 DEF ReceiveEmpty
    <2> QED
      BY <1>5, <2>1, <2>3 DEF Receiver, ReceiverThread, ReceiveAck, ReceiveCorrupt,
         senderVars, threadVars
  <1>6. CASE Environment
    <2>1. UNCHANGED <<spc, receiver_running>>
      BY <1>6 DEF Environment, senderVars, threadVars
    <2>2. ~ServerClose
      BY DeliverableType DEF ServerClose, Empty
    <2>3. CASE ServerReceive
      <3>1. delivered' \in Seq(Nat)
        BY <2>3, NetworkType DEF NetworkNext, NetworkTypeOK, TypeInv, TypeOK
      <3>2. delivered' # <<>> => Len(delivered') - 1 \in Nat
        BY <3>1
      <3>3. acks' \in Seq(Nat)
        BY <2>3, <3>2, TransmitType DEF ServerReceive
      <3>4. data' \in Seq(Nat)
        BY <2>3, DeliverableType, RemoveAtType DEF ServerReceive
      <3> QED BY <2>1, <2>3, <3>3, <3>4 DEF ServerReceive
    <2>4. CASE LoseData
      BY <2>1, <2>4, DeliverableType, RemoveAtType DEF LoseData
    <2>5. CASE LoseAck
      BY <2>1, <2>5, DeliverableType, RemoveAtType DEF LoseAck
    <2>6. CASE DuplicateData
      BY <2>1, <2>6, DeliverableType, InsertAtType DEF DuplicateData
    <2>7. CASE DuplicateAck
      BY <2>1, <2>7, DeliverableType, InsertAtType DEF DuplicateAck
    <2> QED
      BY <1>6, <2>2, <2>3, <2>4, <2>5, <2>6, <2>7 DEF Environment, NetworkNext
  <1>7. CASE UNCHANGED vars
    BY <1>7 DEF vars, networkVars, senderVars, threadVars
  <1> QED BY <1>1, <1>2, <1>3, <1>4, <1>5, <1>6, <1>7 DEF Next

\* The receive loop is not left before the sender thread has declared the end,
\* whatever the network loses, repeats or reorders and however many timer
\* threads resend: an empty datagram comes from endConnection only, and
\* endConnection is called with finished_sending_data set.
THEOREM ReceiverStays == Spec => []ReceiverOutlivesTransfer
  <1>1. Init => CloseInv
    BY DEF Init, NetworkInit, SenderInit, ReceiverInit, CloseInv, SlotsInUse,
       NotClosing, AckedFound, NoPacket
  <1>2. TypeInv /\ CloseInv /\ [Next]_vars => CloseInv'
    BY SlotsStep, FinishedStays, NotClosingStep DEF CloseInv
  <1>3. Spec => [](TypeInv /\ CloseInv)
    BY <1>1, <1>2, TypeInit, TypeStep, PTL DEF Spec
  <1>4. CloseInv => ReceiverOutlivesTransfer
    BY DEF CloseInv, NotClosing, ReceiverOutlivesTransfer
  <1> QED BY <1>3, <1>4, PTL

-----------------------------------------------------------------------------
(* The timer.                                                              *)

\* The threads of the client use their timer only as TimeoutTimer allows: they
\* start and stop it, an armed one expires once, and a handler returns or
\* restarts it as its last act.
THEOREM TimerContract == Spec => UsesTimeout
  <1> DEFINE handlers == {h \in Handlers : hpc[h] # "idle"}
  <1> DEFINE same == UNCHANGED <<timeoutTimer, hpc>>
  <1>1. Init => TimerUse!Init
    BY DEF Init, SenderInit, TimerUse!Init
  <1>2. TypeInv /\ [Next]_vars => [TimerUse!Next]_(TimerUse!timeoutVars)
    <2> SUFFICES ASSUME TypeInv, [Next]_vars
                 PROVE  TimerUse!Next \/ UNCHANGED <<timeoutTimer, handlers>>
      BY DEF TimerUse!timeoutVars
    <2> USE DEF TimerUse!Next
    <2>0. /\ hpc \in [Handlers -> HandlerPCs]
          /\ timeoutTimer \in {"null", "armed", "stopped"}
      BY DEF TypeInv, TypeOK, TimerTypeOK
    <2>1. CASE Sender
      <3>1. CASE StartTimerOnSend
        BY <3>1 DEF StartTimerOnSend, TimerUse!Start
      <3>2. CASE StopTimerAtEnd
        BY <3>2 DEF StopTimerAtEnd, TimerUse!Stop
      <3>3. CASE ~(StartTimerOnSend \/ StopTimerAtEnd)
        <4>1. same
          BY <2>1, <3>3 DEF Sender, SenderThread, ReadChunk, LockForSend,
             CheckAdvance, BlockOnPacket, SendPacket, CompareForTimer, IncNextSeqNum,
             CheckChunk, BlockOnChunk, ResetChunkVars, FinishSending, EndConnection,
             StopReceiver, timerVars
        <4> QED BY <4>1
      <3> QED BY <3>1, <3>2, <3>3
    <2>2. CASE Wakeup
      BY <2>2 DEF Wakeup, SpuriousWakeup, timerVars
    <2>3. CASE Timers
      <3>1. PICK h \in Handlers : TimerThread(h)
        BY <2>3 DEF Timers
      <3>2. CASE TimerExpires(h)
        <4>1. h \in Handlers \ handlers /\ handlers' = handlers \cup {h}
          BY <2>0, <3>2 DEF TimerExpires
        <4> QED BY <3>2, <4>1 DEF TimerExpires, TimerUse!Expire
      <3>3. CASE HandlerEntry(h)
        <4>1. CASE finished_sending_data
          <5>1. h \in handlers /\ handlers' = handlers \ {h}
            BY <2>0, <3>3, <4>1 DEF HandlerEntry
          <5> QED BY <3>3, <5>1 DEF HandlerEntry, TimerUse!Return
        <4>2. CASE ~finished_sending_data
          <5>1. handlers' = handlers
            BY <2>0, <3>3, <4>2 DEF HandlerEntry
          <5> QED BY <3>3, <5>1 DEF HandlerEntry
        <4> QED BY <4>1, <4>2
      <3>4. CASE HandlerLock(h)
        <4>1. handlers' = handlers
          BY <2>0, <3>4 DEF HandlerLock
        <4> QED BY <3>4, <4>1 DEF HandlerLock
      <3>5. CASE HandlerResend(h)
        <4>1. handlers' = handlers
          BY <2>0, <3>5 DEF HandlerResend
        <4> QED BY <3>5, <4>1 DEF HandlerResend
      <3>6. CASE HandlerRestart(h)
        <4>1. h \in handlers /\ handlers' = handlers \ {h}
          BY <2>0, <3>6 DEF HandlerRestart
        <4> QED BY <3>6, <4>1 DEF HandlerRestart, TimerUse!RestartAndReturn
      <3> QED BY <3>1, <3>2, <3>3, <3>4, <3>5, <3>6 DEF TimerThread
    <2>4. CASE AckCallback
      <3>1. CASE AckedStartTimer
        BY <3>1 DEF AckedStartTimer, TimerUse!Start
      <3>2. CASE AckedStopTimer
        BY <3>2 DEF AckedStopTimer, TimerUse!Stop
      <3>3. CASE ~(AckedStartTimer \/ AckedStopTimer)
        <4>1. same
          BY <2>4, <3>3 DEF AckCallback, AckedPacketCall, AckedCheck, AckedSetBase,
             AckedCompare, AckedCount, AckedNotifyPacket, AckedNotifyChunk, timerVars
        <4> QED BY <4>1
      <3> QED BY <3>1, <3>2, <3>3
    <2>5. CASE Receiver
      BY <2>5 DEF Receiver, ReceiverThread, ReceiveAck, ReceiveCorrupt, ReceiveEmpty,
         senderVars, timerVars
    <2>6. CASE Environment
      BY <2>6 DEF Environment, senderVars, timerVars
    <2>7. CASE UNCHANGED vars
      BY <2>7 DEF vars, senderVars, timerVars
    <2> QED BY <2>1, <2>2, <2>3, <2>4, <2>5, <2>6, <2>7 DEF Next
  <1> QED
    BY <1>1, <1>2, TypeInit, TypeStep, PTL DEF Spec, UsesTimeout, TimerUse!Spec

-----------------------------------------------------------------------------
(* Slots and the first ACK, on every network: datagrams may be lost,       *)
(* repeated and reordered.  Whatever the network does with them, the       *)
(* numbers that travel are numbers sendPacketReliable has given out, and   *)
(* such a number has a packet in its slot for good.  So no lookup in       *)
(* window_map can fail: neither that of a number an old ACK carries, nor   *)
(* that of the numbers timeoutHandler goes through, whose loop can only    *)
(* wrap around a ring that has been filled once.                           *)

\* Where the sender thread is in sendChunk: handing over packets of the chunk,
\* waiting for its last ACK, or outside (threadFun between and after chunks).
Sending ==
  spc \in {"lock", "check", "block", "packetWait", "send", "compare",
           "startTimer", "inc"}
Waiting == spc \in {"chunkCheck", "chunkBlock", "chunkWait", "reset"}
BetweenChunks ==
  spc \in {"readChunk", "finish", "endConnection", "stopTimer", "stopReceiver",
           "done"}

\* Index in the file of the packet whose number next_seq_num_idx is.
NextPacket == IF chunk_index = 0 THEN 0 ELSE CurrentPacket

\* The loop of sendChunk counts the packets, and the ring positions with them.
LoopInv ==
  /\ Sending => packet_idx < chunk_packets_qty
  /\ Waiting => packet_idx = chunk_packets_qty
  /\ BetweenChunks /\ chunk_index # 0 => packet_idx = chunk_packets_qty
  /\ next_seq_num_idx = SeqNum(NextPacket)

\* Packets handed to the network, and packets the server may acknowledge: it has
\* counted so far, and their number has been given out.  (An old packet taken for a
\* new one makes it count packets that have not been sent.)
Sent == 0..(SentCount - 1)
Countable == {k \in Nat : k < Len(delivered) /\ SeqNum(k) < SentCount}

\* ackedPacket works on a number it has not counted yet.
HasNumber == apc \in {"check"} \cup AckedFound

\* Every number that is on its way or in a variable has been given out, and those
\* that came back with ACKs have been accepted once.
NumbersInv ==
  /\ data \in Seq(Sent \cup {Empty}) /\ acks \in Seq(Countable \cup {Empty})
  /\ delivered # <<>> => SeqNum(Len(delivered) - 1) < SentCount
  /\ HasNumber => aseq < SentCount /\ aseq < Len(delivered)
  /\ base_idx <= SentCount /\ base_idx <= Len(delivered)
  /\ resend.nseqnum <= SentCount
  /\ resend.bidx > resend.nseqnum => BufferSize <= SentCount

\* A number that has been given out has a packet in its slot, which has that number;
\* only slots whose number has been accepted once are marked.
FilledInv ==
  /\ \A s \in SeqNums : s < SentCount => window_map[s].pkt # -1
  /\ \A s \in SeqNums : window_map[s].pkt # -1 =>
       window_map[s].pkt < SentCount /\ SeqNum(window_map[s].pkt) = s
  /\ \A s \in SeqNums : window_map[s].acked => s < Len(delivered)

\* Before the first ACK has been counted nothing is confirmed.
FirstAckInv ==
  last_acked_packet = -1 =>
    /\ acked_count = 0
    /\ chunk_index # 0 => chunk_index = 1 /\ ~BetweenChunks /\ spc # "reset"

\* An ACK that has got past the timer found a Timer object, which stays.
CrashInv ==
  /\ last_acked_packet # -1 \/ apc = "count" => timeoutTimer # "null"
  /\ crash # "window_map"
  /\ crash = "timeoutTimer" => last_acked_packet = -1

\* The inductive invariant of the client on every network.
AnyNetworkInv == LoopInv /\ NumbersInv /\ FilledInv /\ FirstAckInv /\ CrashInv

\* Every field is written by the few steps that name it.
LEMMA Writers ==
  ASSUME [Next]_vars
  PROVE  /\ UNCHANGED base_idx \/ (AckCallback /\ AckedSetBase)
         /\ UNCHANGED next_seq_num_idx \/ (Sender /\ IncNextSeqNum)
         /\ \/ UNCHANGED window_map
            \/ Sender /\ SendPacket
            \/ AckCallback /\ AckedCount
         /\ UNCHANGED last_acked_packet \/ (AckCallback /\ AckedCount)
         /\ UNCHANGED <<apc, aseq>> \/ AckCallback \/ (Receiver /\ ReceiveAck)
         /\ \/ UNCHANGED data
            \/ Sender /\ SendPacket
            \/ Sender /\ EndConnection
            \/ AckCallback /\ AckedCheck
            \/ Timers
            \/ Environment
         /\ UNCHANGED acks \/ Receiver \/ Environment
         /\ UNCHANGED delivered \/ (Environment /\ ServerReceive)
         /\ UNCHANGED <<hpc, resend>> \/ Timers
         /\ \/ UNCHANGED timeoutTimer
            \/ timeoutTimer' # "null"
            \/ Sender /\ StopTimerAtEnd
         /\ UNCHANGED crash \/ Timers \/ AckCallback
         /\ UNCHANGED finished_sending_data \/ (Sender /\ FinishSending)
         /\ spc' = "send" => spc = "send" \/ (Sender /\ CheckAdvance)
  <1> USE DEF threadVars, networkVars, windowVars, countVars, timerVars, ackedVars
  <1>1. CASE Sender
    <2>1. CASE SendPacket
      BY <1>1, <2>1 DEF SendPacket
    <2>2. CASE IncNextSeqNum
      BY <1>1, <2>2 DEF IncNextSeqNum
    <2>3. CASE EndConnection
      BY <1>1, <2>3 DEF EndConnection
    <2>4. CASE StartTimerOnSend
      BY <1>1, <2>4 DEF StartTimerOnSend
    <2>5. CASE StopTimerAtEnd
      BY <1>1, <2>5 DEF StopTimerAtEnd
    <2>6. CASE FinishSending
      BY <1>1, <2>6 DEF FinishSending
    <2>7. CASE \/ ReadChunk \/ LockForSend \/ CheckAdvance \/ BlockOnPacket
               \/ CompareForTimer \/ CheckChunk \/ BlockOnChunk \/ ResetChunkVars
               \/ StopReceiver
      <3>1. /\ UNCHANGED <<base_idx, next_seq_num_idx, window_map, last_acked_packet,
                           apc, aseq, data, acks, delivered, hpc, resend,
                           timeoutTimer, crash, finished_sending_data>>
            /\ spc' = "send" => CheckAdvance
        BY <2>7 DEF ReadChunk, LockForSend, CheckAdvance, BlockOnPacket,
           CompareForTimer, CheckChunk, BlockOnChunk, ResetChunkVars, StopReceiver
      <3> QED BY <1>1, <3>1
    <2> QED
      BY <1>1, <2>1, <2>2, <2>3, <2>4, <2>5, <2>6, <2>7 DEF Sender, SenderThread
  <1>2. CASE Wakeup
    BY <1>2 DEF Wakeup, SpuriousWakeup
  <1>3. CASE Timers
    BY <1>3 DEF Timers, TimerThread, TimerExpires, HandlerEntry, HandlerLock,
       HandlerResend, HandlerRestart
  <1>4. CASE AckCallback
    BY <1>4 DEF AckCallback, AckedPacketCall, AckedCheck, AckedSetBase, AckedCompare,
       AckedStopTimer, AckedStartTimer, AckedCount, AckedNotifyPacket,
       AckedNotifyChunk
  <1>5. CASE Receiver
    BY <1>5 DEF Receiver, ReceiverThread, ReceiveAck, ReceiveCorrupt, ReceiveEmpty,
       senderVars
  <1>6. CASE Environment
    BY <1>6 DEF Environment, NetworkNext, ServerClose, LoseData, LoseAck,
       DuplicateData, DuplicateAck, senderVars
  <1>7. CASE UNCHANGED vars
    BY <1>7 DEF vars, senderVars
  <1> QED BY <1>1, <1>2, <1>3, <1>4, <1>5, <1>6, <1>7 DEF Next

\* The chunk being sent is a chunk of the file, with at least one packet.
LEMMA ChunkBounds ==
  ASSUME TypeInv, chunk_index # 0
  PROVE  /\ chunk_index - 1 \in 0..ChunkCount
         /\ PacketsIn[chunk_index - 1] \in Nat
         /\ PacketsIn[chunk_index] \in Nat
         /\ chunk_packets_qty \in Nat
         /\ chunk_packets_qty > 0
         /\ PacketsIn[chunk_index] = PacketsIn[chunk_index - 1] + chunk_packets_qty
         /\ PacketsIn[chunk_index] <= PacketsIn[ChunkCount]
  <1>1. chunk_index \in 1..ChunkCount /\ chunk_index - 1 \in 0..ChunkCount
    BY ClientSenderAssumption DEF TypeInv, TypeOK, ThreadTypeOK
  <1>2. PacketsIn[chunk_index - 1] < PacketsIn[chunk_index]
    BY <1>1, ClientSenderAssumption
  <1>3. PacketsIn[chunk_index] <= PacketsIn[ChunkCount]
    BY <1>1, ClientSenderAssumption
  <1> QED BY <1>1, <1>2, <1>3, ClientSenderAssumption DEF chunk_packets_qty

\* A number is at most the index of its packet.
LEMMA SeqNumAtMost ==
  ASSUME NEW k \in Nat
  PROVE  SeqNum(k) <= k
  BY SeqNumbersAssumption DEF SeqNum, BufferSize

\* The packets handed to the network, counted by the loop of sendChunk.
LEMMA SentValues ==
  ASSUME TypeInv
  PROVE  /\ NextPacket \in Nat /\ SentCount \in Nat
         /\ SentCount = NextPacket + (IF spc \in {"compare", "startTimer", "inc"}
                                      THEN 1 ELSE 0)
  <1>1. chunk_index = 0 => spc \notin {"compare", "startTimer", "inc"}
    BY DEF TypeInv, InChunk
  <1>2. CASE chunk_index = 0
    BY <1>1, <1>2 DEF NextPacket, SentCount
  <1>3. CASE chunk_index # 0
    BY <1>3, CurrentPacketType DEF NextPacket, SentCount
  <1> QED BY <1>2, <1>3

\* SendPacket sends the packet next_seq_num_idx stands for.
LEMMA SendCounts ==
  ASSUME TypeInv, SendPacket
  PROVE  /\ SentCount' = SentCount + 1 /\ UNCHANGED NextPacket
         /\ CurrentPacket = SentCount /\ NextPacket = SentCount
  <1>1. /\ spc = "send" /\ spc' = "compare" /\ chunk_index # 0
        /\ UNCHANGED <<chunk_index, packet_idx>>
    BY DEF SendPacket, TypeInv, InChunk
  <1>2. CurrentPacket \in Nat
    BY <1>1, CurrentPacketType
  <1> QED BY <1>1, <1>2 DEF NextPacket, SentCount, CurrentPacket

\* A step that keeps the sender thread in its part of sendChunk keeps the counts.
LEMMA SentFrame ==
  ASSUME LoopInv, UNCHANGED <<chunk_index, packet_idx, next_seq_num_idx>>,
         (spc \in {"compare", "startTimer", "inc"})'
           <=> spc \in {"compare", "startTimer", "inc"},
         Sending' => Sending, Waiting' => Waiting,
         BetweenChunks' => BetweenChunks \/ Waiting
  PROVE  LoopInv' /\ UNCHANGED SentCount
  BY DEF LoopInv, NextPacket, SentCount, CurrentPacket, chunk_packets_qty

\* The sender thread counts around the ring; what has been sent stays sent.
LEMMA LoopStep ==
  ASSUME TypeInv, LoopInv, [Next]_vars
  PROVE  LoopInv' /\ (UNCHANGED SentCount \/ (Sender /\ SendPacket))
  <1> DEFINE quiet == /\ UNCHANGED <<chunk_index, packet_idx, next_seq_num_idx>>
                      /\ (spc \in {"compare", "startTimer", "inc"})'
                           <=> spc \in {"compare", "startTimer", "inc"}
                      /\ Sending' => Sending
                      /\ Waiting' => Waiting
                      /\ BetweenChunks' => BetweenChunks \/ Waiting
  <1>1. quiet => LoopInv' /\ UNCHANGED SentCount
    BY SentFrame
  <1> USE DEF Sending, Waiting, BetweenChunks, threadVars, windowVars
  <1>2. CASE Sender
    <2>1. CASE ReadChunk /\ chunk_index # ChunkCount
      <3>1. /\ spc = "readChunk" /\ spc' = "lock" /\ chunk_index' = chunk_index + 1
            /\ packet_idx' = 0 /\ UNCHANGED next_seq_num_idx
        BY <2>1 DEF ReadChunk
      <3>2. /\ chunk_index \in 0..ChunkCount /\ chunk_index + 1 \in 0..ChunkCount
            /\ chunk_index + 1 # 0 /\ (chunk_index + 1) - 1 = chunk_index
        BY <2>1, ClientSenderAssumption DEF TypeInv, TypeOK, ThreadTypeOK
      <3>3. PacketsIn[chunk_index] \in Nat /\ PacketsIn[chunk_index + 1] \in Nat
            /\ PacketsIn[chunk_index] < PacketsIn[chunk_index + 1]
        BY <3>2, ClientSenderAssumption
      <3>4. /\ NextPacket' = PacketsIn[chunk_index] /\ SentCount' = PacketsIn[chunk_index]
            /\ chunk_packets_qty' > 0
        BY <3>1, <3>2, <3>3 DEF NextPacket, SentCount, CurrentPacket, chunk_packets_qty
      <3>5. NextPacket = PacketsIn[chunk_index] /\ SentCount = NextPacket
        <4>1. CASE chunk_index = 0
          BY <3>1, <4>1, ClientSenderAssumption DEF NextPacket, SentCount
        <4>2. CASE chunk_index # 0
          <5>1. packet_idx = chunk_packets_qty
            BY <3>1, <4>2 DEF LoopInv
          <5>2. NextPacket = PacketsIn[chunk_index - 1] + packet_idx
            BY <4>2 DEF NextPacket, CurrentPacket
          <5> QED BY <3>1, <4>2, <5>1, <5>2, ChunkBounds, SentValues
        <4> QED BY <4>1, <4>2
      <3> QED BY <3>1, <3>4, <3>5 DEF LoopInv
    <2>2. CASE SendPacket
      <3>1. /\ spc = "send" /\ spc' = "compare"
            /\ UNCHANGED <<chunk_index, packet_idx, next_seq_num_idx, chunk_packets_qty>>
        BY <2>2 DEF SendPacket, chunk_packets_qty
      <3> QED BY <1>2, <2>2, <3>1, SendCounts DEF LoopInv
    <2>3. CASE IncNextSeqNum
      <3>1. /\ spc = "inc" /\ chunk_index # 0
            /\ next_seq_num_idx' = RingSucc(next_seq_num_idx)
            /\ packet_idx' = packet_idx + 1
            /\ UNCHANGED <<chunk_index, chunk_packets_qty>>
            /\ spc' = IF packet_idx + 1 < chunk_packets_qty THEN "lock" ELSE "chunkCheck"
        BY <2>3 DEF IncNextSeqNum, TypeInv, InChunk, chunk_packets_qty
      <3>2. /\ packet_idx \in Nat /\ chunk_packets_qty \in Nat
            /\ PacketsIn[chunk_index - 1] \in Nat
            /\ packet_idx < chunk_packets_qty
        BY <3>1, ChunkBounds DEF TypeInv, TypeOK, ThreadTypeOK, LoopInv
      <3>3. NextPacket \in Nat /\ NextPacket' = NextPacket + 1 /\ UNCHANGED SentCount
        BY <3>1, <3>2 DEF NextPacket, SentCount, CurrentPacket
      <3>4. next_seq_num_idx' = SeqNum(NextPacket')
        BY <3>1, <3>3, SeqNumSucc DEF LoopInv
      <3> QED BY <3>1, <3>2, <3>3, <3>4 DEF LoopInv
    <2>4. CASE ~ \/ ReadChunk /\ chunk_index # ChunkCount
                 \/ SendPacket \/ IncNextSeqNum
      <3>1. quiet
        BY <1>2, <2>4 DEF Sender, SenderThread, ReadChunk, LockForSend, CheckAdvance,
           BlockOnPacket, CompareForTimer, StartTimerOnSend, CheckChunk, BlockOnChunk,
           ResetChunkVars, FinishSending, EndConnection, StopTimerAtEnd, StopReceiver
      <3> QED BY <1>1, <3>1
    <2> QED BY <2>1, <2>2, <2>3, <2>4
  <1>3. CASE Wakeup
    BY <1>1, <1>3 DEF Wakeup, SpuriousWakeup
  <1>4. CASE Timers
    BY <1>1, <1>4 DEF Timers, TimerThread, TimerExpires, HandlerEntry, HandlerLock,
       HandlerResend, HandlerRestart
  <1>5. CASE AckCallback
    BY <1>1, <1>5 DEF AckCallback, AckedPacketCall, AckedCheck, AckedSetBase,
       AckedCompare, AckedStopTimer, AckedStartTimer, AckedCount, AckedNotifyPacket,
       AckedNotifyChunk
  <1>6. CASE Receiver
    BY <1>1, <1>6 DEF Receiver, ReceiverThread, ReceiveAck, ReceiveCorrupt,
       ReceiveEmpty, senderVars
  <1>7. CASE Environment
    BY <1>1, <1>7 DEF Environment, senderVars
  <1>8. CASE UNCHANGED vars
    BY <1>1, <1>8 DEF vars, senderVars
  <1> QED BY <1>2, <1>3, <1>4, <1>5, <1>6, <1>7, <1>8 DEF Next

\* A number that has been given out finds a packet, which has that number.
LEMMA SlotFound ==
  ASSUME TypeInv, FilledInv, NEW s \in SeqNums, s < SentCount
  PROVE  /\ window_map[s].pkt \in Nat /\ window_map[s].pkt < SentCount
         /\ window_map[s] # NoPacket
  <1>1. window_map[s].pkt \in Nat \cup {-1} /\ window_map[s].pkt # -1
    BY DEF TypeInv, TypeOK, WindowTypeOK, FilledInv
  <1> QED BY <1>1 DEF FilledInv, NoPacket

\* What timeoutHandler resends is in its slot: a loop that goes around the ring does
\* so when all its slots are in use.
LEMMA ResendsFilled ==
  ASSUME TypeInv, NumbersInv, FilledInv,
         ResendMore(resend.i, resend.bidx, resend.nseqnum)
  PROVE  /\ window_map[resend.i] # NoPacket /\ window_map[resend.i].pkt \in Nat
         /\ window_map[resend.i].pkt < SentCount
  <1>1. /\ resend.i \in SeqNums /\ resend.i \in Nat /\ resend.bidx \in Nat
        /\ resend.nseqnum \in Nat /\ resend.i < BufferSize /\ BufferSize \in Nat
    BY SeqNumbersAssumption DEF TypeInv, TypeOK, TimerTypeOK, SeqNums, BufferSize
  <1>2. SentCount \in Nat
    BY SentValues
  <1>3. resend.i < SentCount
    <2>1. resend.i < resend.nseqnum \/ BufferSize <= SentCount
      BY <1>1 DEF ResendMore, NumbersInv
    <2> QED BY <1>1, <1>2, <2>1 DEF NumbersInv
  <1> QED BY <1>1, <1>3, SlotFound

\* What has been sent, accepted or acknowledged stays so.
LEMMA CountsGrow ==
  ASSUME TypeInv, LoopInv, [Next]_vars
  PROVE  /\ SentCount \in Nat /\ SentCount' \in Nat /\ SentCount <= SentCount'
         /\ Len(delivered) \in Nat /\ Len(delivered') \in Nat
         /\ Len(delivered) <= Len(delivered')
         /\ Seq(Sent \cup {Empty}) \subseteq Seq(Sent \cup {Empty})'
         /\ Seq(Countable \cup {Empty}) \subseteq Seq(Countable \cup {Empty})'
  <1>1. SentCount \in Nat /\ SentCount' \in Nat /\ SentCount <= SentCount'
    BY LoopStep, SentValues, SendCounts
  <1>2. /\ Len(delivered) \in Nat /\ Len(delivered') \in Nat
        /\ Len(delivered) <= Len(delivered')
    <2>1. delivered \in Seq(Nat)
      BY DEF TypeInv, TypeOK, NetworkTypeOK
    <2>2. UNCHANGED delivered \/ \E i : delivered' = Append(delivered, data[i])
      BY Writers DEF ServerReceive
    <2> QED BY <2>1, <2>2
  <1>3. \A k \in Nat : SeqNum(k) \in Nat
    BY SeqNumType, SeqNumbersAssumption DEF SeqNums
  <1>4. Sent \subseteq Sent'
    <2>1. \A m, n \in Nat : m <= n => 0..(m - 1) \subseteq 0..(n - 1)
      OBVIOUS
    <2> QED BY <1>1, <2>1 DEF Sent
  <1>5. Countable \subseteq Countable'
    <2> SUFFICES ASSUME NEW k \in Nat, k < Len(delivered), SeqNum(k) < SentCount
                 PROVE  k < Len(delivered') /\ SeqNum(k) < SentCount'
      BY DEF Countable
    <2>1. SeqNum(k) \in Nat
      BY <1>3
    <2> QED BY <1>1, <1>2, <2>1
  <1>6. \A S, T : S \subseteq T => Seq(S) \subseteq Seq(T)
    <2> SUFFICES ASSUME NEW S, NEW T, S \subseteq T, NEW q \in Seq(S) PROVE q \in Seq(T)
      OBVIOUS
    <2> QED OBVIOUS
  <1>7. /\ Sent \cup {Empty} \subseteq (Sent \cup {Empty})'
        /\ Countable \cup {Empty} \subseteq (Countable \cup {Empty})'
    BY <1>4, <1>5 DEF Empty
  <1> QED BY <1>1, <1>2, <1>6, <1>7

\* Only packets that have been sent are on their way to the server.
LEMMA DataNumbers ==
  ASSUME TypeInv, LoopInv, NumbersInv, FilledInv, [Next]_vars
  PROVE  (data \in Seq(Sent \cup {Empty}))'
  <1> DEFINE S == Sent \cup {Empty}
  <1>1. UNCHANGED SentCount \/ (Sender /\ SendPacket)
    BY LoopStep
  <1>2. data \in Seq(S) /\ Seq(S) \subseteq Seq(S)' /\ SentCount \in Nat
    BY CountsGrow DEF NumbersInv
  <1>3. Empty \in S /\ Empty \in S'
    OBVIOUS
  <1>4. CASE Sender /\ SendPacket
    <2>1. CurrentPacket \in Sent'
      BY <1>2, <1>4, SendCounts DEF Sent
    <2>2. data \in Seq(S)' /\ CurrentPacket \in S'
      BY <1>2, <2>1
    <2>3. data' = Transmit(data, CurrentPacket)
      BY <1>4 DEF SendPacket
    <2> HIDE DEF S
    <2>4. data' \in Seq(S')
      BY <2>2, <2>3, TransmitType
    <2> QED BY <2>4 DEF S
  <1>5. CASE ~(Sender /\ SendPacket)
    <2>1. S' = S
      BY <1>1, <1>5 DEF Sent
    <2> SUFFICES data' \in Seq(S)
      BY <2>1
    <2>2. CASE UNCHANGED data
      BY <1>2, <2>2
    <2>3. CASE (Sender /\ EndConnection) \/ (AckCallback /\ AckedCheck)
      <3>1. data' \in {data, Transmit(data, Empty)}
        BY <2>3 DEF EndConnection, AckedCheck
      <3> HIDE DEF S
      <3> QED BY <1>2, <1>3, <3>1, TransmitType
    <2>4. CASE Timers
      <3>1. PICK h \in Handlers : TimerThread(h)
        BY <2>4 DEF Timers
      <3>2. UNCHANGED data \/ HandlerResend(h)
        BY <3>1 DEF TimerThread, TimerExpires, HandlerEntry, HandlerLock,
           HandlerRestart, networkVars
      <3>3. CASE HandlerResend(h)
        <4>1. \/ UNCHANGED data
              \/ /\ ResendMore(resend.i, resend.bidx, resend.nseqnum)
                 /\ data' = Transmit(data, window_map[resend.i].pkt)
          BY <3>3 DEF HandlerResend
        <4>2. ASSUME ResendMore(resend.i, resend.bidx, resend.nseqnum)
              PROVE  window_map[resend.i].pkt \in Sent
          BY <1>2, <4>2, ResendsFilled DEF Sent
        <4>3. ResendMore(resend.i, resend.bidx, resend.nseqnum)
                => window_map[resend.i].pkt \in S
          BY <4>2
        <4> HIDE DEF S
        <4> QED BY <1>2, <4>1, <4>3, TransmitType
      <3> QED BY <1>2, <3>2, <3>3
    <2>5. CASE Environment
      <3> HIDE DEF S
      <3>1. UNCHANGED data \/ \E i \in 1..Len(data) :
              data' = RemoveAt(data, i) \/ data' = InsertAt(data, i, data[i])
        BY <2>5, DeliverableType DEF Environment, NetworkNext, ServerReceive, ServerClose,
           LoseData, LoseAck, DuplicateData, DuplicateAck
      <3> QED BY <1>2, <3>1, RemoveAtType, InsertAtType
    <2> QED BY <1>5, <2>2, <2>3, <2>4, <2>5, Writers
  <1> QED BY <1>4, <1>5

\* The server acknowledges numbers that have been given out.
LEMMA AckNumbers ==
  ASSUME TypeInv, LoopInv, NumbersInv, [Next]_vars
  PROVE  /\ (acks \in Seq(Countable \cup {Empty}))'
         /\ (delivered # <<>> => SeqNum(Len(delivered) - 1) < SentCount)'
  <1> DEFINE S == Countable \cup {Empty}
  <1>1. /\ acks \in Seq(S) /\ data \in Seq(Sent \cup {Empty}) /\ Seq(S) \subseteq Seq(S)'
        /\ delivered # <<>> => SeqNum(Len(delivered) - 1) < SentCount
        /\ SentCount \in Nat /\ SentCount' \in Nat /\ SentCount <= SentCount'
        /\ delivered \in Seq(Nat)
    BY CountsGrow DEF NumbersInv, TypeInv, TypeOK, NetworkTypeOK
  <1>2. \A k \in Nat : SeqNum(k) \in Nat /\ SeqNum(k) <= k
    BY SeqNumType, SeqNumAtMost, SeqNumbersAssumption DEF SeqNums
  <1>3. CASE UNCHANGED delivered
    <2>1. (delivered # <<>> => SeqNum(Len(delivered) - 1) < SentCount)'
      BY <1>1, <1>2, <1>3
    <2> SUFFICES acks' \in Seq(S)
      BY <1>1, <2>1
    <2>2. CASE UNCHANGED acks
      BY <1>1, <2>2
    <2>3. CASE Receiver
      <3> HIDE DEF S
      <3>1. \E i \in 1..Len(acks) : acks' = RemoveAt(acks, i)
        BY <2>3, DeliverableType DEF Receiver, ReceiverThread, ReceiveAck,
           ReceiveCorrupt, ReceiveEmpty
      <3> QED BY <1>1, <3>1, RemoveAtType
    <2>4. CASE Environment
      <3>1. delivered # <<>> => Len(delivered) - 1 \in S
        BY <1>1 DEF Countable
      <3>2. Empty \in S
        OBVIOUS
      <3> HIDE DEF S
      <3>3. \/ acks' \in {acks, Transmit(acks, Empty)}
            \/ delivered # <<>> /\ acks' = Transmit(acks, Len(delivered) - 1)
            \/ \E i \in 1..Len(acks) :
                 acks' = RemoveAt(acks, i) \/ acks' = InsertAt(acks, i, acks[i])
        BY <1>3, <2>4, DeliverableType DEF Environment, NetworkNext, ServerReceive,
           ServerClose, LoseData, LoseAck, DuplicateData, DuplicateAck
      <3> QED BY <1>1, <3>1, <3>2, <3>3, TransmitType, RemoveAtType, InsertAtType
    <2> QED BY <2>2, <2>3, <2>4, Writers
  <1>4. CASE Environment /\ ServerReceive /\ delivered' # delivered
    <2>1. PICK i \in Deliverable(data) :
            /\ data[i] # Empty
            /\ delivered' = Append(delivered, data[i])
            /\ SeqNum(data[i]) = SeqNum(Len(delivered))
            /\ acks' = IF delivered' = <<>> THEN acks
                       ELSE Transmit(acks, Len(delivered') - 1)
      BY <1>4 DEF ServerReceive
    <2>2. data[i] \in Sent
      BY <1>1, <2>1, DeliverableType
    <2>3. data[i] \in Nat /\ SeqNum(data[i]) < SentCount
      <3>1. data[i] \in Nat /\ data[i] < SentCount
        BY <1>1, <2>2 DEF Sent
      <3>2. SeqNum(data[i]) \in Nat /\ SeqNum(data[i]) <= data[i]
        BY <1>2, <3>1
      <3> QED BY <1>1, <3>1, <3>2
    <2>4. /\ Len(delivered') - 1 = Len(delivered) /\ Len(delivered) \in Nat
          /\ SeqNum(Len(delivered)) < SentCount
      BY <1>1, <2>1, <2>3
    <2>5. /\ SeqNum(Len(delivered') - 1) < SentCount'
          /\ Len(delivered') - 1 \in Nat /\ Len(delivered') - 1 < Len(delivered')
      <3>1. SeqNum(Len(delivered)) \in Nat
        BY <1>2, <2>4
      <3>2. Len(delivered') \in Nat
        BY <1>1, <2>1, <2>3
      <3> QED BY <1>1, <2>4, <3>1, <3>2
    <2>8. Len(delivered') - 1 \in S'
      BY <2>5 DEF Countable
    <2>6. acks \in Seq(S')
      BY <1>1
    <2>7. acks' \in Seq(S')
      <3> HIDE DEF S
      <3> QED BY <2>1, <2>6, <2>8, TransmitType
    <2> QED BY <2>5, <2>7
  <1> QED BY <1>3, <1>4, Writers

\* ackedPacket, base_idx and timeoutHandler's copies.
LEMMA LocalNumbers ==
  ASSUME TypeInv, MutexInv, LoopInv, NumbersInv, [Next]_vars
  PROVE  /\ (HasNumber => aseq < SentCount /\ aseq < Len(delivered))'
         /\ (base_idx <= SentCount /\ base_idx <= Len(delivered))'
         /\ (resend.nseqnum <= SentCount)'
         /\ (resend.bidx > resend.nseqnum => BufferSize <= SentCount)'
  <1>1. /\ SentCount \in Nat /\ SentCount' \in Nat /\ SentCount <= SentCount'
        /\ Len(delivered) \in Nat /\ Len(delivered') \in Nat
        /\ Len(delivered) <= Len(delivered')
    BY CountsGrow
  <1>2. /\ base_idx \in Nat /\ aseq \in Nat /\ aseq \in SeqNums /\ BufferSize \in Nat
        /\ next_seq_num_idx \in Nat /\ resend.nseqnum \in Nat /\ resend.bidx \in Nat
        /\ max_seq_num_b10 \in Nat
    BY SeqNumbersAssumption DEF TypeInv, TypeOK, WindowTypeOK, TimerTypeOK, SeqNums,
       BufferSize
  <1>3. (HasNumber => aseq < SentCount /\ aseq < Len(delivered))'
    <2>1. CASE Receiver /\ ReceiveAck
      <3>1. PICK i \in Deliverable(acks) : acks[i] # Empty /\ aseq' = SeqNum(acks[i])
        BY <2>1 DEF ReceiveAck, ackedPacket
      <3>2. acks[i] \in Countable
        BY <3>1, DeliverableType DEF NumbersInv
      <3>3. aseq' < SentCount /\ aseq' < Len(delivered) /\ aseq' \in Nat
        <4>1. acks[i] \in Nat /\ acks[i] < Len(delivered) /\ aseq' < SentCount
          BY <3>1, <3>2 DEF Countable
        <4>2. aseq' \in Nat /\ aseq' <= acks[i]
          BY <3>1, <4>1, SeqNumType, SeqNumAtMost, SeqNumbersAssumption DEF SeqNums
        <4> QED BY <1>1, <4>1, <4>2
      <3> QED BY <1>1, <3>3
    <2>2. CASE ~(Receiver /\ ReceiveAck)
      <3>1. HasNumber' => HasNumber /\ UNCHANGED aseq
        <4>1. CASE AckCallback
          BY <4>1 DEF AckCallback, AckedPacketCall, AckedCheck, AckedSetBase,
             AckedCompare, AckedStopTimer, AckedStartTimer, AckedCount,
             AckedNotifyPacket, AckedNotifyChunk, ackedPacketReturns, HasNumber,
             AckedFound, ackedVars
        <4>2. CASE UNCHANGED <<apc, aseq>>
          BY <4>2 DEF HasNumber
        <4> QED BY <2>2, <4>1, <4>2, Writers
      <3> QED BY <1>1, <1>2, <3>1 DEF NumbersInv
    <2> QED BY <2>1, <2>2
  <1>4. base_idx' <= SentCount' /\ base_idx' <= Len(delivered')
    <2>1. CASE AckCallback /\ AckedSetBase
      <3>1. base_idx' = RingSucc(aseq) /\ aseq < SentCount /\ aseq < Len(delivered)
        BY <2>1 DEF AckedSetBase, NumbersInv, HasNumber, AckedFound
      <3>2. RingSucc(aseq) <= aseq + 1 /\ RingSucc(aseq) \in Nat
        BY <1>2, RingSuccCases
      <3> QED BY <1>1, <1>2, <3>1, <3>2
    <2>2. CASE UNCHANGED base_idx
      BY <1>1, <1>2, <2>2 DEF NumbersInv
    <2> QED BY <2>1, <2>2, Writers
  <1>5. /\ resend'.nseqnum <= SentCount'
        /\ resend'.bidx > resend'.nseqnum => BufferSize <= SentCount'
    <2>1. CASE resend'.nseqnum = resend.nseqnum /\ resend'.bidx = resend.bidx
      BY <1>1, <1>2, <2>1 DEF NumbersInv
    <2>2. CASE Timers
      <3>1. PICK h \in Handlers : TimerThread(h)
        BY <2>2 DEF Timers
      <3>2. CASE HandlerLock(h)
        <4>1. /\ resend' = [i |-> base_idx, bidx |-> base_idx, nseqnum |-> next_seq_num_idx]
              /\ ~packet_send_mutex
          BY <3>2 DEF HandlerLock
        <4>2. SentCount = NextPacket /\ NextPacket \in Nat
          BY <4>1, SentValues DEF MutexInv, MutexHeld, SenderHolds
        <4>3. next_seq_num_idx = SeqNum(SentCount) /\ base_idx <= SentCount
          BY <4>2 DEF LoopInv, NumbersInv
        <4>4. next_seq_num_idx <= SentCount
          BY <1>1, <4>3, SeqNumAtMost
        <4>5. base_idx > next_seq_num_idx => BufferSize <= SentCount
          <5> SUFFICES ASSUME ~(BufferSize <= SentCount) PROVE next_seq_num_idx = SentCount
            BY <1>1, <1>2, <4>3
          <5>1. SentCount <= max_seq_num_b10
            BY <1>1, <1>2 DEF BufferSize
          <5> QED BY <1>1, <4>3, <5>1, SeqNumSmall
        <4> QED BY <1>1, <1>2, <4>1, <4>4, <4>5
      <3>3. CASE HandlerRestart(h)
        BY <1>1, <3>3 DEF HandlerRestart, NoResend
      <3>4. CASE TimerExpires(h) \/ HandlerEntry(h) \/ HandlerResend(h)
        <4>1. resend \in [i : SeqNums, bidx : SeqNums, nseqnum : SeqNums]
          BY DEF TypeInv, TypeOK, TimerTypeOK
        <4>2. resend'.nseqnum = resend.nseqnum /\ resend'.bidx = resend.bidx
          BY <3>4, <4>1 DEF TimerExpires, HandlerEntry, HandlerResend
        <4> QED BY <2>1, <4>2
      <3> QED BY <3>1, <3>2, <3>3, <3>4 DEF TimerThread
    <2> QED BY <2>1, <2>2, Writers
  <1> QED BY <1>3, <1>4, <1>5

\* sendPacketReliable fills the slot of the number it gives out; no step empties one.
LEMMA FilledStep ==
  ASSUME TypeInv, LoopInv, NumbersInv, FilledInv, [Next]_vars
  PROVE  FilledInv'
  <1>1. UNCHANGED SentCount \/ (Sender /\ SendPacket)
    BY LoopStep
  <1>0. /\ Len(delivered) \in Nat /\ Len(delivered') \in Nat
        /\ Len(delivered) <= Len(delivered')
    BY CountsGrow
  <1>2. /\ window_map \in [SeqNums -> [pkt : Nat \cup {-1}, acked : BOOLEAN]]
        /\ aseq \in SeqNums /\ next_seq_num_idx \in SeqNums
        /\ SeqNums \subseteq Nat
    BY SeqNumbersAssumption DEF SeqNums, TypeInv, TypeOK, WindowTypeOK
  <1>3. CASE Sender /\ SendPacket
    <2>1. /\ SentCount' = SentCount + 1 /\ CurrentPacket = SentCount /\ SentCount \in Nat
          /\ next_seq_num_idx = SeqNum(SentCount)
      BY <1>3, SendCounts, SentValues DEF LoopInv
    <2>2. window_map' = [window_map EXCEPT ![SeqNum(SentCount)] =
                           [pkt |-> SentCount, acked |-> FALSE]]
      BY <1>3, <2>1 DEF SendPacket, NewPacket
    <2>3. ASSUME NEW s \in SeqNums, s < SentCount'
          PROVE  s < SentCount \/ s = SeqNum(SentCount)
      <3>1. s \in Nat /\ s <= max_seq_num_b10
        BY SeqNumbersAssumption DEF SeqNums
      <3>2. s = SentCount => s = SeqNum(SentCount)
        BY <3>1, SeqNumSmall
      <3> QED BY <2>1, <2>3, <3>1, <3>2
    <2>4. \A s \in SeqNums : window_map'[s] = IF s = SeqNum(SentCount)
                                              THEN [pkt |-> SentCount, acked |-> FALSE]
                                              ELSE window_map[s]
      BY <1>2, <2>2
    <2>5. \A s \in SeqNums : s < SentCount' => window_map'[s].pkt # -1
      BY <2>1, <2>3, <2>4 DEF FilledInv
    <2>6. \A s \in SeqNums : window_map'[s].pkt # -1 =>
            window_map'[s].pkt < SentCount' /\ SeqNum(window_map'[s].pkt) = s
      <3> SUFFICES ASSUME NEW s \in SeqNums, window_map'[s].pkt # -1
                   PROVE  window_map'[s].pkt < SentCount' /\ SeqNum(window_map'[s].pkt) = s
        OBVIOUS
      <3>1. CASE s = SeqNum(SentCount)
        BY <2>1, <2>4, <3>1
      <3>2. CASE s # SeqNum(SentCount)
        <4>1. window_map'[s] = window_map[s] /\ window_map[s].pkt \in Nat \cup {-1}
          BY <1>2, <2>4, <3>2
        <4> QED BY <2>1, <4>1 DEF FilledInv
      <3> QED BY <3>1, <3>2
    <2>7. \A s \in SeqNums : window_map'[s].acked => s < Len(delivered')
      BY <1>0, <1>2, <2>4 DEF FilledInv
    <2> QED BY <2>5, <2>6, <2>7 DEF FilledInv
  <1>4. CASE ~(Sender /\ SendPacket)
    <2>1. \A s \in SeqNums : /\ window_map'[s].pkt = window_map[s].pkt
                             /\ window_map'[s].acked =>
                                  window_map[s].acked \/ s < Len(delivered)
      <3>1. CASE AckCallback /\ AckedCount
        <4>1. window_map' = [window_map EXCEPT ![aseq].acked = TRUE]
              /\ aseq < Len(delivered)
          BY <3>1 DEF AckedCount, NumbersInv, HasNumber, AckedFound
        <4> QED BY <1>2, <4>1
      <3> QED BY <1>4, <3>1, Writers
    <2> QED BY <1>0, <1>1, <1>2, <1>4, <2>1 DEF FilledInv
  <1> QED BY <1>3, <1>4

\* Without an ACK the sender thread does not get out of its first chunk.
LEMMA FirstAckStep ==
  ASSUME TypeInv, FirstAckInv, [Next]_vars
  PROVE  FirstAckInv'
  <1> SUFFICES ASSUME last_acked_packet' = -1
               PROVE  /\ acked_count' = 0
                      /\ chunk_index' # 0 =>
                           chunk_index' = 1 /\ ~BetweenChunks' /\ spc' # "reset"
    BY DEF FirstAckInv
  <1>1. UNCHANGED last_acked_packet /\ ~(AckCallback /\ AckedCount)
    <2>1. AckCallback /\ AckedCount => last_acked_packet' \in Nat
      BY SeqNumbersAssumption DEF AckedCount, TypeInv, TypeOK, SeqNums
    <2> QED BY <2>1, Writers
  <1>2. /\ acked_count = 0
        /\ chunk_index # 0 => chunk_index = 1 /\ ~BetweenChunks /\ spc # "reset"
    BY <1>1 DEF FirstAckInv
  <1> USE DEF BetweenChunks, threadVars, countVars
  <1>3. CASE Sender
    <2>1. CASE ReadChunk
      <3>1. chunk_index = 0
        BY <1>2, <2>1 DEF ReadChunk
      <3> QED BY <1>2, <2>1, <3>1 DEF ReadChunk
    <2>2. CASE CheckChunk
      <3>1. spc = "chunkCheck" /\ chunk_index # 0
        BY <2>2 DEF CheckChunk, TypeInv, InChunk
      <3>2. acked_count # chunk_packets_qty
        BY <1>2, <3>1, ChunkBounds
      <3> QED BY <1>2, <2>2, <3>2 DEF CheckChunk
    <2>3. CASE IncNextSeqNum
      BY <1>2, <2>3 DEF IncNextSeqNum, TypeInv, InChunk
    <2>4. CASE ~(ReadChunk \/ CheckChunk \/ IncNextSeqNum)
      BY <1>2, <1>3, <2>4 DEF Sender, SenderThread, LockForSend, CheckAdvance,
         BlockOnPacket, SendPacket, CompareForTimer, StartTimerOnSend, BlockOnChunk,
         ResetChunkVars, FinishSending, EndConnection, StopTimerAtEnd, StopReceiver,
         TypeInv, InChunk
    <2> QED BY <2>1, <2>2, <2>3, <2>4
  <1>4. CASE Wakeup
    BY <1>2, <1>4 DEF Wakeup, SpuriousWakeup
  <1>5. CASE Timers
    BY <1>2, <1>5 DEF Timers, TimerThread, TimerExpires, HandlerEntry, HandlerLock,
       HandlerResend, HandlerRestart
  <1>6. CASE AckCallback
    BY <1>1, <1>2, <1>6 DEF AckCallback, AckedPacketCall, AckedCheck, AckedSetBase,
       AckedCompare, AckedStopTimer, AckedStartTimer, AckedNotifyPacket,
       AckedNotifyChunk
  <1>7. CASE Receiver
    BY <1>2, <1>7 DEF Receiver, ReceiverThread, ReceiveAck, ReceiveCorrupt,
       ReceiveEmpty, senderVars
  <1>8. CASE Environment
    BY <1>2, <1>8 DEF Environment, senderVars
  <1>9. CASE UNCHANGED vars
    BY <1>2, <1>9 DEF vars, senderVars
  <1> QED BY <1>3, <1>4, <1>5, <1>6, <1>7, <1>8, <1>9 DEF Next

\* A number that has been given out is never looked up in vain, and the Timer object
\* that the first ACK found is there for the later ones.
LEMMA CrashStep ==
  ASSUME TypeInv, NumbersInv, FilledInv, CrashInv, [Next]_vars
  PROVE  CrashInv'
  <1>1. timeoutTimer # "null" => timeoutTimer' # "null"
    BY Writers DEF StopTimerAtEnd
  <1>2. CASE AckCallback /\ AckedCount
    <2>1. apc = "count" /\ crash = "none" /\ UNCHANGED crash
      BY <1>2 DEF AckCallback, Running, AckedCount
    <2> QED BY <1>1, <2>1 DEF CrashInv
  <1>3. CASE ~(AckCallback /\ AckedCount)
    <2>1. UNCHANGED last_acked_packet
      BY <1>3, Writers
    <2>2. apc' = "count" => apc = "count" \/ timeoutTimer' # "null"
      <3>1. CASE AckCallback
        BY <3>1 DEF AckCallback, AckedPacketCall, AckedCheck, AckedSetBase,
           AckedCompare, AckedStopTimer, AckedStartTimer, AckedCount,
           AckedNotifyPacket, AckedNotifyChunk, ackedPacketReturns, ackedVars
      <3>2. CASE Receiver /\ ReceiveAck
        BY <3>2 DEF ReceiveAck, ackedPacket
      <3> QED BY <3>1, <3>2, Writers
    <2>3. crash' # "window_map" /\ (crash' = "timeoutTimer" => last_acked_packet = -1)
      <3>1. CASE Timers
        <4>1. PICK h \in Handlers : TimerThread(h)
          BY <3>1 DEF Timers
        <4>2. UNCHANGED crash
          BY <4>1, ResendsFilled DEF TimerThread, TimerExpires, HandlerEntry,
             HandlerLock, HandlerResend, HandlerRestart
        <4> QED BY <4>2 DEF CrashInv
      <3>2. CASE AckCallback /\ AckedCheck
        <4>1. aseq \in SeqNums /\ aseq < SentCount
          BY <3>2 DEF AckedCheck, NumbersInv, HasNumber, TypeInv, TypeOK
        <4>2. UNCHANGED crash
          BY <3>2, <4>1, SlotFound DEF AckedCheck
        <4> QED BY <4>2 DEF CrashInv
      <3>3. CASE AckCallback /\ AckedStopTimer
        BY <3>3 DEF AckedStopTimer, CrashInv
      <3>4. CASE ~ \/ Timers
                   \/ AckCallback /\ AckedCheck
                   \/ AckCallback /\ AckedStopTimer
        <4>1. AckCallback => UNCHANGED crash
          BY <3>4 DEF AckCallback, AckedPacketCall, AckedSetBase, AckedCompare,
             AckedStartTimer, AckedCount, AckedNotifyPacket, AckedNotifyChunk
        <4>2. UNCHANGED crash
          BY <3>4, <4>1, Writers
        <4> QED BY <4>2 DEF CrashInv
      <3> QED BY <3>1, <3>2, <3>3, <3>4
    <2> QED BY <1>1, <2>1, <2>2, <2>3 DEF CrashInv
  <1> QED BY <1>2, <1>3

\* It holds when Client::start has launched the threads.
LEMMA AnyNetworkInit == Init => AnyNetworkInv
  <1> SUFFICES ASSUME Init PROVE AnyNetworkInv
    OBVIOUS
  <1> USE DEF Init, NetworkInit, SenderInit
  <1>1. SeqNum(0) = 0 /\ NextPacket = 0 /\ SentCount = 0
    BY SeqNumSmall, SeqNumbersAssumption DEF NextPacket, SentCount
  <1>2. LoopInv
    BY <1>1 DEF LoopInv, Sending, Waiting
  <1>3. NumbersInv
    <2>1. data \in Seq(Sent \cup {Empty}) /\ acks \in Seq(Countable \cup {Empty})
      OBVIOUS
    <2> QED BY <1>1, <2>1 DEF NumbersInv, HasNumber, AckedFound, NoResend
  <1>4. FilledInv
    <2>1. \A s \in SeqNums : s \in Nat /\ window_map[s].pkt = -1 /\ ~window_map[s].acked
      BY SeqNumbersAssumption DEF NoPacket, SeqNums
    <2> QED BY <1>1, <2>1 DEF FilledInv
  <1>5. FirstAckInv /\ CrashInv
    BY DEF FirstAckInv, CrashInv
  <1> QED BY <1>2, <1>3, <1>4, <1>5 DEF AnyNetworkInv

\* No step of a thread or of a network breaks it.
LEMMA AnyNetworkStep ==
  TypeInv /\ MutexInv /\ AnyNetworkInv /\ [Next]_vars => AnyNetworkInv'
  <1> SUFFICES ASSUME TypeInv, MutexInv, AnyNetworkInv, [Next]_vars PROVE AnyNetworkInv'
    OBVIOUS
  <1>1. LoopInv /\ NumbersInv /\ FilledInv /\ FirstAckInv /\ CrashInv
    BY DEF AnyNetworkInv
  <1>2. LoopInv' /\ FilledInv' /\ FirstAckInv' /\ CrashInv'
    BY <1>1, LoopStep, FilledStep, FirstAckStep, CrashStep
  <1>3. NumbersInv'
    BY <1>1, DataNumbers, AckNumbers, LocalNumbers DEF NumbersInv
  <1> QED BY <1>2, <1>3 DEF AnyNetworkInv

\* It holds for ever, whatever the network does.
LEMMA AnyNetworkInvariant == Spec => [](TypeInv /\ MutexInv /\ AnyNetworkInv)
  <1>1. Init => TypeInv /\ MutexInv /\ AnyNetworkInv
    BY TypeInit, AnyNetworkInit DEF Init, SenderInit, MutexInv, MutexHeld,
       MutexExclusive, SenderHolds, HandlerHolds
  <1>2. TypeInv /\ MutexInv /\ AnyNetworkInv /\ [Next]_vars
          => (TypeInv /\ MutexInv /\ AnyNetworkInv)'
    BY TypeStep, MutexStep, AnyNetworkStep
  <1> QED BY <1>1, <1>2, PTL DEF Spec

\* On every network, one that reorders datagrams included, neither ackedPacket nor
\* timeoutHandler dereferences an empty slot of window_map, although both look it up
\* by a number they read earlier.
THEOREM NoEmptySlot == Spec => []NoNullPacket
  <1>1. AnyNetworkInv => NoNullPacket
    BY DEF AnyNetworkInv, CrashInv, NoNullPacket
  <1> QED BY <1>1, AnyNetworkInvariant, PTL

\* On every network the dereference of a null timeoutTimer in ackedPacket can hit the
\* first ACK of a transfer and no later one.
THEOREM NullTimerFirstAck == Spec => []NullTimerOnlyOnFirstAck
  <1>1. TypeInv /\ AnyNetworkInv => NullTimerOnlyOnFirstAck
    <2> SUFFICES ASSUME TypeInv, AnyNetworkInv, crash = "timeoutTimer"
                 PROVE  last_acked_packet = -1 /\ ConfirmedCount = 0
      BY DEF NullTimerOnlyOnFirstAck
    <2>1. /\ last_acked_packet = -1 /\ acked_count = 0
          /\ chunk_index # 0 => chunk_index = 1 /\ ~BetweenChunks
      BY DEF AnyNetworkInv, CrashInv, FirstAckInv
    <2>2. PacketsIn[0] = 0
      BY ClientSenderAssumption
    <2>3. chunk_index = 0 => BetweenChunks
      BY DEF TypeInv, InChunk, BetweenChunks
    <2>4. ConfirmedCount = PacketsIn[0]
      BY <2>1, <2>2, <2>3 DEF ConfirmedCount, BetweenChunks
    <2> QED BY <2>1, <2>2, <2>4
  <1> QED BY <1>1, AnyNetworkInvariant, PTL

\* On every network packet k of the file is in the slot, and has the number, SeqNum(k):
\* the sender thread counts around the ring across chunks without a slip.
THEOREM SlotsNumbered == Spec => []SlotNumbers
  <1>1. AnyNetworkInv => SlotNumbers
    BY DEF AnyNetworkInv, FilledInv, SlotNumbers
  <1> QED BY <1>1, AnyNetworkInvariant, PTL
-----------------------------------------------------------------------------
(* Files no longer than the ring, on every network: no number is used      *)
(* twice, and what the invariant above says of numbers it says of packets. *)
(* GoBackNProofs is about longer files, on networks that keep the order.   *)

\* Every packet of the file has a number of its own; and one number is left over.
FitsRing == PacketsIn[ChunkCount] <= BufferSize
SparesNumber == PacketsIn[ChunkCount] < BufferSize

\* What has been sent is of the file, and there is more as long as sendChunk sends.
LEMMA SentInFile ==
  ASSUME TypeInv, LoopInv
  PROVE  /\ SentCount <= PacketsIn[ChunkCount] /\ PacketsIn[ChunkCount] \in Nat
         /\ spc \in {"check", "send"} => SentCount < PacketsIn[ChunkCount]
  <1>0. PacketsIn[ChunkCount] \in Nat /\ packet_idx \in Nat /\ spc \in SenderPCs
    BY ClientSenderAssumption DEF TypeInv, TypeOK, ThreadTypeOK
  <1>1. CASE chunk_index = 0
    BY <1>0, <1>1 DEF SentCount, TypeInv, InChunk
  <1>2. CASE chunk_index # 0
    <2>1. /\ SentCount = PacketsIn[chunk_index - 1] + packet_idx
               + (IF spc \in {"compare", "startTimer", "inc"} THEN 1 ELSE 0)
      BY <1>2 DEF SentCount, CurrentPacket
    <2>2. \/ packet_idx < chunk_packets_qty
          \/ /\ packet_idx = chunk_packets_qty
             /\ spc \notin {"check", "send", "compare", "startTimer", "inc"}
      BY <1>0, <1>2 DEF LoopInv, Sending, Waiting, BetweenChunks, SenderPCs
    <2> QED BY <1>0, <1>2, <2>1, <2>2, ChunkBounds
  <1> QED BY <1>1, <1>2

\* Then the ring positions are indices in the file.
LEMMA NextIsCount ==
  ASSUME FitsRing, TypeInv, LoopInv, spc \in {"check", "send"}
  PROVE  next_seq_num_idx = SentCount /\ SentCount \in Nat /\ SentCount <= max_seq_num_b10
  <1>1. SentCount \in Nat /\ SentCount = NextPacket /\ max_seq_num_b10 \in Nat
    BY SentValues, SeqNumbersAssumption
  <1>2. SentCount <= max_seq_num_b10
    BY <1>1, SentInFile DEF FitsRing, BufferSize
  <1> QED BY <1>1, <1>2, SeqNumSmall DEF LoopInv

\* The window, and that canAdvance has been true when the sender thread sends.
ShortWindow ==
  /\ WindowRespected
  /\ spc = "send" => SentCount < Len(delivered) + window_size

\* base_idx may move back with a late ACK, but never past what the server has.
LEMMA ShortWindowStep ==
  ASSUME FitsRing, TypeInv, LoopInv, NumbersInv, ShortWindow, [Next]_vars
  PROVE  ShortWindow'
  <1>1. /\ SentCount \in Nat /\ Len(delivered) \in Nat /\ Len(delivered') \in Nat
        /\ Len(delivered) <= Len(delivered') /\ window_size \in Nat
    BY CountsGrow, SeqNumbersAssumption
  <1>2. CASE Sender /\ SendPacket
    <2>1. /\ SentCount' = SentCount + 1 /\ spc' # "send"
          /\ SentCount < Len(delivered) + window_size
      BY <1>2, SendCounts DEF SendPacket, ShortWindow
    <2> QED BY <1>1, <2>1 DEF ShortWindow, WindowRespected
  <1>3. CASE ~(Sender /\ SendPacket)
    <2>1. UNCHANGED SentCount
      BY <1>3, LoopStep
    <2>2. WindowRespected'
      BY <1>1, <2>1 DEF ShortWindow, WindowRespected
    <2>3. CASE Sender /\ CheckAdvance /\ spc' = "send"
      <3>1. spc = "check" /\ canAdvance(base_idx, next_seq_num_idx)
        BY <2>3 DEF CheckAdvance
      <3>2. /\ next_seq_num_idx = SentCount /\ base_idx <= SentCount
            /\ base_idx <= Len(delivered) /\ base_idx \in Nat
        BY <3>1, NextIsCount, SeqNumbersAssumption
        DEF NumbersInv, TypeInv, TypeOK, WindowTypeOK, SeqNums
      <3>3. SentCount < base_idx + window_size
        BY <1>1, <3>1, <3>2 DEF canAdvance
      <3> QED BY <1>1, <2>1, <2>2, <3>2, <3>3 DEF ShortWindow
    <2>4. CASE spc' = "send" => spc = "send"
      BY <1>1, <2>1, <2>2, <2>4 DEF ShortWindow
    <2> QED BY <2>3, <2>4, Writers
  <1> QED BY <1>2, <1>3

\* With every number used once and reordering allowed, the sender thread is still
\* never more than window_size packets ahead of the server.
THEOREM ShortFileWindow ==
  ASSUME FitsRing
  PROVE  Spec => []WindowRespected
  <1> DEFINE I == TypeInv /\ MutexInv /\ AnyNetworkInv
  <1>1. Init => ShortWindow
    BY SeqNumbersAssumption DEF Init, SenderInit, NetworkInit, ShortWindow,
       WindowRespected, SentCount
  <1>2. I /\ ShortWindow /\ [Next]_vars => ShortWindow'
    BY ShortWindowStep DEF AnyNetworkInv
  <1>3. ShortWindow => WindowRespected
    BY DEF ShortWindow
  <1> QED BY <1>1, <1>2, <1>3, AnyNetworkInvariant, PTL DEF Spec

\* With every number used once, the packet ackedPacket marks is one the server has,
\* however late its ACK comes.
THEOREM ShortFileMarks ==
  ASSUME FitsRing
  PROVE  Spec => []AckedWasDelivered
  <1>1. TypeInv /\ AnyNetworkInv => AckedWasDelivered
    <2> SUFFICES ASSUME TypeInv, AnyNetworkInv, NEW s \in SeqNums, window_map[s].acked
                 PROVE  window_map[s].pkt < Len(delivered)
      BY DEF AckedWasDelivered
    <2>1. /\ s < Len(delivered) /\ s \in Nat /\ Len(delivered) \in Nat
          /\ window_map[s].pkt \in Nat \cup {-1}
          /\ max_seq_num_b10 \in Nat
      BY SeqNumbersAssumption DEF AnyNetworkInv, FilledInv, TypeInv, TypeOK,
         WindowTypeOK, NetworkTypeOK, SeqNums
    <2>2. CASE window_map[s].pkt = -1
      BY <2>1, <2>2
    <2>3. CASE window_map[s].pkt \in Nat
      <3>1. window_map[s].pkt < SentCount /\ SeqNum(window_map[s].pkt) = s
        BY <2>3 DEF AnyNetworkInv, FilledInv
      <3>2. window_map[s].pkt <= max_seq_num_b10
        BY <2>1, <2>3, <3>1, SentInFile, SentValues
        DEF AnyNetworkInv, FitsRing, BufferSize
      <3>3. window_map[s].pkt = s
        BY <2>3, <3>1, <3>2, SeqNumSmall
      <3> QED BY <2>1, <3>3
    <2> QED BY <2>1, <2>2, <2>3
  <1> QED BY <1>1, AnyNetworkInvariant, PTL

\* With every number used once, ackedPacket never looks up the slot that
\* sendPacketReliable is about to fill.
THEOREM ShortFileSlots ==
  ASSUME FitsRing
  PROVE  Spec => []NoSlotRace
  <1>1. TypeInv /\ AnyNetworkInv => NoSlotRace
    <2> SUFFICES ASSUME TypeInv, AnyNetworkInv, spc = "send", apc \in {"check", "count"},
                        aseq = next_seq_num_idx
                 PROVE  FALSE
      BY DEF NoSlotRace
    <2>1. aseq < SentCount
      BY DEF AnyNetworkInv, NumbersInv, HasNumber, AckedFound
    <2>2. aseq = SentCount /\ SentCount \in Nat
      BY NextIsCount DEF AnyNetworkInv
    <2> QED BY <2>1, <2>2
  <1> QED BY <1>1, AnyNetworkInvariant, PTL

\* With every number used once, a packet that has not been accepted stays in its
\* slot.
THEOREM ShortFileReuse ==
  ASSUME FitsRing
  PROVE  Spec => SlotReuse
  <1> DEFINE I == TypeInv /\ MutexInv /\ AnyNetworkInv
  <1>1. I /\ [Next]_vars
          => [\A s \in SeqNums : window_map'[s].pkt # window_map[s].pkt
                => window_map[s].pkt < Len(delivered)]_vars
    <2> SUFFICES ASSUME TypeInv, AnyNetworkInv, [Next]_vars, NEW s \in SeqNums,
                        window_map'[s].pkt # window_map[s].pkt
                 PROVE  window_map[s].pkt < Len(delivered)
      OBVIOUS
    <2>0. /\ window_map \in [SeqNums -> [pkt : Nat \cup {-1}, acked : BOOLEAN]]
          /\ aseq \in SeqNums /\ delivered \in Seq(Nat)
      BY DEF TypeInv, TypeOK, WindowTypeOK, NetworkTypeOK
    <2>1. ~AckedCount
      BY <2>0 DEF AckedCount
    <2>2. SendPacket
      BY <2>1, Writers
    <2>3. s = SentCount /\ SentCount \in Nat
      <3>1. spc = "send" /\ s = next_seq_num_idx
        BY <2>0, <2>2 DEF SendPacket
      <3> QED BY <3>1, NextIsCount DEF AnyNetworkInv
    <2>4. window_map[s].pkt = -1
      <3> SUFFICES ASSUME window_map[s].pkt # -1 PROVE FALSE
        OBVIOUS
      <3>1. /\ window_map[s].pkt < SentCount /\ window_map[s].pkt \in Nat
            /\ SeqNum(window_map[s].pkt) = s
        BY <2>0 DEF AnyNetworkInv, FilledInv
      <3> QED BY <2>3, <3>1, SeqNumAtMost
    <2> QED BY <2>0, <2>4
  <1> QED BY <1>1, AnyNetworkInvariant, PTL DEF Spec, SlotReuse

\* The next packet of the file is one more in order.
LEMMA InOrderAppend ==
  ASSUME TypeInv, InOrderDelivery, delivered' = Append(delivered, Len(delivered))
  PROVE  InOrderDelivery'
  <1>1. delivered \in Seq(Nat)
    BY DEF TypeInv, TypeOK, NetworkTypeOK
  <1>2. /\ Len(delivered') = Len(delivered) + 1
        /\ \A i \in 1..Len(delivered) : delivered'[i] = delivered[i]
        /\ delivered'[Len(delivered) + 1] = Len(delivered)
    BY <1>1
  <1>3. ASSUME NEW i \in 1..(Len(delivered) + 1) PROVE delivered'[i] = i - 1
    <2>1. CASE i = Len(delivered) + 1
      BY <1>1, <1>2, <2>1
    <2>2. CASE i \in 1..Len(delivered)
      BY <1>2, <2>2 DEF InOrderDelivery
    <2> QED BY <1>1, <2>1, <2>2
  <1> QED BY <1>2, <1>3 DEF InOrderDelivery

\* The server is never ahead of the sender, and has what it should.
ShortInOrder == InOrderDelivery /\ Len(delivered) <= SentCount

\* With a number left over, the number the server expects is that of one packet only.
LEMMA ShortInOrderStep ==
  ASSUME SparesNumber, TypeInv, LoopInv, NumbersInv, ShortInOrder, [Next]_vars
  PROVE  ShortInOrder'
  <1>1. /\ SentCount \in Nat /\ SentCount' \in Nat /\ SentCount <= SentCount'
        /\ delivered \in Seq(Nat) /\ Len(delivered) \in Nat /\ max_seq_num_b10 \in Nat
    BY CountsGrow, SeqNumbersAssumption DEF TypeInv, TypeOK, NetworkTypeOK
  <1>2. CASE UNCHANGED delivered
    BY <1>1, <1>2 DEF ShortInOrder, InOrderDelivery
  <1>3. CASE Environment /\ ServerReceive /\ delivered' # delivered
    <2>1. PICK i \in Deliverable(data) :
            /\ data[i] # Empty
            /\ delivered' = Append(delivered, data[i])
            /\ SeqNum(data[i]) = SeqNum(Len(delivered))
      BY <1>3 DEF ServerReceive
    <2>2. data[i] \in Sent
      BY <2>1, DeliverableType DEF NumbersInv
    <2>3. data[i] \in Nat /\ data[i] < SentCount
      BY <1>1, <2>2 DEF Sent
    <2>4. SentCount <= max_seq_num_b10 /\ Len(delivered) <= SentCount
      BY <1>1, SentInFile DEF SparesNumber, BufferSize, ShortInOrder
    <2>5. data[i] = Len(delivered)
      BY <1>1, <2>1, <2>3, <2>4, SeqNumSmall
    <2>6. InOrderDelivery'
      BY <2>1, <2>5, InOrderAppend DEF ShortInOrder
    <2>7. Len(delivered') = Len(delivered) + 1
      BY <1>1, <2>1, <2>3
    <2> QED BY <1>1, <2>3, <2>5, <2>6, <2>7 DEF ShortInOrder
  <1> QED BY <1>2, <1>3, Writers

\* With a number of the ring left over, the server accepts the packets of the file in
\* order, each once, on every network.  (With a file of exactly BufferSize packets a
\* late copy of packet 0 is taken for the packet after the last one.)
THEOREM ShortFileInOrder ==
  ASSUME SparesNumber
  PROVE  Spec => []InOrderDelivery
  <1> DEFINE I == TypeInv /\ MutexInv /\ AnyNetworkInv
  <1>1. Init => ShortInOrder
    BY DEF Init, SenderInit, NetworkInit, ShortInOrder, InOrderDelivery, SentCount
  <1>2. I /\ ShortInOrder /\ [Next]_vars => ShortInOrder'
    BY ShortInOrderStep DEF AnyNetworkInv
  <1>3. ShortInOrder => InOrderDelivery
    BY DEF ShortInOrder
  <1> QED BY <1>1, <1>2, <1>3, AnyNetworkInvariant, PTL DEF Spec

\* timeoutHandler leaves its loop in one place.
LEMMA LeavesLoop ==
  ASSUME TypeInv, [Next]_vars, NEW h \in Handlers, hpc[h] = "resend", hpc'[h] = "restart"
  PROVE  HandlerResend(h) /\ ~ResendMore(resend.i, resend.bidx, resend.nseqnum)
  <1>1. hpc \in [Handlers -> HandlerPCs]
    BY DEF TypeInv, TypeOK, TimerTypeOK
  <1>2. PICK g \in Handlers : TimerThread(g)
    BY Writers DEF Timers
  <1>3. HandlerResend(g) /\ g = h
    BY <1>1, <1>2 DEF TimerThread, TimerExpires, HandlerEntry, HandlerLock,
       HandlerResend, HandlerRestart
  <1> QED BY <1>3 DEF HandlerResend

\* timeoutHandler's loop runs from bidx up to nseqnum.
ResendRange == resend.bidx <= resend.i /\ resend.i <= resend.nseqnum

\* With a number left over, base_idx is never above next_seq_num_idx.
LEMMA ResendRangeStep ==
  ASSUME SparesNumber, TypeInv, MutexInv, LoopInv, NumbersInv, ResendRange, [Next]_vars
  PROVE  ResendRange'
  <1>1. CASE UNCHANGED resend
    BY <1>1 DEF ResendRange
  <1>2. CASE Timers
    <2>1. PICK h \in Handlers : TimerThread(h)
      BY <1>2 DEF Timers
    <2>2. CASE HandlerLock(h)
      <3>1. /\ resend' = [i |-> base_idx, bidx |-> base_idx, nseqnum |-> next_seq_num_idx]
            /\ ~packet_send_mutex
        BY <2>2 DEF HandlerLock
      <3>2. SentCount = NextPacket /\ SentCount \in Nat
        BY <3>1, SentValues DEF MutexInv, MutexHeld, SenderHolds
      <3>3. SentCount <= max_seq_num_b10
        BY <3>2, SentInFile, SeqNumbersAssumption DEF SparesNumber, BufferSize
      <3>4. next_seq_num_idx = SentCount /\ base_idx <= SentCount /\ base_idx \in Nat
        BY <3>2, <3>3, SeqNumSmall, SeqNumbersAssumption
        DEF LoopInv, NumbersInv, TypeInv, TypeOK, WindowTypeOK, SeqNums
      <3> QED BY <3>1, <3>2, <3>4 DEF ResendRange
    <2>3. CASE HandlerRestart(h)
      BY <2>3 DEF HandlerRestart, NoResend, ResendRange
    <2>4. CASE HandlerResend(h) /\ ~UNCHANGED resend
      <3>1. /\ resend \in [i : SeqNums, bidx : SeqNums, nseqnum : SeqNums]
            /\ SeqNums \subseteq Nat
        BY SeqNumbersAssumption DEF TypeInv, TypeOK, TimerTypeOK, SeqNums
      <3>2. /\ ResendMore(resend.i, resend.bidx, resend.nseqnum)
            /\ resend' = [resend EXCEPT !.i = RingSucc(resend.i)]
        BY <2>4 DEF HandlerResend
      <3>3. /\ resend.i \in Nat /\ resend.bidx \in Nat /\ resend.nseqnum \in Nat
            /\ resend.nseqnum <= max_seq_num_b10 /\ resend.i \in SeqNums
            /\ resend.bidx <= resend.i /\ resend.i <= resend.nseqnum
        BY <3>1, SeqNumbersAssumption DEF ResendRange, SeqNums
      <3>4. resend.i < resend.nseqnum
        BY <3>2, <3>3 DEF ResendMore
      <3>5. RingSucc(resend.i) = resend.i + 1
        BY <3>3, <3>4, RingSuccCases, SeqNumbersAssumption
      <3>6. /\ resend'.i = resend.i + 1 /\ resend'.bidx = resend.bidx
            /\ resend'.nseqnum = resend.nseqnum
        BY <3>1, <3>2, <3>5
      <3> QED BY <3>3, <3>4, <3>6 DEF ResendRange
    <2>5. CASE TimerExpires(h) \/ HandlerEntry(h)
      BY <1>1, <2>5 DEF TimerExpires, HandlerEntry
    <2> QED BY <1>1, <2>1, <2>2, <2>3, <2>4, <2>5 DEF TimerThread
  <1> QED BY <1>1, <1>2, Writers

\* With a number of the ring left over, timeoutHandler leaves its loop at
\* next_seq_num_idx on every network, however far late ACKs have moved base_idx back.
THEOREM ShortFileResends ==
  ASSUME SparesNumber
  PROVE  Spec => ResendReachesNext
  <1> DEFINE I == TypeInv /\ MutexInv /\ AnyNetworkInv
  <1>1. Init => ResendRange
    BY DEF Init, SenderInit, NoResend, ResendRange
  <1>2. I /\ ResendRange /\ [Next]_vars => ResendRange'
    BY ResendRangeStep DEF AnyNetworkInv
  <1>3. I /\ ResendRange /\ [Next]_vars
          => [\A h \in Handlers : hpc[h] = "resend" /\ hpc'[h] = "restart"
                => resend.i = resend.nseqnum]_vars
    <2> SUFFICES ASSUME TypeInv, ResendRange, [Next]_vars, NEW h \in Handlers,
                        hpc[h] = "resend", hpc'[h] = "restart"
                 PROVE  resend.i = resend.nseqnum
      OBVIOUS
    <2>1. ~ResendMore(resend.i, resend.bidx, resend.nseqnum)
      BY LeavesLoop
    <2>2. resend.i \in Nat /\ resend.bidx \in Nat /\ resend.nseqnum \in Nat
      BY SeqNumbersAssumption DEF TypeInv, TypeOK, TimerTypeOK, SeqNums
    <2> QED BY <2>1, <2>2 DEF ResendRange, ResendMore
  <1> QED BY <1>1, <1>2, <1>3, AnyNetworkInvariant, PTL DEF Spec, ResendReachesNext
=============================================================================
