--------------------------- MODULE ClientReceiver ---------------------------
(***************************************************************************)
(* ClientReceiver: the thread that receives ACK datagrams, checks them and *)
(* hands their sequence number to ClientSender::ackedPacket.               *)
(***************************************************************************)
EXTENDS ClientSender

VARIABLE receiver_running  \* the receive loop has not been left

ReceiverInit == receiver_running = TRUE

\* receive_from returns an ACK whose MD5 matches: ackedPacket is called with
\* the sequence number read from it, and runs on this thread.
ReceiveAck ==
  /\ receiver_running
  /\ \E i \in Deliverable(acks) :
       /\ acks[i] # Empty
       /\ acks' = RemoveAt(acks, i)
       /\ ackedPacket(SeqNum(acks[i]))
  /\ UNCHANGED <<data, delivered, server_open, threadVars, windowVars, countVars,
                 packet_send_mutex, timerVars, crash, receiver_running>>

\* receive_from returns a datagram that fails checkPacketIntegrity.
ReceiveCorrupt ==
  /\ receiver_running
  /\ apc = "idle"
  /\ "loss" \in Faults
  /\ \E i \in Deliverable(acks) : acks[i] # Empty /\ acks' = RemoveAt(acks, i)
  /\ UNCHANGED <<data, delivered, server_open, senderVars, receiver_running>>

\* receive_from returns an empty datagram: the loop is left.
ReceiveEmpty ==
  /\ receiver_running
  /\ apc = "idle"
  /\ \E i \in Deliverable(acks) : acks[i] = Empty /\ acks' = RemoveAt(acks, i)
  /\ receiver_running' = FALSE
  /\ UNCHANGED <<data, delivered, server_open, senderVars>>

ReceiverThread == ReceiveAck \/ ReceiveCorrupt \/ ReceiveEmpty
=============================================================================
