------------------------------ MODULE Network -------------------------------
(***************************************************************************)
(* The two UDP paths between the client and the server, and the server.    *)
(* None of this is code of the repository: the network is UDP as the asio  *)
(* sockets expose it, and the server is the Go-Back-N receiver that the    *)
(* client is written against (cumulative ACKs, no buffering of packets out *)
(* of order, an empty datagram closes the transfer).                       *)
(*                                                                         *)
(* A datagram is represented by the index k of the packet it is about, so  *)
(* that properties can tell apart two packets that share a sequence        *)
(* number.  On the wire it carries only SeqNum(k), and for data the        *)
(* payload: neither end's actions look at anything else of k.  That the    *)
(* client writes SeqNum(k) on packet k is property SlotNumbers of Client.  *)
(***************************************************************************)
EXTENDS SeqNumbers, Sequences, SequencesExt

CONSTANTS
  ChannelCapacity,  \* bound: datagrams in flight per direction, excess is lost
  Faults            \* subset of {"loss", "duplication", "reordering"}

ASSUME NetworkAssumption ==
  /\ ChannelCapacity \in Nat \ {0}
  /\ Faults \subseteq {"loss", "duplication", "reordering"}

VARIABLES
  data,       \* client -> server datagrams, in order of sending
  acks,       \* server -> client datagrams, in order of sending
  delivered,  \* payloads the server has accepted, in order
  server_open \* the server has not seen the closing datagram yet

networkVars == <<data, acks, delivered, server_open>>

\* The empty datagram of endConnection, and of a server that answers it.
Empty == -1

NetworkInit ==
  /\ data = <<>>
  /\ acks = <<>>
  /\ delivered = <<>>
  /\ server_open = TRUE

\* A path holds ChannelCapacity datagrams: one more pushes the oldest out.
Transmit(channel, k) ==
  Append(IF Len(channel) < ChannelCapacity THEN channel ELSE Tail(channel), k)

\* Positions of a channel the network may deliver next.
Deliverable(channel) ==
  IF "reordering" \in Faults THEN 1..Len(channel)
  ELSE {i \in 1..Len(channel) : i = 1}

\* The server takes datagram i: the packet it expects is accepted, and the
\* last packet accepted in order, if there is one, is acknowledged.
ServerReceive ==
  /\ server_open
  /\ \E i \in Deliverable(data) :
       /\ data[i] # Empty
       /\ data' = RemoveAt(data, i)
       /\ delivered' = IF SeqNum(data[i]) = SeqNum(Len(delivered))
                       THEN Append(delivered, data[i])
                       ELSE delivered
       /\ acks' = IF delivered' = <<>> THEN acks
                  ELSE Transmit(acks, Len(delivered') - 1)
  /\ UNCHANGED server_open

\* The closing datagram; the server may answer with an empty datagram, which
\* is what ends ClientReceiver's loop.
ServerClose ==
  /\ server_open
  /\ \E i \in Deliverable(data) :
       /\ data[i] = Empty
       /\ data' = RemoveAt(data, i)
  /\ server_open' = FALSE
  /\ acks' \in {acks, Transmit(acks, Empty)}
  /\ UNCHANGED delivered

LoseData ==
  /\ "loss" \in Faults
  /\ \E i \in Deliverable(data) : data' = RemoveAt(data, i)
  /\ UNCHANGED <<acks, delivered, server_open>>

LoseAck ==
  /\ "loss" \in Faults
  /\ \E i \in Deliverable(acks) : acks' = RemoveAt(acks, i)
  /\ UNCHANGED <<data, delivered, server_open>>

DuplicateData ==
  /\ "duplication" \in Faults
  /\ Len(data) < ChannelCapacity
  /\ \E i \in Deliverable(data) : data' = InsertAt(data, i, data[i])
  /\ UNCHANGED <<acks, delivered, server_open>>

DuplicateAck ==
  /\ "duplication" \in Faults
  /\ Len(acks) < ChannelCapacity
  /\ \E i \in Deliverable(acks) : acks' = InsertAt(acks, i, acks[i])
  /\ UNCHANGED <<data, delivered, server_open>>

NetworkNext ==
  \/ ServerReceive \/ ServerClose
  \/ LoseData \/ LoseAck
  \/ DuplicateData \/ DuplicateAck
=============================================================================
