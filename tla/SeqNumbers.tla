----------------------------- MODULE SeqNumbers -----------------------------
(***************************************************************************)
(* Sequence-number arithmetic of ClientSender.                             *)
(*                                                                         *)
(* The client numbers packets modulo 10^max_seq_number.  The model keeps   *)
(* the code's max_seq_num_b10 (the largest sequence number) as a constant  *)
(* of its own, so that a run can use a ring of three or four numbers and a *)
(* theorem covers every ring.                                              *)
(***************************************************************************)
EXTENDS Integers

CONSTANTS
  max_seq_num_b10,  \* largest sequence number, 10^digits - 1 in the code
  window_size       \* --window_size: packets in flight

\* The window leaves at least one number of the ring unused.  The program
\* does not test this of its command line; it is the operating condition
\* of Go-Back-N, and the README says what happens outside it.
ASSUME SeqNumbersAssumption ==
  /\ max_seq_num_b10 \in Nat
  /\ window_size \in 1..max_seq_num_b10

BufferSize == max_seq_num_b10 + 1

SeqNums == 0..max_seq_num_b10

\* Sequence number of the k-th packet of the file (k counted from 0): what k calls of
\* incNextSeqNum make of 0.
SeqNum(k) == k % BufferSize

\* Mutants: the ring is one number short; it is left at its end.
RingSuccShort(i) == (i + 1) % max_seq_num_b10
RingSuccNoWrap(i) == i + 1

\* The ring successor used by incNextSeqNum, setBaseIdx and the resend loop.
RingSucc(i) == (i + 1) % BufferSize

\* Mutant: one packet too many in the window.
canAdvanceOneMore(base, next) ==
  \/ base <= next /\ next <= base + window_size
  \/ base > next /\ next <= (base + window_size) % BufferSize

\* Predicate the sender waits for before it sends a packet.
canAdvance(base, next) ==
  \/ base <= next /\ next < base + window_size
  \/ base > next /\ next < (base + window_size) % BufferSize

\* Mutant: the last ACK counts again.
AckedIncrementInclusive(last_acked, seqnum) ==
  IF seqnum < last_acked
  THEN (max_seq_num_b10 - last_acked) + seqnum + 2
  ELSE seqnum - last_acked + 1

\* How many packets an ACK of seqnum adds to acked_count.
AckedIncrement(last_acked, seqnum) ==
  IF seqnum < last_acked
  THEN (max_seq_num_b10 - last_acked) + seqnum + 1
  ELSE seqnum - last_acked

\* Mutants: the loop runs over nseqnum too; a window that wraps is not resent.
ResendMoreInclusive(i, bidx, nseqnum) ==
  nseqnum >= bidx /\ i <= nseqnum
ResendMoreNoWrap(i, bidx, nseqnum) ==
  nseqnum >= bidx /\ i < nseqnum

\* Loop condition of timeoutHandler's resend loop at position i.
ResendMore(i, bidx, nseqnum) ==
  \/ nseqnum >= bidx /\ i < nseqnum
  \/ /\ nseqnum < bidx
     /\ BufferSize - (bidx - nseqnum) <= window_size
     /\ i >= bidx \/ i < nseqnum
=============================================================================
