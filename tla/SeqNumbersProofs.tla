-------------------------- MODULE SeqNumbersProofs --------------------------
(***************************************************************************)
(* What the ring arithmetic of SeqNumbers computes, for every ring and     *)
(* every window that leaves a number unused.                               *)
(***************************************************************************)
EXTENDS SeqNumbers, TLAPS

\* Steps from a forward to b on the ring: the reference for the arithmetic.
Distance(a, b) == IF a <= b THEN b - a ELSE b - a + BufferSize

\* The successor that incNextSeqNum, setBaseIdx and the resend loop compute is
\* a sequence number, and wraps at max_seq_num_b10 only.
LEMMA RingSuccCases ==
  ASSUME NEW i \in SeqNums
  PROVE  /\ RingSucc(i) \in SeqNums
         /\ RingSucc(i) = IF i = max_seq_num_b10 THEN 0 ELSE i + 1
  <1>1. CASE i = max_seq_num_b10
    BY <1>1, SeqNumbersAssumption DEF RingSucc, BufferSize, SeqNums
  <1>2. CASE i # max_seq_num_b10
    BY <1>2, SeqNumbersAssumption DEF RingSucc, BufferSize, SeqNums
  <1> QED BY <1>1, <1>2

\* The number a packet gets on the wire is one the ring has a slot for.
LEMMA SeqNumType ==
  ASSUME NEW k \in Nat
  PROVE  SeqNum(k) \in SeqNums
  BY SeqNumbersAssumption DEF SeqNum, BufferSize, SeqNums

\* canAdvance is the window test: for a base and a next that are at most a
\* window apart it holds exactly when one more packet fits into the window.
THEOREM CanAdvanceCorrect ==
  ASSUME NEW base \in SeqNums, NEW next \in SeqNums,
         Distance(base, next) <= window_size
  PROVE  canAdvance(base, next) <=> Distance(base, next) < window_size
  <1>1. CASE base <= next
    BY <1>1, SeqNumbersAssumption DEF canAdvance, Distance, SeqNums, BufferSize
  <1>2. CASE base > next
    <2>1. (base + window_size) % BufferSize = base + window_size - BufferSize
      BY <1>2, SeqNumbersAssumption DEF Distance, SeqNums, BufferSize
    <2> QED
      BY <1>2, <2>1, SeqNumbersAssumption DEF canAdvance, Distance, SeqNums, BufferSize
  <1> QED BY <1>1, <1>2, SeqNumbersAssumption DEF SeqNums

\* What ackedPacket adds to acked_count is how far the ACK moves the window:
\* the steps on the ring from the last ACK, and every packet up to seqnum for
\* the first ACK of a transfer.
THEOREM AckedIncrementCorrect ==
  ASSUME NEW last \in SeqNums, NEW seqnum \in SeqNums
  PROVE  /\ AckedIncrement(last, seqnum) = Distance(last, seqnum)
         /\ AckedIncrement(-1, seqnum) = seqnum + 1
  BY SeqNumbersAssumption DEF AckedIncrement, Distance, SeqNums, BufferSize

\* One step of a loop over the ring is one step further from where it began.
LEMMA RingSuccDistance ==
  ASSUME NEW a \in SeqNums, NEW i \in SeqNums, RingSucc(i) # a
  PROVE  Distance(a, RingSucc(i)) = Distance(a, i) + 1
  BY RingSuccCases, SeqNumbersAssumption DEF Distance, SeqNums, BufferSize

\* The loop of timeoutHandler goes on exactly as long as it has not reached
\* nseqnum, also when the window wraps around the ring: it visits the packets
\* bidx, bidx + 1, ..., nseqnum - 1 and no other.
THEOREM ResendMoreCorrect ==
  ASSUME NEW bidx \in SeqNums, NEW nseqnum \in SeqNums, NEW i \in SeqNums,
         Distance(bidx, nseqnum) <= window_size,
         Distance(bidx, i) <= Distance(bidx, nseqnum)
  PROVE  ResendMore(i, bidx, nseqnum) <=> Distance(bidx, i) < Distance(bidx, nseqnum)
  <1>1. CASE bidx <= nseqnum
    BY <1>1, SeqNumbersAssumption DEF ResendMore, Distance, SeqNums, BufferSize
  <1>2. CASE bidx > nseqnum
    BY <1>2, SeqNumbersAssumption DEF ResendMore, Distance, SeqNums, BufferSize
  <1> QED BY <1>1, <1>2, SeqNumbersAssumption DEF SeqNums

-----------------------------------------------------------------------------
(* Numbers and the packets of the file that carry them.                    *)

\* A number has one quotient and one remainder by the size of the ring.
LEMMA DivisionUnique ==
  ASSUME NEW q \in Int, NEW p \in Int, NEW s \in SeqNums, NEW t \in SeqNums,
         BufferSize * q + s = BufferSize * p + t
  PROVE  q = p /\ s = t
  <1> DEFINE B == BufferSize
  <1>0. B \in Nat /\ B >= 1 /\ s \in Int /\ t \in Int /\ s - t < B /\ t - s < B
    BY SeqNumbersAssumption DEF BufferSize, SeqNums
  <1> HIDE DEF B
  <1>1. ASSUME NEW x \in Int, NEW y \in Int, x >= y + 1 PROVE B * x >= B * y + B
    <2>1. x - y >= 1
      BY <1>1
    <2>2. B * (x - y) >= B
      BY <1>0, <2>1
    <2>3. B * (x - y) = B * x - B * y
      BY <1>0, <1>1
    <2> QED BY <1>0, <1>1, <2>2, <2>3
  <1>2. B * q + s = B * p + t
    BY DEF B
  <1>3. B * q \in Int /\ B * p \in Int
    BY <1>0
  <1>4. ~(q >= p + 1)
    BY <1>0, <1>1, <1>2, <1>3
  <1>5. ~(p >= q + 1)
    BY <1>0, <1>1, <1>2, <1>3
  <1>6. q = p
    BY <1>4, <1>5
  <1> QED BY <1>0, <1>2, <1>3, <1>6

\* d packets further on in the file, the number is d further on the ring.
LEMMA SeqNumPlus ==
  ASSUME NEW k \in Nat, NEW d \in 0..max_seq_num_b10
  PROVE  SeqNum(k + d) = IF SeqNum(k) + d <= max_seq_num_b10
                         THEN SeqNum(k) + d ELSE SeqNum(k) + d - BufferSize
  <1> DEFINE q == k \div BufferSize
             p == (k + d) \div BufferSize
             e == IF SeqNum(k) + d <= max_seq_num_b10 THEN 0 ELSE 1
  <1>1. /\ BufferSize \in Nat /\ BufferSize > 0
        /\ max_seq_num_b10 \in Nat /\ BufferSize = max_seq_num_b10 + 1
    BY SeqNumbersAssumption DEF BufferSize
  <1>2. q \in Int /\ k = BufferSize * q + SeqNum(k)
    BY <1>1 DEF SeqNum
  <1>3. p \in Int /\ k + d = BufferSize * p + SeqNum(k + d)
    BY <1>1 DEF SeqNum
  <1>4. SeqNum(k) \in SeqNums /\ SeqNum(k + d) \in SeqNums
    BY SeqNumType
  <1> DEFINE s == SeqNum(k) + d - BufferSize * e
  <1>5. s \in SeqNums
    BY <1>1, <1>4 DEF SeqNums
  <1>6. BufferSize * (q + e) = BufferSize * q + BufferSize * e
    BY <1>1, <1>2
  <1>7. BufferSize * (q + e) + s = BufferSize * p + SeqNum(k + d)
    BY <1>1, <1>2, <1>3, <1>4, <1>6 DEF SeqNums
  <1>8. s = SeqNum(k + d)
    <2> HIDE DEF s, q, p, e
    <2>1. q + e \in Int
      BY <1>2 DEF e
    <2> QED BY <1>3, <1>4, <1>5, <1>7, <2>1, DivisionUnique
  <1> QED BY <1>1, <1>4, <1>8 DEF SeqNums

\* Packets less than a ring apart have different numbers.
LEMMA SeqNumDistinct ==
  ASSUME NEW m \in Nat, NEW n \in Nat, m <= n, n - m <= max_seq_num_b10,
         SeqNum(m) = SeqNum(n)
  PROVE  m = n
  <1>1. SeqNum(m) \in SeqNums
    BY SeqNumType
  <1>2. n - m \in 0..max_seq_num_b10 /\ m + (n - m) = n
    BY SeqNumbersAssumption
  <1>3. SeqNum(m + (n - m)) = IF SeqNum(m) + (n - m) <= max_seq_num_b10
          THEN SeqNum(m) + (n - m) ELSE SeqNum(m) + (n - m) - BufferSize
    BY <1>2, SeqNumPlus
  <1> QED
    BY <1>1, <1>2, <1>3, SeqNumbersAssumption DEF SeqNums, BufferSize

\* The distance of two numbers on the ring is that of their packets.
LEMMA SeqNumDistance ==
  ASSUME NEW m \in Nat, NEW n \in Nat, m <= n, n - m <= max_seq_num_b10
  PROVE  Distance(SeqNum(m), SeqNum(n)) = n - m
  <1>1. SeqNum(m) \in SeqNums /\ SeqNum(n) \in SeqNums
    BY SeqNumType
  <1>2. n - m \in 0..max_seq_num_b10 /\ m + (n - m) = n
    BY SeqNumbersAssumption
  <1>3. SeqNum(m + (n - m)) = IF SeqNum(m) + (n - m) <= max_seq_num_b10
          THEN SeqNum(m) + (n - m) ELSE SeqNum(m) + (n - m) - BufferSize
    BY <1>2, SeqNumPlus
  <1> QED
    BY <1>1, <1>2, <1>3, SeqNumbersAssumption DEF SeqNums, BufferSize, Distance

\* The first packets have their index as number.
LEMMA SeqNumSmall ==
  ASSUME NEW k \in Nat, k <= max_seq_num_b10
  PROVE  SeqNum(k) = k
  BY SeqNumbersAssumption DEF SeqNum, BufferSize

\* The successor on the ring is the number of the next packet.
LEMMA SeqNumSucc ==
  ASSUME NEW k \in Nat
  PROVE  RingSucc(SeqNum(k)) = SeqNum(k + 1)
  <1>1. SeqNum(k) \in SeqNums /\ 1 \in 0..max_seq_num_b10
    BY SeqNumType, SeqNumbersAssumption
  <1>2. SeqNum(k + 1) = IF SeqNum(k) + 1 <= max_seq_num_b10
          THEN SeqNum(k) + 1 ELSE SeqNum(k) + 1 - BufferSize
    BY <1>1, SeqNumPlus
  <1> QED
    BY <1>1, <1>2, RingSuccCases, SeqNumbersAssumption DEF SeqNums, BufferSize
=============================================================================
