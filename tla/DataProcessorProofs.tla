------------------------ MODULE DataProcessorProofs -------------------------
(***************************************************************************)
(* Theorems about the way from the file to the payloads, for every file,   *)
(* chunk_size, packet_size and range of int.                               *)
(*                                                                         *)
(* A lemma about generatePacketsData says what a chunk is split into; one  *)
(* about readChunk says which bytes it holds.  The invariant relates       *)
(* chunk_index to the position in the file.                                *)
(***************************************************************************)
EXTENDS DataProcessor, TLAPS

-----------------------------------------------------------------------------
(* Division.                                                               *)

\* Division of natural numbers.
LEMMA Division ==
  ASSUME NEW a \in Nat, NEW b \in Nat \ {0}
  PROVE  /\ a \div b \in Nat
         /\ a % b \in 0..(b - 1)
         /\ a = b * (a \div b) + (a % b)
  <1> DEFINE q == a \div b
             r == a % b
  <1>1. b \in Nat /\ b > 0
    OBVIOUS
  <1>2. q \in Nat /\ r \in 0..(b - 1) /\ r = a - b * q
    BY <1>1
  <1> HIDE DEF q, r
  <1>3. b * q \in Int
    BY <1>2
  <1>4. a = b * q + r
    BY <1>2, <1>3
  <1> QED BY <1>2, <1>4 DEF q, r

\* Multiplication is monotone.
LEMMA Times ==
  ASSUME NEW x \in Nat, NEW y \in Nat, NEW b \in Nat, x <= y
  PROVE  x * b \in Nat /\ y * b \in Nat /\ x * b <= y * b
  <1>1. y * b = x * b + (y - x) * b
    OBVIOUS
  <1>2. (y - x) * b \in Nat /\ x * b \in Nat
    OBVIOUS
  <1> QED BY <1>1, <1>2

\* What C's division does to a file_size of either sign.
LEMMA CDivision ==
  ASSUME NEW a \in Int, NEW b \in Nat \ {0}
  PROVE  /\ CDiv(a, b) \in Int /\ CMod(a, b) \in Int
         /\ a = CDiv(a, b) * b + CMod(a, b)
         /\ a >= 0 => CDiv(a, b) >= 0 /\ CMod(a, b) \in 0..(b - 1)
         /\ a < 0 => CDiv(a, b) <= 0 /\ CMod(a, b) <= 0
  <1>1. CASE a >= 0
    <2>1. CDiv(a, b) = a \div b /\ CMod(a, b) = a - b * (a \div b)
      BY <1>1 DEF CDiv, CMod
    <2>0. a \in Nat
      BY <1>1
    <2>2. a \div b \in Nat /\ a % b \in 0..(b - 1) /\ a = b * (a \div b) + (a % b)
      BY <2>0, Division, Zenon
    <2> QED BY <1>1, <2>1, <2>2
  <1>2. CASE a < 0
    <2> DEFINE n == -a
               q == n \div b
    <2>1. CDiv(a, b) = -q /\ CMod(a, b) = a - b * (-q)
      BY <1>2 DEF CDiv, CMod
    <2>0. n \in Nat
      BY <1>2
    <2>2. q \in Nat /\ n % b \in 0..(b - 1) /\ n = b * q + (n % b)
      BY <2>0, Division, Zenon
    <2>3. b * (-q) = -(b * q) /\ b * q \in Nat /\ (-q) * b = -(b * q)
      BY <2>2
    <2> QED BY <1>2, <2>0, <2>1, <2>2, <2>3
  <1> QED BY <1>1, <1>2

-----------------------------------------------------------------------------
(* generatePacketsData.                                                    *)

\* substr of a part that is within the string.
LEMMA Cut ==
  ASSUME NEW s, NEW from \in Int, NEW to \in Int, from <= to,
         \A i \in from..to : s[i] \in Nat
  PROVE  /\ SubSeq(s, from, to) \in Seq(Nat)
         /\ Len(SubSeq(s, from, to)) = to - from + 1
         /\ \A i \in 1..(to - from + 1) : SubSeq(s, from, to)[i] = s[from + i - 1]
  OBVIOUS

\* g is n bytes of raw in payloads: full ones and a last one that is not empty,
\* which lie one after the other in raw.
Splits(g, raw, n) ==
  /\ g \in Seq(Seq(Nat))
  /\ Len(g) >= 1
  /\ \A q \in 1..Len(g) :
       /\ Len(g[q]) \in 1..packet_size
       /\ q < Len(g) => Len(g[q]) = packet_size
       /\ \A i \in 1..Len(g[q]) : g[q][i] = raw[(q - 1) * packet_size + i]
  /\ (Len(g) - 1) * packet_size + Len(g[Len(g)]) = n

\* generatePacketsData leaves no byte out and makes no empty payload.
LEMMA Split ==
  ASSUME NEW raw, NEW n \in Nat \ {0}, packet_size \in Nat \ {0},
         \A b \in 1..n : raw[b] \in Nat,
         NEW g, g = generatePacketsData(raw, n)
  PROVE  Splits(g, raw, n)
  <1> DEFINE full == n \div packet_size
             last == n % packet_size
             total == full + (IF last > 0 THEN 1 ELSE 0)
             size(q) == IF q - 1 = full THEN last ELSE packet_size
             piece(q) == SubSeq(raw, (q - 1) * packet_size + 1,
                                     (q - 1) * packet_size + size(q))
  <1>1. g = [q \in 1..total |-> piece(q)]
    BY DEF generatePacketsData
  <1>2. /\ full \in Nat /\ last \in 0..(packet_size - 1)
        /\ n = packet_size * full + last
    BY Division
  <1> HIDE DEF full, last
  <1>3. n = full * packet_size + last /\ full * packet_size \in Nat
    BY <1>2
  <1>4. total \in Nat /\ total >= 1
    <2>1. full = 0 => last > 0
      BY <1>2, <1>3
    <2> QED BY <1>2, <2>1
  <1>5. ASSUME NEW q \in 1..total
        PROVE  /\ size(q) \in 1..packet_size
               /\ q < total => size(q) = packet_size
               /\ (q - 1) * packet_size \in Nat
               /\ (q - 1) * packet_size + size(q) <= n
               /\ q = total => (q - 1) * packet_size + size(q) = n
    <2>1. CASE q - 1 = full
      BY <1>2, <1>3, <2>1
    <2>2. CASE q - 1 # full
      <3>1. q \in Nat /\ q - 1 \in Nat /\ q <= full /\ size(q) = packet_size
        BY <1>2, <2>2
      <3>2. q * packet_size \in Nat /\ q * packet_size <= full * packet_size
        BY <1>2, <3>1, Times
      <3>3. (q - 1) * packet_size + packet_size = q * packet_size
        BY <3>1
      <3>4. (q - 1) * packet_size \in Nat
        BY <3>1, Times
      <3>5. q = total => q = full /\ last = 0
        BY <1>2, <3>1
      <3> QED BY <1>2, <1>3, <3>1, <3>2, <3>3, <3>4, <3>5
    <2> QED BY <2>1, <2>2
  <1>6. ASSUME NEW q \in 1..total
        PROVE  /\ piece(q) \in Seq(Nat) /\ Len(piece(q)) = size(q)
               /\ \A i \in 1..Len(piece(q)) :
                    piece(q)[i] = raw[(q - 1) * packet_size + i]
    <2> DEFINE start == (q - 1) * packet_size
    <2>1. start \in Nat /\ size(q) \in 1..packet_size /\ start + size(q) <= n
      BY <1>5
    <2> HIDE DEF start, size
    <2> DEFINE from == start + 1
               to == start + size(q)
    <2>2. from \in Int /\ to \in Int
      BY <2>1
    <2>3. \A b \in from..to : raw[b] \in Nat
      <3> TAKE b \in from..to
      <3>1. b \in 1..n
        BY <2>1
      <3> QED BY <3>1
    <2>5. /\ from <= to /\ to - from + 1 = size(q)
          /\ \A i \in 1..size(q) : from + i - 1 = start + i
      BY <2>1
    <2>6. piece(q) = SubSeq(raw, from, to)
      BY DEF start
    <2> HIDE DEF from, to
    <2>4. /\ SubSeq(raw, from, to) \in Seq(Nat)
          /\ Len(SubSeq(raw, from, to)) = to - from + 1
          /\ \A i \in 1..(to - from + 1) : SubSeq(raw, from, to)[i] = raw[from + i - 1]
      BY <2>2, <2>3, <2>5, Cut
    <2> HIDE DEF piece
    <2>7. Len(piece(q)) = size(q)
      BY <2>1, <2>4, <2>5, <2>6
    <2>8. \A i \in 1..Len(piece(q)) : piece(q)[i] = raw[start + i]
      BY <2>1, <2>4, <2>5, <2>6, <2>7
    <2> QED BY <2>4, <2>6, <2>7, <2>8 DEF start
  <1> HIDE DEF total, size, piece
  <1>7. g \in Seq(Seq(Nat)) /\ Len(g) = total /\ \A q \in 1..total : g[q] = piece(q)
    BY <1>1, <1>4, <1>6
  <1>8. ASSUME NEW q \in 1..Len(g)
        PROVE  /\ Len(g[q]) \in 1..packet_size
               /\ q < Len(g) => Len(g[q]) = packet_size
               /\ \A i \in 1..Len(g[q]) : g[q][i] = raw[(q - 1) * packet_size + i]
    BY <1>5, <1>6, <1>7
  <1>9. (Len(g) - 1) * packet_size + Len(g[Len(g)]) = n
    <2>1. total \in 1..total
      BY <1>4
    <2>2. Len(g[total]) = size(total)
      BY <1>6, <1>7, <2>1
    <2> QED BY <1>5, <1>7, <2>1, <2>2
  <1> QED BY <1>4, <1>7, <1>8, <1>9 DEF Splits

\* The last byte of a payload.
End(payload) == payload[Len(payload)]

\* The payloads of g go on, one after the other, from byte pos of the file to
\* byte end.
Continues(g, pos, end) ==
  /\ \A q \in 1..Len(g) :
       /\ g[q] # <<>>
       /\ \A i \in 1..Len(g[q]) : g[q][i] = (IF q = 1 THEN pos ELSE End(g[q - 1])) + i
  /\ End(g[Len(g)]) = end

\* A chunk that holds the bytes after pos is split into payloads that go on there
\* and end with the chunk.
LEMMA Run ==
  ASSUME NEW raw, NEW n \in Nat \ {0}, NEW pos \in Nat, packet_size \in Nat \ {0},
         \A b \in 1..n : raw[b] = pos + b,
         NEW g, Splits(g, raw, n)
  PROVE  Continues(g, pos, pos + n)
  <1> DEFINE k == Len(g)
             size(q) == Len(g[q])
             start(q) == (q - 1) * packet_size
  <1>3. k \in Nat /\ k >= 1
    BY DEF Splits
  <1>4. /\ \A q \in 1..k : size(q) \in 1..packet_size /\ (q < k => size(q) = packet_size)
        /\ start(k) + size(k) = n
        /\ \A q \in 1..k : \A i \in 1..size(q) : g[q][i] = raw[start(q) + i]
    BY DEF Splits
  <1>5. ASSUME NEW q \in 1..k
        PROVE  /\ start(q) \in Nat /\ start(q + 1) = start(q) + packet_size
               /\ q < k => start(q) + packet_size <= start(k)
    <2>1. q \in Nat /\ q - 1 \in Nat /\ k - 1 \in Nat
      BY <1>3
    <2>2. /\ (q - 1) * packet_size \in Nat
          /\ q * packet_size = (q - 1) * packet_size + packet_size
      BY <2>1
    <2>3. q < k => q * packet_size <= (k - 1) * packet_size
      BY <1>3, <2>1, Times
    <2>4. q + 1 - 1 = q
      BY <2>1
    <2> QED BY <2>2, <2>3, <2>4
  <1>6. start(1) = 0
    OBVIOUS
  <1>7. \A q \in 1..k : g[q] = <<>> => size(q) = 0
    OBVIOUS
  <1>8. \A q \in 1..k : End(g[q]) = g[q][size(q)]
    BY DEF End
  <1> HIDE DEF k, size, start
  <1>9. ASSUME NEW q \in 1..k
        PROVE  start(q) + size(q) <= n
    <2>1. k \in 1..k
      BY <1>3
    <2>2. size(q) \in Nat /\ start(q) \in Nat /\ size(k) \in Nat /\ start(k) \in Nat
      BY <1>4, <1>5, <2>1
    <2>3. CASE q = k
      BY <1>4, <2>2, <2>3
    <2>4. CASE q # k
      <3>1. q < k
        BY <1>3, <2>4
      <3>2. size(q) = packet_size /\ start(q) + packet_size <= start(k)
        BY <1>4, <1>5, <3>1
      <3> QED BY <1>4, <2>2, <3>2
    <2> QED BY <2>3, <2>4
  <1>10. ASSUME NEW q \in 1..k, NEW i \in 1..size(q)
         PROVE  g[q][i] = pos + (start(q) + i)
    <2>1. size(q) \in Nat /\ start(q) \in Nat /\ start(q) + size(q) <= n
      BY <1>4, <1>5, <1>9
    <2>2. start(q) + i \in 1..n
      BY <2>1
    <2>3. g[q][i] = raw[start(q) + i]
      BY <1>4
    <2> QED BY <2>2, <2>3
  <1>11. ASSUME NEW q \in 1..k
         PROVE  End(g[q]) = pos + (start(q) + size(q))
    <2>1. size(q) \in 1..size(q)
      BY <1>4
    <2> QED BY <1>8, <1>10, <2>1
  <1>12. End(g[k]) = pos + n
    <2>1. k \in 1..k
      BY <1>3
    <2> QED BY <1>4, <1>11, <2>1
  <1>13. ASSUME NEW q \in 1..k
         PROVE  (IF q = 1 THEN pos ELSE End(g[q - 1])) = pos + start(q)
    <2>1. CASE q = 1
      BY <1>6, <2>1
    <2>2. CASE q # 1
      <3>1. q - 1 \in 1..k /\ q - 1 < k /\ (q - 1) + 1 = q
        BY <1>3, <2>2
      <3>2. End(g[q - 1]) = pos + (start(q - 1) + size(q - 1))
        BY <1>11, <3>1
      <3>3. size(q - 1) = packet_size
        BY <1>4, <3>1
      <3>4. start((q - 1) + 1) = start(q - 1) + packet_size
        BY <1>5, <3>1
      <3> QED BY <2>2, <3>1, <3>2, <3>3, <3>4
    <2> QED BY <2>1, <2>2
  <1>14. ASSUME NEW q \in 1..k
         PROVE  /\ g[q] # <<>>
                /\ \A i \in 1..size(q) :
                     g[q][i] = (IF q = 1 THEN pos ELSE End(g[q - 1])) + i
    <2>1. g[q] # <<>>
      BY <1>4, <1>7
    <2>2. ASSUME NEW i \in 1..size(q) PROVE g[q][i] = pos + start(q) + i
      <3>1. start(q) \in Nat /\ i \in Int
        BY <1>4, <1>5
      <3> QED BY <1>10, <3>1
    <2> QED BY <1>13, <2>1, <2>2
  <1> QED BY <1>12, <1>14 DEF k, size, Continues

-----------------------------------------------------------------------------
(* readChunk and the position in the file.                                 *)

\* The options, the stream and the payloads have their types; file_size is the
\* int that getFileSize made of the file's length.
Typed ==
  /\ file_length \in Nat
  /\ chunk_size \in Nat \ {0}
  /\ packet_size \in Nat \ {0}
  /\ file_size = ToInt(file_length)
  /\ file_pos \in 0..file_length
  /\ chunk_index \in Nat
  /\ packets \in Seq(Seq(Nat))

\* The chunks read so far end at file_pos, and there are no more than the
\* constructor counted.
Position ==
  Fits => /\ chunk_index <= total_chunks_qty
          /\ file_pos = IF chunk_index <= full_chunks_qty
                        THEN chunk_index * chunk_size ELSE file_length
          /\ finished => remainingChunks = 0

DataInv == Typed /\ Position /\ PayloadSizes /\ PayloadsAreFilePrefix

\* file_size is an int, and the right one if the length fits.
LEMMA FileSize ==
  ASSUME Typed
  PROVE  file_size \in Int /\ (Fits => file_size = file_length)
  <1>1. IntMax \in Nat /\ 2 * (IntMax + 1) \in Nat \ {0}
    BY DataProcessorAssumption
  <1>2. file_length % (2 * (IntMax + 1)) \in 0..(2 * (IntMax + 1) - 1)
    BY <1>1, Division, Zenon DEF Typed
  <1>3. file_size \in Int
    BY <1>1, <1>2 DEF Typed, ToInt
  <1>4. ASSUME Fits PROVE file_size = file_length
    <2>1. file_length \in 0..IntMax
      BY <1>1, <1>4 DEF Fits, Typed
    <2>2. file_length % (2 * (IntMax + 1)) = file_length
      BY <1>1, <2>1
    <2> QED BY <1>1, <2>1, <2>2 DEF Typed, ToInt
  <1> QED BY <1>3, <1>4

\* The numbers of chunks that the constructor computes.
LEMMA Chunks ==
  ASSUME Typed
  PROVE  /\ full_chunks_qty \in Int /\ last_chunk_size \in Int
         /\ file_size = full_chunks_qty * chunk_size + last_chunk_size
         /\ file_size >= 0 =>
              full_chunks_qty >= 0 /\ last_chunk_size \in 0..(chunk_size - 1)
         /\ file_size < 0 => full_chunks_qty <= 0 /\ last_chunk_size <= 0
         /\ total_chunks_qty =
              IF last_chunk_size > 0 THEN full_chunks_qty + 1 ELSE full_chunks_qty
  <1>1. file_size \in Int /\ chunk_size \in Nat \ {0}
    BY FileSize DEF Typed
  <1>2. /\ full_chunks_qty \in Int /\ last_chunk_size \in Int
        /\ file_size = full_chunks_qty * chunk_size + last_chunk_size
        /\ file_size >= 0 =>
             full_chunks_qty >= 0 /\ last_chunk_size \in 0..(chunk_size - 1)
        /\ file_size < 0 => full_chunks_qty <= 0 /\ last_chunk_size <= 0
    BY <1>1, CDivision DEF full_chunks_qty, last_chunk_size
  <1> QED BY <1>2 DEF total_chunks_qty

\* A chunk that is read is not empty, also if file_size is wrong.
LEMMA SizeIsPositive ==
  ASSUME Typed, remainingChunks # 0
  PROVE  SizeToRead \in 1..chunk_size
  <1>1. chunk_index \in Nat /\ chunk_size \in Nat \ {0} /\ file_size \in Int
    BY FileSize DEF Typed
  <1>2. CASE chunk_index = full_chunks_qty
    <2>1. last_chunk_size # 0
      BY <1>1, <1>2, Chunks DEF remainingChunks
    <2>2. file_size >= 0
      BY <1>1, <1>2, <2>1, Chunks DEF remainingChunks
    <2> QED BY <1>1, <1>2, <2>1, <2>2, Chunks DEF SizeToRead
  <1>3. CASE chunk_index # full_chunks_qty
    BY <1>1, <1>3 DEF SizeToRead
  <1> QED BY <1>2, <1>3

\* What the int holds is read: a chunk of the file never ends beyond it.
LEMMA ChunkFits ==
  ASSUME Typed, Position, Fits, remainingChunks # 0
  PROVE  /\ file_pos + SizeToRead <= file_length
         /\ chunk_index + 1 <= total_chunks_qty
         /\ file_pos + SizeToRead = IF chunk_index + 1 <= full_chunks_qty
                                    THEN (chunk_index + 1) * chunk_size ELSE file_length
  <1> DEFINE full == full_chunks_qty
             last == last_chunk_size
             total == total_chunks_qty
  <1>1. /\ chunk_index \in Nat /\ chunk_size \in Nat \ {0} /\ file_length \in Nat
        /\ file_pos \in Nat
    BY DEF Typed
  <1>2. /\ full \in Nat /\ last \in 0..(chunk_size - 1)
        /\ file_length = full * chunk_size + last
        /\ total = IF last > 0 THEN full + 1 ELSE full
    BY <1>1, FileSize, Chunks
  <1>3. /\ chunk_index <= total /\ total - chunk_index # 0
        /\ file_pos = IF chunk_index <= full THEN chunk_index * chunk_size ELSE file_length
    BY DEF Position, remainingChunks
  <1>4. SizeToRead = IF chunk_index = full THEN last ELSE chunk_size
    BY DEF SizeToRead
  <1> HIDE DEF full, last, total
  <1>5. full * chunk_size \in Nat /\ chunk_index * chunk_size \in Nat
    BY <1>1, <1>2
  <1>6. chunk_index <= full /\ chunk_index + 1 <= total
    BY <1>1, <1>2, <1>3
  <1>7. CASE chunk_index = full
    BY <1>1, <1>2, <1>3, <1>4, <1>5, <1>6, <1>7 DEF full, total
  <1>8. CASE chunk_index # full
    <2>1. chunk_index + 1 \in Nat /\ chunk_index + 1 <= full
      BY <1>1, <1>2, <1>6, <1>8
    <2>2. (chunk_index + 1) * chunk_size <= full * chunk_size
      BY <1>1, <1>2, <2>1, Times
    <2>3. (chunk_index + 1) * chunk_size = chunk_index * chunk_size + chunk_size
      BY <1>1
    <2> QED
      BY <1>1, <1>2, <1>3, <1>4, <1>5, <1>6, <1>8, <2>1, <2>2, <2>3 DEF full, total
  <1> QED BY <1>7, <1>8

-----------------------------------------------------------------------------
(* The invariant.                                                          *)

\* Before the first chunk nothing has been sent.
LEMMA DataInit == Init => DataInv
  <1> SUFFICES ASSUME Init PROVE DataInv
    OBVIOUS
  <1>1. /\ Typed
    BY DataProcessorAssumption DEF Init, Typed
  <1>2. packets = <<>> /\ Len(packets) = 0 /\ file_pos = 0 /\ chunk_index = 0 /\ ~finished
    BY DEF Init
  <1>3. Position
    <2> SUFFICES ASSUME Fits
                 PROVE  0 <= total_chunks_qty /\ 0 <= full_chunks_qty
      BY <1>1, <1>2 DEF Position, Typed
    <2>1. file_size >= 0 /\ file_size \in Int
      BY <1>1, FileSize DEF Typed
    <2> QED BY <1>1, <2>1, Chunks
  <1>4. PayloadSizes /\ PayloadsAreFilePrefix
    BY <1>2 DEF PayloadSizes, PayloadsAreFilePrefix, LastByte
  <1> QED BY <1>1, <1>3, <1>4 DEF DataInv

\* What SendChunk reads: SizeToRead bytes, from file_pos on if they are there.
LEMMA ReadBytes ==
  ASSUME Typed, remainingChunks # 0
  PROVE  /\ \A b \in 1..SizeToRead : ReadInto(SizeToRead)[b] \in Nat
         /\ file_pos + SizeToRead <= file_length =>
              \A b \in 1..SizeToRead : ReadInto(SizeToRead)[b] = file_pos + b
  <1>1. SizeToRead \in 1..chunk_size /\ chunk_size \in Nat
    BY SizeIsPositive DEF Typed
  <1>2. file_pos \in Nat /\ file_length \in Nat
    BY DEF Typed
  <1>3. \A b \in 1..SizeToRead :
          ReadInto(SizeToRead)[b] = IF file_pos + b <= file_length THEN file_pos + b ELSE 0
    BY <1>1 DEF ReadInto
  <1> QED BY <1>1, <1>2, <1>3

\* A chunk is read, and its payloads are added to those before.
LEMMA ChunkStep ==
  ASSUME DataInv, SendChunk
  PROVE  DataInv' /\ Len(packets') > Len(packets)
  <1> DEFINE size == SizeToRead
             raw == ReadInto(size)
             g == generatePacketsData(raw, size)
             L == Len(packets)
             k == Len(g)
  <1>1. Typed /\ Position /\ PayloadSizes /\ PayloadsAreFilePrefix /\ remainingChunks # 0
    BY DEF DataInv, SendChunk
  <1>2. /\ file_length \in Nat /\ chunk_size \in Nat \ {0} /\ packet_size \in Nat \ {0}
        /\ file_pos \in 0..file_length /\ chunk_index \in Nat
        /\ packets \in Seq(Seq(Nat)) /\ L \in Nat
        /\ size \in 1..chunk_size /\ size \in Nat \ {0}
    BY <1>1, SizeIsPositive DEF Typed
  <1>3. /\ packets' = packets \o g
        /\ chunk_index' = chunk_index + 1
        /\ file_pos' = IF file_pos + size <= file_length
                       THEN file_pos + size ELSE file_length
        /\ ~finished'
        /\ UNCHANGED <<file_length, chunk_size, packet_size, file_size>>
    BY DEF SendChunk, config
  <1>4. /\ \A b \in 1..size : raw[b] \in Nat
        /\ file_pos + size <= file_length => \A b \in 1..size : raw[b] = file_pos + b
    BY <1>1, ReadBytes
  <1> HIDE DEF size, raw
  <1>5. Splits(g, raw, size)
    BY <1>2, <1>4, Split
  <1> HIDE DEF g
  <1>6. /\ g \in Seq(Seq(Nat)) /\ k \in Nat /\ k >= 1
        /\ \A q \in 1..k : Len(g[q]) \in 1..packet_size
    <2>1. g \in Seq(Seq(Nat)) /\ k >= 1
      BY <1>5, Zenon DEF Splits
    <2>2. \A q \in 1..k : Len(g[q]) \in 1..packet_size
      BY <1>5, Zenon DEF Splits
    <2> QED BY <2>1, <2>2
  <1>7. /\ packets' \in Seq(Seq(Nat)) /\ Len(packets') = L + k
        /\ \A p \in 1..L : packets'[p] = packets[p]
        /\ \A q \in 1..k : packets'[L + q] = g[q]
    BY <1>2, <1>3, <1>6
  <1> HIDE DEF L, k
  <1>8. ASSUME NEW p \in 1..(L + k)
        PROVE  \/ p \in 1..L /\ packets'[p] = packets[p]
               \/ p - L \in 1..k /\ packets'[p] = g[p - L] /\ ~(p <= L)
    <2>1. CASE p <= L
      BY <1>2, <1>6, <1>7, <2>1
    <2>2. CASE ~(p <= L)
      <3>1. p - L \in 1..k /\ L + (p - L) = p
        BY <1>2, <1>6, <2>2
      <3>2. packets'[L + (p - L)] = g[p - L]
        BY <1>7, <3>1
      <3> QED BY <2>2, <3>1, <3>2
    <2> QED BY <2>1, <2>2
  <1>9. Typed'
    BY <1>1, <1>2, <1>3, <1>7 DEF Typed, ToInt
  <1>10. Position'
    BY <1>1, <1>2, <1>3, ChunkFits
    DEF Position, Fits, total_chunks_qty, full_chunks_qty, last_chunk_size, size
  <1>11. PayloadSizes'
    <2> SUFFICES ASSUME NEW p \in 1..(L + k)
                 PROVE  Len(packets'[p]) \in 1..packet_size
      BY <1>3, <1>7 DEF PayloadSizes
    <2>1. \A r \in 1..L : Len(packets[r]) \in 1..packet_size
      BY <1>1 DEF PayloadSizes, L
    <2> QED BY <1>6, <1>8, <2>1
  <1>12. PayloadsAreFilePrefix'
    <2> SUFFICES ASSUME Fits
                 PROVE  /\ \A p \in 1..(L + k) :
                             /\ packets'[p] # <<>>
                             /\ \A i \in 1..Len(packets'[p]) :
                                  packets'[p][i] = LastByte(p - 1)' + i
                        /\ LastByte(Len(packets))' = file_pos'
      BY <1>3, <1>7 DEF PayloadsAreFilePrefix, Fits
    <2>1. /\ file_pos' = file_pos + size
          /\ \A b \in 1..size : raw[b] = file_pos + b
      BY <1>1, <1>2, <1>3, <1>4, ChunkFits DEF size
    <2>2. Continues(g, file_pos, file_pos + size)
      <3>1. file_pos \in Nat
        BY <1>2
      <3> QED BY <1>2, <1>5, <2>1, <3>1, Run
    <2>3. LastByte(L) = file_pos
      BY <1>1 DEF PayloadsAreFilePrefix, L
    <2>4. \A p \in 0..L : LastByte(p)' = LastByte(p)
      BY <1>2, <1>7 DEF LastByte
    <2>5. \A p \in Nat : p # 0 => LastByte(p)' = End(packets'[p])
      BY DEF LastByte, End
    <2>6. ASSUME NEW p \in 1..(L + k)
          PROVE  /\ packets'[p] # <<>>
                 /\ \A i \in 1..Len(packets'[p]) :
                      packets'[p][i] = LastByte(p - 1)' + i
      <3>1. CASE p \in 1..L /\ packets'[p] = packets[p]
        <4>1. p - 1 \in 0..L
          BY <1>2, <3>1
        <4>2. LastByte(p - 1)' = LastByte(p - 1)
          BY <2>4, <4>1
        <4>3. /\ packets[p] # <<>>
              /\ \A i \in 1..Len(packets[p]) : packets[p][i] = LastByte(p - 1) + i
          BY <1>1, <3>1 DEF PayloadsAreFilePrefix, L
        <4> QED BY <3>1, <4>2, <4>3
      <3>2. CASE p - L \in 1..k /\ packets'[p] = g[p - L] /\ ~(p <= L)
        <4> DEFINE q == p - L
        <4>1. /\ g[q] # <<>>
              /\ \A i \in 1..Len(g[q]) :
                   g[q][i] = (IF q = 1 THEN file_pos ELSE End(g[q - 1])) + i
          BY <2>2, <3>2 DEF Continues, k
        <4>2. LastByte(p - 1)' = IF q = 1 THEN file_pos ELSE End(g[q - 1])
          <5>1. CASE q = 1
            <6>1. p - 1 = L /\ L \in 0..L
              BY <1>2, <5>1
            <6> QED BY <2>3, <2>4, <5>1, <6>1
          <5>2. CASE q # 1
            <6>1. /\ q - 1 \in 1..k /\ L + (q - 1) = p - 1
                  /\ p - 1 \in Nat /\ p - 1 # 0
              BY <1>2, <1>6, <3>2, <5>2
            <6>2. packets'[p - 1] = g[q - 1]
              BY <1>7, <6>1
            <6>3. LastByte(p - 1)' = End(packets'[p - 1])
              BY <2>5, <6>1
            <6> QED BY <5>2, <6>2, <6>3
          <5> QED BY <5>1, <5>2
        <4> QED BY <3>2, <4>1, <4>2
      <3> QED BY <1>8, <3>1, <3>2
    <2>7. LastByte(Len(packets))' = file_pos'
      <3>1. k \in 1..k /\ L + k \in Nat /\ L + k # 0
        BY <1>2, <1>6
      <3>2. packets'[L + k] = g[k]
        BY <1>7, <3>1
      <3>3. LastByte(Len(packets))' = End(packets'[L + k])
        BY <1>7, <3>1 DEF LastByte, End
      <3>4. End(g[k]) = file_pos + size
        BY <2>2 DEF Continues, k
      <3> QED BY <2>1, <3>2, <3>3, <3>4
    <2> QED BY <2>6, <2>7
  <1>13. Len(packets') > L
    BY <1>2, <1>6, <1>7
  <1> QED BY <1>9, <1>10, <1>11, <1>12, <1>13 DEF DataInv, L

\* The last call of sendChunk changes nothing but finished.
LEMMA DataStep == DataInv /\ [Next]_vars => DataInv'
  <1> SUFFICES ASSUME DataInv, [Next]_vars PROVE DataInv'
    OBVIOUS
  <1>1. CASE NoChunkLeft \/ UNCHANGED vars
    <2>1. UNCHANGED <<file_length, chunk_size, packet_size, file_size, file_pos,
                      chunk_index, packets>>
      BY <1>1 DEF NoChunkLeft, vars, config
    <2>2. finished' => finished \/ remainingChunks = 0
      BY <1>1 DEF NoChunkLeft, vars
    <2>3. Typed'
      BY <2>1 DEF DataInv, Typed, ToInt
    <2>4. Position'
      BY <2>1, <2>2
      DEF DataInv, Position, Fits, remainingChunks, total_chunks_qty, full_chunks_qty,
          last_chunk_size
    <2>5. PayloadSizes' /\ PayloadsAreFilePrefix'
      BY <2>1 DEF DataInv, PayloadSizes, PayloadsAreFilePrefix, LastByte, Fits
    <2> QED BY <2>3, <2>4, <2>5 DEF DataInv
  <1> QED BY <1>1, ChunkStep DEF Next

\* The invariant holds in every reachable state.
LEMMA DataInvariant == Spec => []DataInv
  BY DataInit, DataStep, PTL DEF Spec

-----------------------------------------------------------------------------
(* The theorems.                                                           *)

\* Whatever the sizes of file, chunk and packet, the payloads handed to the
\* network are the bytes of the file in order.
THEOREM SendsFilePrefix == Spec => []PayloadsAreFilePrefix
  <1>1. DataInv => PayloadsAreFilePrefix
    BY DEF DataInv
  <1> QED BY <1>1, DataInvariant, PTL

\* No boundary case of the two divisions makes an empty or an oversized payload,
\* not even in a file whose size int cannot hold.
THEOREM SendsNoEmptyPayload == Spec => []PayloadSizes
  <1>1. DataInv => PayloadSizes
    BY DEF DataInv
  <1> QED BY <1>1, DataInvariant, PTL

\* sendChunk never waits for the ACKs of a chunk without packets.
THEOREM SendsEveryChunk == Spec => ChunkYieldsPackets
  <1>1. DataInv /\ [Next]_vars =>
          [chunk_index' # chunk_index => Len(packets') > Len(packets)]_vars
    <2> SUFFICES ASSUME DataInv, Next, chunk_index' # chunk_index
                 PROVE  Len(packets') > Len(packets)
      OBVIOUS
    <2>1. SendChunk
      BY DEF Next, NoChunkLeft
    <2> QED BY <2>1, ChunkStep
  <1> QED BY <1>1, DataInvariant, PTL DEF Spec, ChunkYieldsPackets

\* The client says that it is done.
DoneIsWhole == Fits /\ finished => file_pos = file_length

\* When sendChunk returns false, the whole file has been handed over: the chunks
\* the constructor counted are all there are.
THEOREM StopsAtEnd == Spec => []DoneIsWhole
  <1>1. DataInv => DoneIsWhole
    <2> SUFFICES ASSUME DataInv, Fits, finished PROVE file_pos = file_length
      BY DEF DoneIsWhole
    <2>1. /\ Typed /\ file_length \in Nat /\ chunk_size \in Nat \ {0}
          /\ file_size = file_length /\ chunk_index \in Nat
      BY FileSize DEF DataInv, Typed
    <2>2. /\ total_chunks_qty - chunk_index = 0
          /\ file_pos = IF chunk_index <= full_chunks_qty
                        THEN chunk_index * chunk_size ELSE file_length
      BY DEF DataInv, Position, remainingChunks
    <2>3. /\ full_chunks_qty \in Int /\ last_chunk_size \in Nat
          /\ file_length = full_chunks_qty * chunk_size + last_chunk_size
          /\ total_chunks_qty =
               IF last_chunk_size > 0 THEN full_chunks_qty + 1 ELSE full_chunks_qty
      BY <2>1, Chunks
    <2>4. CASE last_chunk_size > 0
      BY <2>1, <2>2, <2>3, <2>4
    <2>5. CASE last_chunk_size = 0
      <3>1. chunk_index = full_chunks_qty
        BY <2>1, <2>2, <2>3, <2>5
      <3> QED BY <2>1, <2>2, <2>3, <2>5, <3>1
    <2> QED BY <2>3, <2>4, <2>5
  <1> QED BY <1>1, DataInvariant, PTL
=============================================================================
