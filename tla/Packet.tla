------------------------------- MODULE Packet -------------------------------
(***************************************************************************)
(* The wire format of Packet and what each end makes of a datagram.        *)
(*                                                                         *)
(* A data packet is its number in seqnum_digits decimal digits, the MD5 of *)
(* the payload in HashLen symbols (32 in the code), and the payload.  An   *)
(* ACK is a number followed by the MD5 of its digits.  MD5 is a symbolic   *)
(* digest: two strings have the same one only if they are equal, and       *)
(* damage on the way does not produce a symbol of a digest.                *)
(*                                                                         *)
(* The server is told its number of digits separately (README, "Ejemplo"), *)
(* so the two ends may disagree on it.                                     *)
(***************************************************************************)
EXTENDS Integers, Sequences, SequencesExt

CONSTANTS
  Digits,      \* values of --max_sequence_number, at either end
  Numbers,     \* sequence numbers sent
  Payloads,    \* payloads sent, sequences of bytes
  HashLen,     \* length of a digest
  packet_size, \* --packet_size
  Noise,       \* what damage makes of a symbol
  MaxDamage    \* bound: symbols altered or cuts made on the way

VARIABLES
  seqnum_digits,  \* of the client
  server_digits,  \* of the server
  sent,           \* what the datagram in transit says, see Messages
  wire,           \* the datagram
  damage,         \* times it was damaged
  outcome         \* what the receiving end did

vars == <<seqnum_digits, server_digits, sent, wire, damage, outcome>>

-----------------------------------------------------------------------------
(* Strings.                                                                *)

Digit(d) == <<"digit", d>>
Byte(b) == <<"byte", b>>  \* one that is no digit and not zero
Nul == <<"nul">>

Decimal == {Digit(d) : d \in 0..9}
Text == Decimal \cup {Byte(b) : b \in 1..255} \cup {Nul}

ASSUME PacketAssumption ==
  /\ Digits \subseteq Nat \ {0}
  /\ Numbers \subseteq Nat
  /\ HashLen \in Nat \ {0}
  /\ packet_size \in Nat \ {0}
  /\ \A p \in Payloads : p \in Seq(Text) /\ Len(p) \in 1..packet_size
  /\ Noise \subseteq Text
  /\ MaxDamage \in Nat

getHashFromString(s) == [i \in 1..HashLen |-> <<"md5", s, i>>]

\* std::to_string of a number.
to_string[n \in Nat] ==
  IF n < 10 THEN <<Digit(n)>> ELSE Append(to_string[n \div 10], Digit(n % 10))

\* Times the loop of getNumberOfDigits divides n by ten.
Divisions[n \in Nat] == IF n = 0 THEN 0 ELSE Divisions[n \div 10] + 1

\* Mutant: 0 is not a special case, and has no digits.
getNumberOfDigitsZero(n) == Divisions[n]

getNumberOfDigits(n) == IF n = 0 THEN 1 ELSE Divisions[n]

\* The number with its leading zeros.
Padded(n, digits) ==
  [i \in 1..(digits - getNumberOfDigits(n)) |-> Digit(0)] \o to_string[n]

\* std::string::substr(pos, n), for pos <= Len(s): it throws beyond that.
Substr(s, pos, n) == SubSeq(s, pos + 1, IF pos + n <= Len(s) THEN pos + n ELSE Len(s))

generatePacketString(n, payload, digits) ==
  Padded(n, digits) \o getHashFromString(payload) \o payload

\* What the server sends for number n.
AckString(n, digits) ==
  Padded(n, digits) \o getHashFromString(Padded(n, digits))

\* Mutant: only the first symbol of the digest is compared.
checkPacketIntegrityShort(raw, digits, checkACK) ==
  IF digits > Len(raw) THEN "throw"
  ELSE IF digits < Len(raw) /\ raw[digits + 1][1] = "md5" THEN "good" ELSE "bad"

\* Does the digest match the number (checkACK) or the payload?
checkPacketIntegrity(raw, digits, checkACK) ==
  LET endOfMD5Str == digits + HashLen
      dataString == IF checkACK THEN Substr(raw, 0, digits)
                    ELSE Substr(raw, endOfMD5Str, Len(raw))
  IN IF digits > Len(raw) \/ (~checkACK /\ endOfMD5Str > Len(raw)) THEN "throw"
     ELSE IF Substr(raw, digits, HashLen) = getHashFromString(dataString)
     THEN "good" ELSE "bad"

\* The value of the first n digits of a string, for every n.
Value(s) ==
  LET value[n \in Nat] == IF n \in 1..Len(s) THEN 10 * value[n - 1] + s[n][2] ELSE 0
  IN value

\* The leading digits of a string, read as a number; 0 if there are none.  (>> also
\* takes white space and a sign: no number that passes the check begins with one.)
extract_seq_num(raw, digits) ==
  LET str_val == Substr(raw, 0, digits)
      read == SelectInSeq(Append(str_val, Nul), LAMBDA c : c[1] # "digit") - 1
  IN Value(str_val)[read]

-----------------------------------------------------------------------------
(* A datagram from its sender to its receiver.                             *)

\* "close" is the server's empty datagram.
Messages ==
  [kind : {"data"}, num : Numbers, payload : Payloads]
    \cup [kind : {"ack"}, num : Numbers, payload : {<<>>}]
    \cup {[kind |-> "close", num |-> 0, payload |-> <<>>]}

Encode(msg) ==
  CASE msg.kind = "data" -> generatePacketString(msg.num, msg.payload, seqnum_digits)
    [] msg.kind = "ack" -> AckString(msg.num, server_digits)
    [] msg.kind = "close" -> <<>>

\* A result of receiving: the number and payload passed on, if any.
Result(what, n, payload) == [what |-> what, num |-> n, payload |-> payload]
NoResult(what) == Result(what, 0, <<>>)

\* Numbers have at most as many digits as the end that sends them is set to.
Init ==
  /\ seqnum_digits \in Digits
  /\ server_digits \in Digits
  /\ sent \in Messages
  /\ Len(to_string[sent.num]) <=
       (IF sent.kind = "data" THEN seqnum_digits ELSE server_digits)
  /\ wire = Encode(sent)
  /\ damage = 0
  /\ outcome = NoResult("pending")

\* A symbol is altered, or the datagram is cut short.
Damage ==
  /\ outcome.what = "pending"
  /\ damage < MaxDamage
  /\ damage' = damage + 1
  /\ \/ \E i \in 1..Len(wire), c \in Noise :
          wire' = [wire EXCEPT ![i] = c]
     \/ \E n \in 0..(Len(wire) - 1) : wire' = SubSeq(wire, 1, n)
  /\ UNCHANGED <<seqnum_digits, server_digits, sent, outcome>>

\* The zero-filled buffer of ClientReceiver, and the C string in it: up to the
\* first zero, or beyond the buffer if there is none.
buffer_sz == packet_size + 1 + HashLen + seqnum_digits
Buffer == SubSeq(wire \o [i \in 1..buffer_sz |-> Nul], 1, buffer_sz)
Terminated == Nul \in Range(Buffer)
input_raw_packet == SubSeq(Buffer, 1, SelectInSeq(Buffer, LAMBDA c : c = Nul) - 1)

\* Mutant: an empty datagram goes through the same check as the others.
LeavesLoopNever == FALSE

LeavesLoop == Len(wire) = 0

\* One iteration of ClientReceiver's loop.
ClientReceives ==
  /\ outcome.what = "pending"
  /\ sent.kind # "data"
  /\ outcome' =
       IF LeavesLoop THEN NoResult("left")
       ELSE IF ~Terminated THEN NoResult("overread")
       ELSE LET check == checkPacketIntegrity(input_raw_packet, seqnum_digits, TRUE)
            IN IF check = "good"
               THEN Result("good", extract_seq_num(input_raw_packet, seqnum_digits), <<>>)
               ELSE NoResult(check)
  /\ UNCHANGED <<seqnum_digits, server_digits, sent, wire, damage>>

\* The server checks a data packet with the other branch of the same check.
ServerReceives ==
  /\ outcome.what = "pending"
  /\ sent.kind = "data"
  /\ outcome' =
       LET check == checkPacketIntegrity(wire, server_digits, FALSE)
       IN IF check = "good"
          THEN Result("good", extract_seq_num(wire, server_digits),
                      Substr(wire, server_digits + HashLen, Len(wire)))
          ELSE NoResult(check)
  /\ UNCHANGED <<seqnum_digits, server_digits, sent, wire, damage>>

Next == Damage \/ ClientReceives \/ ServerReceives

Spec == Init /\ [][Next]_vars

-----------------------------------------------------------------------------

Intact == damage = 0 /\ server_digits = seqnum_digits
Received == outcome.what # "pending"

\* Between ends that agree on the digits every undamaged datagram is understood:
\* leading zeros, the number 0 and a full last digit come back as they were sent.
RoundTrip ==
  Intact /\ Received /\ sent.kind # "close" =>
    outcome = Result("good", sent.num, sent.payload)

\* What passes the check is what was sent, whatever happened to the datagram:
\* ackedPacket is only called with a number the server acknowledged, and however
\* many digits the server writes; of a data packet the payload is right (its
\* number is not covered by the digest).
AcceptedIsGenuine ==
  outcome.what = "good" =>
    IF sent.kind = "ack"
    THEN outcome.num = sent.num /\ server_digits = seqnum_digits
    ELSE outcome.payload = sent.payload

\* No datagram of the server stops the receiver thread with an exception or
\* overruns its buffer, the closing one and those of a server with other digits
\* included, as long as these fit the buffer and are not so few that the whole ACK
\* is shorter than the client's number.
ServerIsHarmless ==
  /\ sent.kind # "data" /\ damage = 0
  /\ server_digits \in (seqnum_digits - HashLen)..(seqnum_digits + packet_size)
  => outcome.what \notin {"throw", "overread"}
=============================================================================
