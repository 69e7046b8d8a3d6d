------------------------------ MODULE MCPacket ------------------------------
(* Instances of Packet for TLC. *)
EXTENDS Packet

\* Payloads shorter than packet_size and full ones; a file may hold digits.
SomePayloads == {<<Byte(1)>>, <<Byte(1), Digit(0)>>, <<Digit(1), Digit(1)>>}

\* A digit for a digit, text and zeros in the wrong place.
SomeNoise == {Digit(0), Digit(1), Byte(1), Nul}

\* The numbers of d digits are those below max_seq_num_b10 + 1 = 10^d.
ASSUME DigitsAssumption ==
  \A d \in Digits : \A n \in Numbers : Len(to_string[n]) <= d <=> n < 10^d
=============================================================================
