------------------------------ MODULE MCClient ------------------------------
(* Instances of Client for TLC: files of two chunks. *)
EXTENDS Client

\* Chunks of two packets and one packet.
ThreePackets == [c \in 0..2 |-> <<0, 2, 3>>[c + 1]]

\* Chunks of three packets and one packet.
FourPackets == [c \in 0..2 |-> <<0, 3, 4>>[c + 1]]

\* Chunks of four packets and one packet.
FivePackets == [c \in 0..2 |-> <<0, 4, 5>>[c + 1]]
=============================================================================
