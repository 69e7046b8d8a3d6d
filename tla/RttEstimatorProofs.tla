------------------------- MODULE RttEstimatorProofs -------------------------
(***************************************************************************)
(* Theorems about estimated_rtt, for every initial value, set of round     *)
(* trip times, changes of the clock and number of packets.                 *)
(***************************************************************************)
EXTENDS RttEstimator, TLAPS

-----------------------------------------------------------------------------
(* The moving average.                                                     *)

\* The conversion to int rounds towards 0 by less than one.
LEMMA Truncate8Bounds ==
  ASSUME NEW n \in Int
  PROVE  /\ Truncate8(n) \in Int
         /\ n >= 0 => 8 * Truncate8(n) <= n /\ n < 8 * Truncate8(n) + 8
         /\ n < 0  => n <= 8 * Truncate8(n) /\ 8 * Truncate8(n) - 8 < n
  <1>1. CASE n >= 0
    BY <1>1 DEF Truncate8
  <1>2. CASE ~(n >= 0)
    <2> DEFINE m == -n
    <2>1. m \in Int /\ m > 0
      BY <1>2
    <2>2. (m \div 8) \in Int /\ 8 * (m \div 8) <= m /\ m < 8 * (m \div 8) + 8
      BY <2>1
    <2>3. Truncate8(n) = -(m \div 8)
      BY <1>2 DEF Truncate8
    <2> QED BY <1>2, <2>2, <2>3
  <1> QED BY <1>1, <1>2

\* ackedPacket's average lies between the estimate and the sample, whichever
\* is larger and whatever their signs.
THEOREM AverageIsBetween ==
  ASSUME NEW low \in Int, NEW high \in Int,
         NEW estimated \in low..high, NEW sampled \in low..high
  PROVE  Average(estimated, sampled) \in low..high
  <1> DEFINE n == 7 * estimated + sampled
             q == Truncate8(n)
  <1>1. n \in Int /\ 8 * low <= n /\ n <= 8 * high
    OBVIOUS
  <1>2. /\ q \in Int
        /\ n >= 0 => 8 * q <= n /\ n < 8 * q + 8
        /\ n < 0  => n <= 8 * q /\ 8 * q - 8 < n
    BY <1>1, Truncate8Bounds
  <1>3. q \in low..high
    <2> HIDE DEF n, q
    <2> QED BY <1>1, <1>2
  <1> QED BY <1>3 DEF Average

-----------------------------------------------------------------------------
(* Types, and what is on its way.                                          *)

Acks == [of : {"first", "again"}, left : Int]
Histories == [least : Int, greatest : Int, ack_of : {"none", "first", "again"}]

NumbersOK ==
  /\ estimated_rtt \in Int
  /\ age \in Int
  /\ history \in Histories
  /\ rtt \in Nat
  /\ returning \subseteq Acks

\* A transmission puts at most one ACK on its way, which says of which one it is.
LEMMA TransmissionOf ==
  ASSUME NEW number \in {"first", "again"}, NEW lost \in BOOLEAN, rtt \in Nat
  PROVE  /\ Transmission(number, lost) \subseteq Acks
         /\ \A a \in Transmission(number, lost) : a.of = number
  BY DEF Transmission, Acks

\* Ticking does not change which transmission an ACK is of.
LEMMA TickOf ==
  ASSUME NEW S, returning \subseteq Acks,
         S = {[a EXCEPT !.left = @ - 1] : a \in returning}
  PROVE  S \subseteq Acks /\ \A b \in S : \E a \in returning : b.of = a.of
  <1>1. ASSUME NEW b \in S PROVE b \in Acks /\ \E a \in returning : b.of = a.of
    <2>1. PICK a \in returning : b = [a EXCEPT !.left = @ - 1]
      OBVIOUS
    <2>2. a \in Acks
      OBVIOUS
    <2>3. b \in Acks /\ b.of = a.of
      BY <2>1, <2>2 DEF Acks
    <2> QED BY <2>3
  <1> QED BY <1>1

-----------------------------------------------------------------------------
(* Karn's rule: an ACK of a retransmission is only on its way, or about to *)
(* be, while the packet it would acknowledge is flagged.                   *)

AgainIsFlagged ==
  in_flight =>
    /\ \A a \in returning : a.of = "again" => retransmitted
    /\ hpc = "send" => retransmitted

Inv == NumbersOK /\ EstimateWithinSamples /\ KarnRule /\ AgainIsFlagged

\* The estimate starts as the only measurement, with nothing in flight.
LEMMA InvInit == Init => Inv
  <1> SUFFICES ASSUME Init PROVE Inv
    OBVIOUS
  <1> USE RttAssumption DEF Init
  <1>0. history \in Histories
    BY DEF Histories
  <1>1. NumbersOK
    BY <1>0 DEF NumbersOK
  <1>2. EstimateWithinSamples /\ KarnRule
    BY DEF EstimateWithinSamples, KarnRule
  <1>3. AgainIsFlagged
    BY DEF AgainIsFlagged
  <1> QED BY <1>1, <1>2, <1>3 DEF Inv

\* Every step of the sender, the handler, ackedPacket, the network and the clock
\* keeps the invariant.
LEMMA InvStep == Inv /\ [Next]_vars => Inv'
  <1> SUFFICES ASSUME Inv, [Next]_vars PROVE Inv'
    OBVIOUS
  <1> USE DEF Inv, NumbersOK, KarnRule, AgainIsFlagged, EstimateWithinSamples
  <1>1. ASSUME NEW lost \in BOOLEAN, SendPacketReliable(lost) PROVE Inv'
    <2>1. /\ returning' \subseteq Acks
          /\ \A a \in returning' : a.of = "first"
      BY <1>1, TransmissionOf DEF SendPacketReliable
    <2>2. NumbersOK' /\ AgainIsFlagged'
      BY <1>1, <2>1 DEF SendPacketReliable
    <2>3. EstimateWithinSamples' /\ KarnRule'
      BY <1>1 DEF SendPacketReliable
    <2> QED BY <2>2, <2>3
  <1>2. CASE Tick
    <2>1. /\ returning' \subseteq Acks
          /\ \A b \in returning' : \E a \in returning : b.of = a.of
      BY <1>2, TickOf DEF Tick
    <2>2. age' \in Int
      BY <1>2, RttAssumption DEF Tick, Smaller
    <2> QED BY <1>2, <2>1, <2>2 DEF Tick
  <1>3. CASE TimerExpires
    BY <1>3 DEF TimerExpires
  <1>4. CASE HandlerLock
    BY <1>4 DEF HandlerLock
  <1>5. CASE HandlerFlag
    BY <1>5 DEF HandlerFlag
  <1>6. ASSUME NEW lost \in BOOLEAN, HandlerSend(lost) PROVE Inv'
    <2>1. /\ returning' \subseteq Acks
          /\ \A a \in returning' : a \in returning \/ a.of = "again"
      BY <1>6, TransmissionOf DEF HandlerSend
    <2> QED BY <1>6, <2>1 DEF HandlerSend
  <1>7. CASE HandlerRestart
    BY <1>7 DEF HandlerRestart
  <1>8. CASE AckedPacket
    <2>1. CASE retransmitted
      BY <1>8, <2>1 DEF AckedPacket
    <2>2. CASE ~retransmitted
      <3>1. PICK a \in returning :
              history' = [least |-> Smaller(history.least, age),
                          greatest |-> Larger(history.greatest, age),
                          ack_of |-> a.of]
        BY <1>8, <2>2 DEF AckedPacket
      <3>2. a.of = "first"
        BY <1>8, <2>2 DEF AckedPacket, Acks
      <3>3. /\ history.least \in Int /\ history.greatest \in Int
            /\ history'.least = Smaller(history.least, age)
            /\ history'.greatest = Larger(history.greatest, age)
            /\ history'.ack_of = "first"
        BY <3>1, <3>2 DEF Histories
      <3>4. /\ history'.least \in Int /\ history'.greatest \in Int
            /\ estimated_rtt \in history'.least..history'.greatest
            /\ age \in history'.least..history'.greatest
        BY <3>3 DEF Smaller, Larger
      <3>5. estimated_rtt' \in history'.least..history'.greatest
        BY <1>8, <2>2, <3>4, AverageIsBetween DEF AckedPacket
      <3>6. history' \in Histories
        BY <3>1, <3>2, <3>3, <3>4 DEF Histories
      <3>7. EstimateWithinSamples' /\ KarnRule'
        BY <3>3, <3>5
      <3>8. estimated_rtt' \in Int
        BY <3>4, <3>5
      <3>9. NumbersOK'
        BY <1>8, <3>6, <3>8 DEF AckedPacket
      <3>10. AgainIsFlagged'
        BY <1>8 DEF AckedPacket
      <3> QED BY <3>7, <3>9, <3>10
    <2> QED BY <2>1, <2>2
  <1>9. CASE RttChanges
    BY <1>9, RttAssumption DEF RttChanges
  <1>10. CASE ClockIsSet
    <2>1. age' \in Int
      BY <1>10, RttAssumption DEF ClockIsSet, Smaller
    <2> QED BY <1>10, <2>1 DEF ClockIsSet
  <1>11. CASE UNCHANGED vars
    BY <1>11 DEF vars
  <1> QED
    BY <1>1, <1>2, <1>3, <1>4, <1>5, <1>6, <1>7, <1>8, <1>9, <1>10, <1>11
    DEF Next, Handler

\* The estimate never leaves the range of the measurements it was made from,
\* whatever round trip times the network has and however the clock is set.
THEOREM EstimateBounded == Spec => []EstimateWithinSamples
  BY InvInit, InvStep, PTL DEF Spec, Inv

\* ackedPacket never samples the ACK of a retransmission, although
\* timeoutHandler sets the flag on another thread.
THEOREM KarnHolds == Spec => []KarnRule
  BY InvInit, InvStep, PTL DEF Spec, Inv

-----------------------------------------------------------------------------
(* The estimate below the round trip time.                                 *)

\* The timeout of the packet in flight, which has not been resent, comes first.
TooShort == in_flight /\ ~retransmitted /\ rtt > 0 /\ estimated_rtt < rtt

\* Its ACK is further away than the timer's expiry; once the timer has expired,
\* the handler flags the packet before time passes.
TimeoutFirst ==
  TooShort =>
    /\ hpc \in {"idle", "lock", "flag"}
    /\ hpc = "idle" => timer # Off
    /\ \A a \in returning : a.left > timer /\ a.left > 0

StuckInv == Inv /\ timer \in Nat \cup {Off} /\ TimeoutFirst

\* The ACK of a transmission is a round trip away.
LEMMA TransmissionLeft ==
  ASSUME NEW number, NEW lost \in BOOLEAN
  PROVE  \A a \in Transmission(number, lost) : a.left = rtt
  BY DEF Transmission

\* A tick brings every ACK one millisecond closer.
LEMMA TickLeft ==
  ASSUME NEW S, returning \subseteq Acks,
         S = {[a EXCEPT !.left = @ - 1] : a \in returning}
  PROVE  \A b \in S : \E a \in returning : b.left = a.left - 1
  <1> TAKE b \in S
  <1>1. PICK a \in returning : b = [a EXCEPT !.left = @ - 1]
    OBVIOUS
  <1>2. a \in Acks
    OBVIOUS
  <1>3. b.left = a.left - 1
    BY <1>1, <1>2 DEF Acks
  <1> QED BY <1>3

\* Every step keeps the timeout ahead of the ACK.
LEMMA StuckStep == StuckInv /\ [Next]_vars => StuckInv'
  <1> SUFFICES ASSUME StuckInv, [Next]_vars PROVE StuckInv'
    OBVIOUS
  <1>0. Inv'
    BY InvStep DEF StuckInv
  <1> SUFFICES timer' \in Nat \cup {Off} /\ TimeoutFirst'
    BY <1>0 DEF StuckInv
  <1>types. /\ rtt \in Nat /\ estimated_rtt \in Int /\ returning \subseteq Acks
         /\ timer \in Nat \cup {Off} /\ TimeoutFirst
         /\ Timeout \in Nat /\ \A a \in Acks : a.left \in Int
    BY DEF StuckInv, Inv, NumbersOK, Timeout, Acks
  <1> USE <1>types DEF TimeoutFirst, TooShort, Off
  <1>1. ASSUME NEW lost \in BOOLEAN, SendPacketReliable(lost)
        PROVE  timer' \in Nat \cup {Off} /\ TimeoutFirst'
    <2>1. \A a \in returning' : a.left = rtt
      BY <1>1, TransmissionLeft DEF SendPacketReliable
    <2>2. rtt > 0 /\ estimated_rtt < rtt => Timeout < rtt
      BY DEF Timeout
    <2> QED BY <1>1, <2>1, <2>2 DEF SendPacketReliable
  <1>2. CASE Tick
    <2>1. \A b \in returning' : \E a \in returning : b.left = a.left - 1
      BY <1>2, TickLeft DEF Tick
    <2>2. timer' \in Nat \cup {Off}
      BY <1>2 DEF Tick
    <2>3. TimeoutFirst'
      <3>1. ASSUME TooShort'
            PROVE  TooShort /\ timer # Off /\ timer' = timer - 1 /\ timer > 0
        BY <1>2, <3>1 DEF Tick
      <3>2. ASSUME TooShort', NEW b \in returning'
            PROVE  b.left > timer' /\ b.left > 0
        <4>1. PICK a \in returning : b.left = a.left - 1
          BY <2>1, <3>2
        <4>2. a.left \in Int /\ a.left > timer
          BY <3>1, <3>2
        <4> QED BY <3>1, <3>2, <4>1, <4>2
      <3>3. hpc' = "idle"
        BY <1>2 DEF Tick
      <3> QED BY <3>1, <3>2, <3>3
    <2> QED BY <2>2, <2>3
  <1>3. CASE TimerExpires
    BY <1>3 DEF TimerExpires
  <1>4. CASE HandlerLock
    BY <1>4 DEF HandlerLock
  <1>5. CASE HandlerFlag
    BY <1>5 DEF HandlerFlag
  <1>6. ASSUME NEW lost \in BOOLEAN, HandlerSend(lost)
        PROVE  timer' \in Nat \cup {Off} /\ TimeoutFirst'
    BY <1>6 DEF HandlerSend
  <1>7. CASE HandlerRestart
    BY <1>7 DEF HandlerRestart
  <1>8. CASE AckedPacket
    BY <1>8 DEF AckedPacket
  <1>9. CASE RttChanges
    BY <1>9 DEF RttChanges
  <1>10. CASE ClockIsSet
    BY <1>10 DEF ClockIsSet
  <1>11. CASE UNCHANGED vars
    BY <1>11 DEF vars
  <1> QED
    BY <1>1, <1>2, <1>3, <1>4, <1>5, <1>6, <1>7, <1>8, <1>9, <1>10, <1>11
    DEF Next, Handler

\* A timeout shorter than the round trip is never corrected: for every network
\* and every clock, the packet is flagged before its ACK can be sampled.
THEOREM NeverRecovers == Spec => EstimateStuckBelow
  <1>1. Init => StuckInv
    <2> SUFFICES ASSUME Init PROVE StuckInv
      OBVIOUS
    <2>1. Inv
      BY InvInit
    <2> QED BY <2>1 DEF Init, StuckInv, TimeoutFirst, TooShort, Off
  <1>2. ASSUME StuckInv, [Next]_vars, in_flight, rtt > 0, estimated_rtt < rtt
        PROVE  estimated_rtt' = estimated_rtt
    <2>1. CASE AckedPacket
      <3>1. PICK a \in returning : a.left = 0
        BY <2>1 DEF AckedPacket
      <3>2. retransmitted
        BY <1>2, <3>1 DEF StuckInv, TimeoutFirst, TooShort
      <3> QED BY <2>1, <3>2 DEF AckedPacket
    <2>2. CASE ~AckedPacket
      BY <1>2, <2>2
      DEF Next, Handler, SendPacketReliable, Tick, TimerExpires, HandlerLock,
          HandlerFlag, HandlerSend, HandlerRestart, RttChanges, ClockIsSet, vars
    <2> QED BY <2>1, <2>2
  <1>3. StuckInv /\ [Next]_vars =>
          [in_flight /\ rtt > 0 /\ estimated_rtt < rtt =>
             estimated_rtt' = estimated_rtt]_vars
    BY <1>2
  <1> QED BY <1>1, <1>3, StuckStep, PTL DEF Spec, EstimateStuckBelow
=============================================================================
