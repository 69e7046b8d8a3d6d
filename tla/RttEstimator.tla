---------------------------- MODULE RttEstimator ----------------------------
(***************************************************************************)
(* estimated_rtt: the moving average that ackedPacket keeps of the round   *)
(* trip times, and that startTimeoutTimer uses as the timeout.             *)
(*                                                                         *)
(* One packet is in flight at a time (window_size 1).  Time passes in      *)
(* milliseconds, and the code takes none: what falls in the same           *)
(* millisecond happens in any order.  The ACK of a transmission arrives    *)
(* rtt milliseconds after it, or never.  A copy of an ACK that comes after *)
(* its packet was acknowledged is ignored by ackedPacket and left out.     *)
(***************************************************************************)
EXTENDS Integers, FiniteSets

CONSTANTS
  InitialRtt,  \* TIMEOUT_MILLISECONDS_WAIT
  Rtts,        \* round trip times of the network
  ClockSteps,  \* by how much somebody sets the system clock back or forward
  MaxSteps,    \* bound: how many of them
  MaxAge       \* bound: longest time measured

\* Only a clock that is set forward reaches MaxAge: a packet that is in flight
\* that long has been resent, and is not sampled.
ASSUME RttAssumption ==
  /\ InitialRtt \in Nat
  /\ Rtts \subseteq Nat
  /\ ClockSteps \subseteq Nat
  /\ MaxSteps \in Nat
  /\ MaxAge \in Nat

VARIABLES
  estimated_rtt,
  rtt,            \* current round trip time of the network
  in_flight,      \* a packet is sent and not acknowledged
  retransmitted,  \* Packet::retransmitted of that packet
  age,            \* now, minus its starting_time
  returning,      \* ACKs on their way: which transmission, time left
  timer,          \* milliseconds until timeoutTimer expires; Off if stopped
  hpc,            \* where timeoutHandler is
  steps,          \* changes of the clock so far
  history         \* samples so far: least and greatest, and the last one's ACK

vars == <<estimated_rtt, rtt, in_flight, retransmitted, age, returning, timer,
          hpc, steps, history>>

Off == -1

\* Mutant: double the estimate, the customary margin.
TimeoutMargin == IF estimated_rtt > 0 THEN 2 * estimated_rtt ELSE 0

\* wait_for with a timeout that is not positive returns at once.
Timeout == IF estimated_rtt > 0 THEN estimated_rtt ELSE 0

Smaller(a, b) == IF a < b THEN a ELSE b
Larger(a, b) == IF a > b THEN a ELSE b

Init ==
  /\ estimated_rtt = InitialRtt
  /\ rtt \in Rtts
  /\ in_flight = FALSE
  /\ retransmitted = FALSE
  /\ age = 0
  /\ returning = {}
  /\ timer = Off
  /\ hpc = "idle"
  /\ steps = 0
  /\ history = [least |-> InitialRtt, greatest |-> InitialRtt, ack_of |-> "none"]

-----------------------------------------------------------------------------

\* A transmission: its ACK will come unless one of the two datagrams is lost.
Transmission(number, lost) ==
  IF lost THEN {} ELSE {[of |-> number, left |-> rtt]}

\* sendPacketReliable: stamp a new packet, send it and start the timer.  The
\* handler must not hold packet_send_mutex.
SendPacketReliable(lost) ==
  /\ ~in_flight
  /\ hpc \in {"idle", "lock"}
  /\ in_flight' = TRUE
  /\ retransmitted' = FALSE
  /\ age' = 0
  /\ returning' = Transmission("first", lost)
  /\ timer' = Timeout
  /\ UNCHANGED <<estimated_rtt, rtt, hpc, steps, history>>

\* Time passes when no thread has anything to do; the sender thread always has
\* another packet to send.
Tick ==
  /\ in_flight
  /\ hpc = "idle"
  /\ timer # 0
  /\ \A a \in returning : a.left > 0
  /\ timer' = IF timer = Off THEN Off ELSE timer - 1
  /\ age' = Smaller(age + 1, MaxAge)
  /\ returning' = {[a EXCEPT !.left = @ - 1] : a \in returning}
  /\ UNCHANGED <<estimated_rtt, rtt, in_flight, retransmitted, hpc, steps, history>>

\* The timer expires.  timeoutHandler takes the mutex, flags the packet as
\* retransmitted, sends it again and restarts the timer; if nothing is in
\* flight, it only restarts the timer.
TimerExpires ==
  /\ timer = 0
  /\ hpc = "idle"
  /\ timer' = Off
  /\ hpc' = "lock"
  /\ UNCHANGED <<estimated_rtt, rtt, in_flight, retransmitted, age, returning,
                 steps, history>>

HandlerLock ==
  /\ hpc = "lock"
  /\ hpc' = IF in_flight THEN "flag" ELSE "restart"
  /\ UNCHANGED <<estimated_rtt, rtt, in_flight, retransmitted, age, returning,
                 timer, steps, history>>

\* Mutant: the packet is not flagged.
HandlerFlagMissing ==
  /\ hpc = "flag"
  /\ hpc' = "send"
  /\ UNCHANGED <<estimated_rtt, rtt, in_flight, retransmitted, age, returning,
                 timer, steps, history>>

HandlerFlag ==
  /\ hpc = "flag"
  /\ retransmitted' = TRUE
  /\ hpc' = "send"
  /\ UNCHANGED <<estimated_rtt, rtt, in_flight, age, returning, timer, steps,
                 history>>

HandlerSend(lost) ==
  /\ hpc = "send"
  /\ returning' = returning \cup Transmission("again", lost)
  /\ hpc' = "restart"
  /\ UNCHANGED <<estimated_rtt, rtt, in_flight, retransmitted, age, timer, steps,
                 history>>

HandlerRestart ==
  /\ hpc = "restart"
  /\ timer' = Timeout
  /\ hpc' = "idle"
  /\ UNCHANGED <<estimated_rtt, rtt, in_flight, retransmitted, age, returning,
                 steps, history>>

\* The conversion to int, which drops the fraction.
Truncate8(n) == IF n >= 0 THEN n \div 8 ELSE -((-n) \div 8)

\* Mutants: the weights do not add up to 1; the result is rounded up.
AverageHeavy(estimated, sampled) == Truncate8(8 * estimated + sampled)
AverageUp(estimated, sampled) == Truncate8(7 * estimated + sampled + 7)

\* (int)((1 - ALPHA) * estimated_rtt + ALPHA * sampled_rtt), with ALPHA = 1/8:
\* the double arithmetic is exact on these values.
Average(estimated, sampled) == Truncate8(7 * estimated + sampled)

\* ackedPacket takes a sample unless the packet was retransmitted, and stops the
\* timer: with one packet in flight base_idx has caught up with next_seq_num_idx.
AckedPacket ==
  /\ in_flight
  /\ \E a \in returning :
       /\ a.left = 0
       /\ IF retransmitted
          THEN UNCHANGED <<estimated_rtt, history>>
          ELSE /\ estimated_rtt' = Average(estimated_rtt, age)
               /\ history' = [least |-> Smaller(history.least, age),
                              greatest |-> Larger(history.greatest, age),
                              ack_of |-> a.of]
  /\ in_flight' = FALSE
  /\ returning' = {}
  /\ timer' = Off
  /\ UNCHANGED <<rtt, retransmitted, age, hpc, steps>>

\* Between two packets the network changes its delay.
RttChanges ==
  /\ ~in_flight
  /\ rtt' \in Rtts
  /\ UNCHANGED <<estimated_rtt, in_flight, retransmitted, age, returning, timer,
                 hpc, steps, history>>

\* system_clock is set while a packet is in flight.
ClockIsSet ==
  /\ in_flight
  /\ steps < MaxSteps
  /\ steps' = steps + 1
  /\ \E d \in ClockSteps : age' \in {age - d, Smaller(age + d, MaxAge)}
  /\ UNCHANGED <<estimated_rtt, rtt, in_flight, retransmitted, returning, timer,
                 hpc, history>>

Handler ==
  \/ TimerExpires \/ HandlerLock \/ HandlerFlag \/ HandlerRestart
  \/ \E lost \in BOOLEAN : HandlerSend(lost)

Next ==
  \/ \E lost \in BOOLEAN : SendPacketReliable(lost)
  \/ Tick \/ Handler \/ AckedPacket \/ RttChanges \/ ClockIsSet

Spec == Init /\ [][Next]_vars

\* Threads run and time passes; the network does not lose every first
\* transmission, nor every one of a packet that is sent again and again.
FairSpec ==
  /\ Spec
  /\ WF_vars(Tick) /\ WF_vars(Handler) /\ WF_vars(AckedPacket)
  /\ SF_vars(SendPacketReliable(FALSE))
  /\ SF_vars(HandlerSend(FALSE))

-----------------------------------------------------------------------------

\* The average stays among the measurements it is an average of, the initial
\* value included, in spite of the truncation and of negative samples.
EstimateWithinSamples ==
  estimated_rtt \in history.least..history.greatest

\* Karn's rule: a sample is only taken from the ACK of a first transmission,
\* although the flag that says so is set by another thread.
KarnRule == history.ack_of # "again"

\* The timeout has no margin and is not backed off.  If the round trip takes
\* longer than estimated, the packet is resent before its ACK can arrive and is
\* not sampled: the estimate never recovers.
EstimateStuckBelow ==
  [][in_flight /\ rtt > 0 /\ estimated_rtt < rtt => estimated_rtt' = estimated_rtt]_vars

\* With a steady network the estimate settles on the round trip time or below
\* it, never above: from then on every packet may be sent twice.
SettlesWithoutMargin ==
  \A r \in Rtts : <>[](rtt = r) => <>[](estimated_rtt <= r)
=============================================================================
