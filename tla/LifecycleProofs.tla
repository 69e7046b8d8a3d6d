-------------------------- MODULE LifecycleProofs ---------------------------
(***************************************************************************)
(* Theorems about the end of the process, for every number of timer        *)
(* threads.                                                                *)
(*                                                                         *)
(* Where the main thread is in the chain of destructors tells which of the *)
(* other threads it has joined.  The receiver thread ends only with the    *)
(* server's answer, which comes only after the transfer is finished; so    *)
(* what races with destruction races with it after that.                   *)
(***************************************************************************)
EXTENDS Lifecycle, TLAPS

Threads == {"main", "sender", "receiver"} \cup Handlers

\* Where a thread can be.
MainPlaces == {"parse", "construct", "startReceiver", "startSender", "joinReceiver",
               "joinSender", "closeSocket", "freeOlder", "freeTimer", "freeSender",
               "return"}
SenderPlaces == {"none", "sending", "endConnection", "stopTimer", "stopReceiver", "done"}
ReceiverPlaces == {"none", "receive", "ackedPacket", "done"}
HandlerPlaces == {"none", "entry", "lock", "resend", "restart"}
Places == MainPlaces \cup SenderPlaces \cup ReceiverPlaces \cup HandlerPlaces

\* The threads are where their code can be, and each Timer has an owner.
Typed ==
  /\ pc \in [Threads -> Places]
  /\ pc["main"] \in MainPlaces
  /\ pc["sender"] \in SenderPlaces
  /\ pc["receiver"] \in ReceiverPlaces
  /\ owner \in [Handlers -> {"timeoutTimer", "olderTimers"}]

\* main launches the receiver before the sender, and no ACK is handled before the
\* sender runs.
Launched ==
  /\ pc["sender"] = "none" <=>
       pc["main"] \in {"parse", "construct", "return", "startReceiver", "startSender"}
  /\ pc["main"] \in {"parse", "construct", "return", "startReceiver"} =>
       pc["receiver"] = "none"
  /\ pc["receiver"] = "ackedPacket" => pc["sender"] # "none"

\* The closing exchange follows the end of the transfer, and the receiver thread
\* ends with it.
Closing ==
  /\ finished <=>
       pc["sender"] \in {"endConnection", "stopTimer", "stopReceiver", "done"}
  /\ closing # "none" => finished
  /\ closing = "received" <=> pc["receiver"] = "done"

\* What main has joined when it destroys each part of the client.
JoinedThreads ==
  /\ ReceiverDestroyed => pc["receiver"] = "done"
  /\ SocketClosed \/ pc["main"] = "closeSocket" => pc["sender"] = "done"
  /\ pc["main"] = "freeTimer" => Joined("olderTimers")
  /\ pc["main"] = "freeSender" => timeout # "armed" /\ \A h \in Handlers : pc[h] = "none"

LifecycleInv ==
  /\ Typed /\ Launched /\ Closing /\ JoinedThreads
  /\ OnlyKnownMisuse /\ ExitNeedsAnswer

-----------------------------------------------------------------------------
(* Every step preserves the invariant; its parts are expanded here.         *)

USE LifecycleAssumption
    DEF LifecycleInv, Threads, Typed, MainPlaces, SenderPlaces, ReceiverPlaces,
        HandlerPlaces, Places, Launched, Closing, JoinedThreads, Joined, SocketClosed,
        ReceiverDestroyed, OnlyKnownMisuse, ExitNeedsAnswer, Alive, Goes, JustGoes,
        startVars, timerVars, endVars

\* Nothing runs yet when main parses its options.
LEMMA LifecycleInit == Init => LifecycleInv
  BY DEF Init

\* main starts the threads and destroys what it has joined.
LEMMA MainStep ==
  ASSUME LifecycleInv, Alive, Main
  PROVE  LifecycleInv'
  <1>1. CASE Parse \/ Construct
    <2>1. Typed'
      BY <1>1 DEF Parse, Construct
    <2>2. Launched'
      BY <1>1 DEF Parse, Construct
    <2>3. Closing' /\ ExitNeedsAnswer'
      BY <1>1 DEF Parse, Construct
    <2>4. JoinedThreads'
      BY <1>1 DEF Parse, Construct
    <2>5. OnlyKnownMisuse'
      BY <1>1 DEF Parse, Construct
    <2> QED BY <2>1, <2>2, <2>3, <2>4, <2>5
  <1>2. CASE Start
    <2>1. CASE Launch("receiver", "receive", "startReceiver", "startSender")
      BY <2>1 DEF Launch
    <2>2. CASE Launch("sender", "sending", "startSender", "joinReceiver")
      BY <2>2 DEF Launch
    <2> QED BY <1>2, <2>1, <2>2 DEF Start
  <1>3. CASE JoinReceiver
    BY <1>3 DEF JoinReceiver
  <1>4. CASE JoinSender \/ CloseSocket
    BY <1>4 DEF JoinSender, CloseSocket
  <1>5. CASE FreeOlderTimers
    BY <1>5 DEF FreeOlderTimers
  <1>6. CASE FreeTimeoutTimer
    BY <1>6 DEF FreeTimeoutTimer
  <1>7. CASE Exit
    BY <1>7 DEF Exit
  <1> QED BY <1>1, <1>2, <1>3, <1>4, <1>5, <1>6, <1>7 DEF Main

\* The sender thread starts timers and finishes before main joins it.
LEMMA SenderStep ==
  ASSUME LifecycleInv, Alive, StartTimer \/ FinishSending \/ SenderEnds
  PROVE  LifecycleInv'
  <1>1. CASE StartTimer
    BY <1>1 DEF StartTimer, startTimeoutTimer
  <1>2. CASE FinishSending
    BY <1>2 DEF FinishSending
  <1>3. CASE EndConnection
    BY <1>3 DEF EndConnection, endConnection
  <1>4. CASE StopTimer
    BY <1>4 DEF StopTimer
  <1>5. CASE StopReceiver
    BY <1>5 DEF StopReceiver
  <1> QED BY <1>1, <1>2, <1>3, <1>4, <1>5 DEF SenderEnds

\* The receiver thread uses the sender only before main joins it.
LEMMA ReceiverStep ==
  ASSUME LifecycleInv, Alive, Receiver
  PROVE  LifecycleInv'
  <1>1. CASE ReceiveAck
    BY <1>1 DEF ReceiveAck
  <1>2. CASE AckedPacket
    BY <1>2 DEF AckedPacket, startTimeoutTimer, endConnection
  <1>3. CASE ReceiveEmpty
    BY <1>3 DEF ReceiveEmpty, AfterEmpty
  <1> QED BY <1>1, <1>2, <1>3 DEF Receiver

\* Once the socket is closed, no timer thread hands main a Timer in olderTimers.
LEMMA HandlerStep ==
  ASSUME LifecycleInv, Alive, NEW h \in Handlers, TimerThread(h)
  PROVE  LifecycleInv'
  <1>1. CASE TimerExpires(h)
    BY <1>1 DEF TimerExpires
  <1>2. CASE HandlerEntry(h)
    BY <1>2 DEF HandlerEntry
  <1>3. CASE HandlerLock(h)
    <2>1. CASE JustGoes(h, "lock", "resend")
      BY <2>1
    <2>2. CASE JustGoes(h, "lock", "restart")
      BY <2>2
    <2> QED BY <1>3, <2>1, <2>2 DEF HandlerLock
  <1>4. CASE HandlerResend(h)
    BY <1>4 DEF HandlerResend
  <1>5. CASE HandlerRestart(h)
    BY <1>5 DEF HandlerRestart, startTimeoutTimer
  <1> QED BY <1>1, <1>2, <1>3, <1>4, <1>5 DEF TimerThread

\* The server answers only a client that has finished.
LEMMA ServerStep ==
  ASSUME LifecycleInv, Alive, ServerAnswers \/ Interrupt
  PROVE  LifecycleInv'
  <1>1. CASE ServerAnswers
    BY <1>1 DEF ServerAnswers
  <1>2. CASE Interrupt
    BY <1>2 DEF Interrupt
  <1> QED BY <1>1, <1>2

-----------------------------------------------------------------------------
(* The theorems.                                                           *)

HIDE DEF LifecycleInv, Threads, Typed, MainPlaces, SenderPlaces, ReceiverPlaces,
         HandlerPlaces, Places, Launched, Closing, JoinedThreads, Joined, SocketClosed,
         ReceiverDestroyed, OnlyKnownMisuse, ExitNeedsAnswer, Alive, Goes, JustGoes,
         startVars, timerVars, endVars

\* The invariant holds in every reachable state.
LEMMA LifecycleInvariant == Spec => []LifecycleInv
  <1>1. LifecycleInv /\ [Next]_vars => LifecycleInv'
    <2> SUFFICES ASSUME LifecycleInv, [Next]_vars PROVE LifecycleInv'
      OBVIOUS
    <2>1. CASE Alive /\ (ServerAnswers \/ Interrupt)
      BY <2>1, ServerStep
    <2>2. CASE UNCHANGED vars
      BY <2>2
      DEF vars, LifecycleInv, Typed, Launched, Closing, JoinedThreads, Joined,
          SocketClosed, ReceiverDestroyed, OnlyKnownMisuse, ExitNeedsAnswer, startVars,
          timerVars, endVars
    <2> QED
      BY <2>1, <2>2, MainStep, SenderStep, ReceiverStep, HandlerStep DEF Next
  <1> QED BY <1>1, LifecycleInit, PTL DEF Spec

\* Whatever the server, the timers and the user do, destruction races with the
\* threads in the known places only and only after the server's answer; ackedPacket
\* never runs on a sender that is being destroyed.
THEOREM DestructionRaces == Spec => []OnlyKnownMisuse
  <1>1. LifecycleInv => OnlyKnownMisuse
    BY DEF LifecycleInv
  <1> QED BY <1>1, LifecycleInvariant, PTL

\* The order in which Client's members are destroyed leaves no thread that could
\* use the sender's mutexes and buffers.
THEOREM DestroysUnused == Spec => []NoThreadAtExit
  <1>1. LifecycleInv => NoThreadAtExit
    BY DEF LifecycleInv, JoinedThreads, NoThreadAtExit, ReceiverDestroyed, SocketClosed
  <1> QED BY <1>1, LifecycleInvariant, PTL

\* Without the server's empty datagram the process does not end by itself.
THEOREM NeedsAnswer == Spec => []ExitNeedsAnswer
  <1>1. LifecycleInv => ExitNeedsAnswer
    BY DEF LifecycleInv
  <1> QED BY <1>1, LifecycleInvariant, PTL
=============================================================================
