----------------------------- MODULE Lifecycle ------------------------------
(***************************************************************************)
(* The process from main to its end: options, construction of Client, the  *)
(* threads Client::start launches, and the destruction of Client while     *)
(* they finish.                                                            *)
(*                                                                         *)
(* The transfer is abstracted to sending and finished (module Client       *)
(* details it), timers to the timeout of TimeoutTimer and the handlers it  *)
(* called.  What matters here is who uses which object and when the main   *)
(* thread destroys it.  Members are destroyed in reverse order of their    *)
(* declaration: the receiver before the sender and, after the body of the  *)
(* sender's destructor, olderTimers before timeoutTimer before the rest.   *)
(***************************************************************************)
CONSTANT Handlers  \* bound: timer threads that can be in timeoutHandler at once

ASSUME LifecycleAssumption == Handlers \cap {"main", "sender", "receiver"} = {}

VARIABLES
  options,   \* the command line: "good", or what is wrong with it
  resources, \* file, host and port: "good", or what is wrong
  pc,        \* where each thread is
  finished,  \* finished_sending_data
  timeout,   \* timeoutTimer: "null", "armed" or "stopped"
  owner,     \* who owns the Timer of each handler: "timeoutTimer", "olderTimers"
  closing,   \* the closing exchange: "none", "sent", "answered", "received"
  exit,      \* how the process ended, or "running"
  misuse     \* the use of a destroyed object, if any

startVars == <<options, resources>>
timerVars == <<timeout, owner>>
endVars == <<exit, misuse>>
vars == <<startVars, pc, finished, timerVars, closing, endVars>>

Init ==
  /\ options \in {"good", "wrongType", "missing", "syntax"}
  /\ resources \in {"good", "noFile", "noHost", "portTaken"}
  /\ pc = [t \in {"main", "sender", "receiver"} \cup Handlers |->
             IF t = "main" THEN "parse" ELSE "none"]
  /\ finished = FALSE
  /\ timeout = "null"
  /\ owner = [h \in Handlers |-> "timeoutTimer"]
  /\ closing = "none"
  /\ exit = "running"
  /\ misuse = "none"

Alive == exit = "running" /\ misuse = "none"

\* Thread t goes on to its next step; the second form changes nothing else.
Goes(t, from, to) == pc[t] = from /\ pc' = [pc EXCEPT ![t] = to]
JustGoes(t, from, to) ==
  /\ Goes(t, from, to)
  /\ UNCHANGED <<startVars, finished, timerVars, closing, endVars>>

\* What of the client is gone, given where main is.
SocketClosed == pc["main"] \in {"freeOlder", "freeTimer", "freeSender"}
ReceiverDestroyed == SocketClosed \/ pc["main"] \in {"joinSender", "closeSocket"}

-----------------------------------------------------------------------------
(* The main thread.                                                        *)

\* initClientFromInput turns a type error and a missing option into
\* InvalidClientInput, which main catches; it does not catch other exceptions.
Parse ==
  \/ options = "good" /\ JustGoes("main", "parse", "construct")
  \/ /\ options # "good"
     /\ Goes("main", "parse", "return")
     /\ exit' = IF options = "syntax" THEN "terminated" ELSE "status1"
     /\ UNCHANGED <<startVars, finished, timerVars, closing, misuse>>

\* Opening the file, resolving the host and binding the port may throw.
Construct ==
  \/ resources = "good" /\ JustGoes("main", "construct", "startReceiver")
  \/ /\ resources # "good"
     /\ Goes("main", "construct", "return")
     /\ exit' = "terminated"
     /\ UNCHANGED <<startVars, finished, timerVars, closing, misuse>>

\* Client::start launches the receiver thread, then the sender thread.
Launch(thread, first, from, to) ==
  /\ pc["main"] = from
  /\ pc' = [pc EXCEPT !["main"] = to, ![thread] = first]
  /\ UNCHANGED <<startVars, finished, timerVars, closing, endVars>>

Start ==
  \/ Launch("receiver", "receive", "startReceiver", "startSender")
  \/ Launch("sender", "sending", "startSender", "joinReceiver")

\* Mutant: the members of Client are declared in the other order.
JoinReceiverLast == pc["sender"] = "done" /\ JustGoes("main", "joinReceiver", "freeOlder")

\* ~ClientReceiver joins the receiver thread; then its members go.
JoinReceiver == pc["receiver"] = "done" /\ JustGoes("main", "joinReceiver", "joinSender")

\* ~ClientSender joins the sender thread and closes the socket.
JoinSender == pc["sender"] = "done" /\ JustGoes("main", "joinSender", "closeSocket")
CloseSocket == JustGoes("main", "closeSocket", "freeOlder")

\* Mutant: the Timers were created with detach on.
JoinedDetach(o) == TRUE

\* The threads of the Timers that o owns have ended.
Joined(o) == \A h \in Handlers : owner[h] = o => pc[h] = "none"

\* Destroying a Timer joins its thread; one that is armed expires first.
FreeOlderTimers == Joined("olderTimers") /\ JustGoes("main", "freeOlder", "freeTimer")
FreeTimeoutTimer ==
  timeout # "armed" /\ Joined("timeoutTimer") /\ JustGoes("main", "freeTimer", "freeSender")

Exit ==
  /\ pc["main"] = "freeSender"
  /\ exit' = "status0"
  /\ UNCHANGED <<startVars, pc, finished, timerVars, closing, misuse>>

Main ==
  \/ Parse \/ Construct \/ Start \/ JoinReceiver
  \/ JoinSender \/ CloseSocket \/ FreeOlderTimers \/ FreeTimeoutTimer \/ Exit

-----------------------------------------------------------------------------
(* The sender thread.                                                      *)

\* startTimeoutTimer, by any thread: what was current moves to olderTimers.
startTimeoutTimer == timeout' = "armed" /\ owner' = [h \in Handlers |-> "olderTimers"]

StartTimer ==
  /\ pc["sender"] = "sending"
  /\ startTimeoutTimer
  /\ UNCHANGED <<startVars, pc, finished, closing, endVars>>

FinishSending ==
  /\ Goes("sender", "sending", "endConnection")
  /\ finished' = TRUE
  /\ UNCHANGED <<startVars, timerVars, closing, endVars>>

\* The empty datagram to the server; one that is repeated changes nothing.
endConnection == closing' = IF closing = "none" THEN "sent" ELSE closing

EndConnection ==
  /\ Goes("sender", "endConnection", "stopTimer")
  /\ endConnection
  /\ UNCHANGED <<startVars, finished, timerVars, endVars>>

StopTimer ==
  /\ Goes("sender", "stopTimer", "stopReceiver")
  /\ timeout' = IF timeout = "null" THEN "null" ELSE "stopped"
  /\ UNCHANGED <<startVars, finished, owner, closing, endVars>>

\* Mutant: stop() ends a receive_from in progress.
StopReceiverInterrupts ==
  /\ pc["sender"] = "stopReceiver"
  /\ pc' = [pc EXCEPT !["sender"] = "done", !["receiver"] = "done"]
  /\ UNCHANGED <<startVars, finished, timerVars, closing, endVars>>

\* Client::stopReceiver calls stop() on the receiver, which does not interrupt a
\* receive_from in progress.
StopReceiver ==
  /\ Goes("sender", "stopReceiver", "done")
  /\ misuse' = IF ReceiverDestroyed THEN "stopReceiver" ELSE misuse
  /\ UNCHANGED <<startVars, finished, timerVars, closing, exit>>

SenderEnds == EndConnection \/ StopTimer \/ StopReceiver

-----------------------------------------------------------------------------
(* The receiver thread.                                                    *)

\* An ACK calls ClientSender::ackedPacket; ACKs can be late or repeated.
ReceiveAck == pc["sender"] # "none" /\ JustGoes("receiver", "receive", "ackedPacket")

\* ackedPacket answers with another closing datagram if the transfer is
\* finished, and stops or restarts the timer otherwise.
AckedPacket ==
  /\ Goes("receiver", "ackedPacket", "receive")
  /\ misuse' = IF SocketClosed THEN "ackedPacket" ELSE misuse
  /\ IF finished THEN endConnection /\ UNCHANGED timerVars
     ELSE /\ \/ startTimeoutTimer
             \/ timeout # "null" /\ timeout' = "stopped" /\ UNCHANGED owner
          /\ UNCHANGED closing
  /\ UNCHANGED <<startVars, finished, exit>>

\* Mutant: the loop goes on.
AfterEmptyStays == "receive"

\* An empty datagram ends the loop and the thread.
AfterEmpty == "done"
ReceiveEmpty ==
  /\ Goes("receiver", "receive", AfterEmpty)
  /\ closing = "answered" /\ closing' = "received"
  /\ UNCHANGED <<startVars, finished, timerVars, endVars>>

Receiver == ReceiveAck \/ AckedPacket \/ ReceiveEmpty

-----------------------------------------------------------------------------
(* The timer threads.                                                      *)

TimerExpires(h) ==
  /\ Goes(h, "none", "entry")
  /\ timeout = "armed" /\ timeout' = "stopped"
  /\ owner' = [owner EXCEPT ![h] = "timeoutTimer"]
  /\ UNCHANGED <<startVars, finished, closing, endVars>>

HandlerEntry(h) == JustGoes(h, "entry", IF finished THEN "none" ELSE "lock")

\* The window to resend is read under packet_send_mutex. It may be empty, and it may
\* not, also after the end: a late ACK moves base_idx back.
HandlerLock(h) ==
  \/ JustGoes(h, "lock", "resend")
  \/ JustGoes(h, "lock", "restart")

\* send_to throws if the socket is closed, and nothing catches it.
HandlerResend(h) ==
  /\ Goes(h, "resend", "restart")
  /\ exit' = IF SocketClosed THEN "terminated" ELSE exit
  /\ UNCHANGED <<startVars, finished, timerVars, closing, misuse>>

\* startTimeoutTimer pushes timeoutTimer to olderTimers, which are destroyed
\* after the socket is closed.
HandlerRestart(h) ==
  /\ Goes(h, "restart", "none")
  /\ IF SocketClosed THEN misuse' = "olderTimers" /\ UNCHANGED timerVars
     ELSE startTimeoutTimer /\ UNCHANGED misuse
  /\ UNCHANGED <<startVars, finished, closing, exit>>

TimerThread(h) ==
  \/ TimerExpires(h) \/ HandlerEntry(h) \/ HandlerLock(h)
  \/ HandlerResend(h) \/ HandlerRestart(h)

-----------------------------------------------------------------------------

\* A server may answer the closing datagram with an empty one.
ServerAnswers ==
  /\ closing = "sent" /\ closing' = "answered"
  /\ UNCHANGED <<startVars, pc, finished, timerVars, endVars>>

\* Ctrl-C, as the README advises once the file has been sent.
Interrupt ==
  /\ exit' = "interrupted"
  /\ UNCHANGED <<startVars, pc, finished, timerVars, closing, misuse>>

Next ==
  /\ Alive
  /\ \/ Main \/ StartTimer \/ FinishSending \/ SenderEnds \/ Receiver
     \/ \E h \in Handlers : TimerThread(h)
     \/ ServerAnswers \/ Interrupt

Spec == Init /\ [][Next]_vars

\* The operating system runs every thread, the receiver reads what has arrived
\* even if ACKs keep coming, and an armed timer expires.  Nothing is assumed of
\* the transfer, the server or the user.
FairSpec ==
  /\ Spec
  /\ WF_vars(Alive /\ Main)
  /\ WF_vars(Alive /\ SenderEnds)
  /\ WF_vars(Alive /\ AckedPacket)
  /\ SF_vars(Alive /\ ReceiveEmpty)
  /\ \A h \in Handlers : WF_vars(Alive /\ TimerThread(h))

-----------------------------------------------------------------------------

\* Destruction races with the threads in two places only, and only once the
\* server's answer has let the receiver thread go: the sender thread may call
\* stop() on a receiver that is gone, and a timeoutHandler that passed its test of
\* finished_sending_data may reach olderTimers, or send on the closed socket.
\* ackedPacket, above all, never runs on a sender that is being destroyed.
OnlyKnownMisuse ==
  /\ misuse \in {"none", "stopReceiver", "olderTimers"}
  /\ misuse # "none" \/ (exit = "terminated" /\ pc["sender"] # "none") =>
       finished /\ closing = "received"

\* When the sender's mutexes and buffers go, no thread is left that could use
\* them, timer threads included.
NoThreadAtExit ==
  pc["main"] = "freeSender" =>
    /\ pc["sender"] = "done" /\ pc["receiver"] = "done"
    /\ timeout # "armed"
    /\ \A h \in Handlers : pc[h] = "none"

\* The client cannot end on its own without the server's empty datagram: the
\* README's Ctrl-C is needed, because stopReceiver does not stop the receiver.
ExitNeedsAnswer == exit = "status0" => closing = "received"

\* With it, the process comes to an end: no thread waits for ever in the chain of
\* joins, whatever timers are left.
AnswerEndsProcess == closing = "answered" ~> ~Alive
=============================================================================
