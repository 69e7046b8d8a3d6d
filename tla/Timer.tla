------------------------------- MODULE Timer --------------------------------
(***************************************************************************)
(* The Timer class and ClientSender's use of it.                           *)
(*                                                                         *)
(* Every startTimeoutTimer creates a Timer object with a thread of its     *)
(* own.  The thread waits for the timeout or for stop(), calls             *)
(* timeoutHandler if the timeout came first, and ends.  The current Timer  *)
(* is timeoutTimer; the ones it replaced wait in olderTimers until         *)
(* cleanTimers destroys them, joining their threads.                       *)
(*                                                                         *)
(* timer_mutex serialises startTimeoutTimer, cleanTimers and stop; the     *)
(* timer threads interleave with each of their steps.                      *)
(***************************************************************************)
EXTENDS Integers, Sequences

CONSTANT MaxTimers  \* bound: Timer objects created in a behaviour

ASSUME TimerAssumption == MaxTimers \in Nat \ {0}

TimerIds == 1..MaxTimers
NoTimer == 0

VARIABLES
  created,       \* Timer objects created so far
  stopped,       \* Timer::stopped
  finished,      \* Timer::finished
  tpc,           \* where each timer thread is
  timeoutTimer,  \* the current Timer, or NoTimer
  olderTimers,   \* the replaced ones, null pointers included
  opc,           \* where the holder of timer_mutex is; "free" when nobody is
  caller         \* the timer thread that holds it, NoTimer for another thread

timerVars == <<created, stopped, finished, tpc>>
vars == <<timerVars, timeoutTimer, olderTimers, opc, caller>>

Init ==
  /\ created = 0
  /\ stopped = [t \in TimerIds |-> FALSE]
  /\ finished = [t \in TimerIds |-> FALSE]
  /\ tpc = [t \in TimerIds |-> "none"]
  /\ timeoutTimer = NoTimer
  /\ olderTimers = <<>>
  /\ opc = "free"
  /\ caller = NoTimer

-----------------------------------------------------------------------------
(* The thread of Timer t.                                                  *)

\* Mutant: finished is set before the handler is called.
ExpireFinishes(t) ==
  /\ tpc[t] = "waiting"
  /\ ~stopped[t]
  /\ stopped' = [stopped EXCEPT ![t] = TRUE]
  /\ finished' = [finished EXCEPT ![t] = TRUE]
  /\ tpc' = [tpc EXCEPT ![t] = "handler"]
  /\ UNCHANGED <<created, timeoutTimer, olderTimers, opc, caller>>

\* wait_for returns on timeout: claim the timer and go on to call the handler.
Expire(t) ==
  /\ tpc[t] = "waiting"
  /\ ~stopped[t]
  /\ stopped' = [stopped EXCEPT ![t] = TRUE]
  /\ tpc' = [tpc EXCEPT ![t] = "handler"]
  /\ UNCHANGED <<created, finished, timeoutTimer, olderTimers, opc, caller>>

\* wait_for returns because of stop(): the thread ends.
EndStopped(t) ==
  /\ tpc[t] = "waiting"
  /\ stopped[t]
  /\ finished' = [finished EXCEPT ![t] = TRUE]
  /\ tpc' = [tpc EXCEPT ![t] = "ended"]
  /\ UNCHANGED <<created, stopped, timeoutTimer, olderTimers, opc, caller>>

\* timeoutHandler returns early, the transfer being finished.
HandlerGivesUp(t) ==
  /\ tpc[t] = "handler"
  /\ caller # t
  /\ tpc' = [tpc EXCEPT ![t] = "returned"]
  /\ UNCHANGED <<created, stopped, finished, timeoutTimer, olderTimers, opc, caller>>

\* f() has returned: set finished, without the Timer's mutex, and end.
EndFired(t) ==
  /\ tpc[t] = "returned"
  /\ finished' = [finished EXCEPT ![t] = TRUE]
  /\ tpc' = [tpc EXCEPT ![t] = "ended"]
  /\ UNCHANGED <<created, stopped, timeoutTimer, olderTimers, opc, caller>>

TimerThread(t) ==
  Expire(t) \/ EndStopped(t) \/ HandlerGivesUp(t) \/ EndFired(t)

-----------------------------------------------------------------------------
(* Operations under timer_mutex.                                           *)

\* Mutant: the current Timer is replaced without being stopped.
StartBeginNoStop(c) ==
  /\ opc = "free"
  /\ created < MaxTimers
  /\ c # NoTimer => tpc[c] = "handler"
  /\ opc' = "push"
  /\ caller' = c
  /\ UNCHANGED <<timerVars, timeoutTimer, olderTimers>>

\* startTimeoutTimer, called by the sender or receiver thread (c = NoTimer) or
\* at the end of timeoutHandler by timer thread c.
StartBegin(c) ==
  /\ opc = "free"
  /\ created < MaxTimers
  /\ c # NoTimer => tpc[c] = "handler"
  /\ opc' = IF timeoutTimer = NoTimer THEN "push" ELSE "startCheck"
  /\ caller' = c
  /\ UNCHANGED <<timerVars, timeoutTimer, olderTimers>>

\* Timer::stop returns early for a timer that is stopped (or finished, which
\* implies it).  The test and the assignment are two critical sections of the
\* Timer's mutex.
StopCheck(from, set, after) ==
  /\ opc = from
  /\ opc' = IF stopped[timeoutTimer] \/ finished[timeoutTimer] THEN after ELSE set
  /\ UNCHANGED <<timerVars, timeoutTimer, olderTimers, caller>>

StopSet(set, after) ==
  /\ opc = set
  /\ stopped' = [stopped EXCEPT ![timeoutTimer] = TRUE]
  /\ opc' = after
  /\ UNCHANGED <<created, finished, tpc, timeoutTimer, olderTimers, caller>>

\* Mutants: the pointer is pushed without being moved from; it is dropped.
StartPushCopies ==
  /\ opc = "push"
  /\ olderTimers' = Append(olderTimers, timeoutTimer)
  /\ opc' = "create"
  /\ UNCHANGED <<timerVars, timeoutTimer, caller>>
StartPushDrops ==
  /\ opc = "push"
  /\ timeoutTimer' = NoTimer
  /\ opc' = "create"
  /\ UNCHANGED <<timerVars, olderTimers, caller>>

\* olderTimers.push_back(std::move(timeoutTimer)).
StartPush ==
  /\ opc = "push"
  /\ olderTimers' = Append(olderTimers, timeoutTimer)
  /\ timeoutTimer' = NoTimer
  /\ opc' = "create"
  /\ UNCHANGED <<timerVars, caller>>

\* The new Timer starts its thread; timer_mutex is released, and a
\* timeoutHandler that made the call returns.
StartCreate ==
  /\ opc = "create"
  /\ created' = created + 1
  /\ timeoutTimer' = created + 1
  /\ tpc' = [t \in TimerIds |->
               IF t = created + 1 THEN "waiting"
               ELSE IF t = caller THEN "returned" ELSE tpc[t]]
  /\ opc' = "free"
  /\ caller' = NoTimer
  /\ UNCHANGED <<stopped, finished, olderTimers>>

\* The stop of ackedPacket and of the end of threadFun.
StopBegin ==
  /\ opc = "free"
  /\ timeoutTimer # NoTimer
  /\ opc' = "stopCheck"
  /\ UNCHANGED <<timerVars, timeoutTimer, olderTimers, caller>>

\* cleanTimers, called by the sender and the receiver thread.
CleanBegin ==
  /\ opc = "free"
  /\ opc' = "clean"
  /\ UNCHANGED <<timerVars, timeoutTimer, olderTimers, caller>>

\* Mutant: an empty pointer at the front is not removed.
CleanableNotNull ==
  /\ olderTimers # <<>>
  /\ Head(olderTimers) # NoTimer
  /\ finished[Head(olderTimers)]

\* The loop condition of cleanTimers.
Cleanable ==
  /\ olderTimers # <<>>
  /\ Head(olderTimers) # NoTimer => finished[Head(olderTimers)]

\* pop_front destroys the Timer, which joins its thread: with timer_mutex held,
\* this waits until the thread has ended.
CleanPop ==
  /\ opc = "clean"
  /\ Cleanable
  /\ Head(olderTimers) # NoTimer => tpc[Head(olderTimers)] = "ended"
  /\ olderTimers' = Tail(olderTimers)
  /\ UNCHANGED <<timerVars, timeoutTimer, opc, caller>>

CleanEnd ==
  /\ opc = "clean"
  /\ ~Cleanable
  /\ opc' = "free"
  /\ UNCHANGED <<timerVars, timeoutTimer, olderTimers, caller>>

StartTimeoutTimer ==
  \/ \E c \in TimerIds \cup {NoTimer} : StartBegin(c)
  \/ StopCheck("startCheck", "startSet", "push")
  \/ StopSet("startSet", "push")
  \/ StartPush
  \/ StartCreate

StopTimeoutTimer ==
  \/ StopBegin
  \/ StopCheck("stopCheck", "stopSet", "free")
  \/ StopSet("stopSet", "free")

CleanTimers == CleanBegin \/ CleanPop \/ CleanEnd

Next ==
  \/ \E t \in TimerIds : TimerThread(t)
  \/ StartTimeoutTimer
  \/ StopTimeoutTimer
  \/ CleanTimers

Spec == Init /\ [][Next]_vars

\* The holder of timer_mutex goes on, timer threads run and timeoutHandler
\* returns, with or without a new Timer; ACKs keep arriving, so that cleanTimers
\* is called again and again.
HolderMoves ==
  \/ StopCheck("startCheck", "startSet", "push") \/ StopSet("startSet", "push")
  \/ StartPush \/ StartCreate
  \/ StopCheck("stopCheck", "stopSet", "free") \/ StopSet("stopSet", "free")
  \/ CleanPop \/ CleanEnd

FairSpec ==
  /\ Spec
  /\ WF_vars(HolderMoves)
  /\ \A t \in TimerIds : WF_vars(TimerThread(t) \/ StartBegin(t))
  /\ SF_vars(CleanBegin)

-----------------------------------------------------------------------------

\* The fields of the Timer objects and of their owner have their types.
TypeOK ==
  /\ created \in 0..MaxTimers
  /\ stopped \in [TimerIds -> BOOLEAN]
  /\ finished \in [TimerIds -> BOOLEAN]
  /\ tpc \in [TimerIds -> {"none", "waiting", "handler", "returned", "ended"}]
  /\ timeoutTimer \in TimerIds \cup {NoTimer}
  /\ olderTimers \in Seq(TimerIds \cup {NoTimer})
  /\ opc \in {"free", "startCheck", "startSet", "push", "create", "stopCheck",
              "stopSet", "clean"}
  /\ caller \in TimerIds \cup {NoTimer}

\* At most one Timer can still expire, and it is the current one: whatever
\* startTimeoutTimer replaced has been stopped, although Timer::stop tests and
\* sets in two critical sections and a timer may expire between them.
OnlyCurrentIsLive ==
  \A t \in 1..created : ~stopped[t] => t = timeoutTimer

\* cleanTimers joins threads while it holds timer_mutex, and a thread in
\* timeoutHandler needs timer_mutex: a Timer that reports is_finished has a
\* thread that is past its handler, so the join cannot deadlock.
JoinCannotBlock ==
  \A t \in TimerIds : finished[t] => tpc[t] = "ended"

\* Every Timer that has not been destroyed is reachable, once: the current one
\* is not in olderTimers, and olderTimers holds no Timer twice (it would be
\* destroyed twice).
OwnedOnce ==
  /\ \A i \in 1..Len(olderTimers) :
       olderTimers[i] # NoTimer => olderTimers[i] # timeoutTimer
  /\ \A i, j \in 1..Len(olderTimers) :
       olderTimers[i] = olderTimers[j] /\ olderTimers[i] # NoTimer => i = j

\* A Timer whose thread has not ended is owned by timeoutTimer or olderTimers.
LiveIsOwned ==
  \A t \in 1..created :
    tpc[t] # "ended" =>
      t = timeoutTimer \/ \E i \in 1..Len(olderTimers) : olderTimers[i] = t

\* Timers are not kept for ever: as long as cleanTimers is called, every Timer
\* that was replaced, and every null pointer pushed in its place, leaves
\* olderTimers, although one whose handler is busy holds up all behind it.
OlderTimersDrain ==
  \A t \in TimerIds \cup {NoTimer} :
    (\E i \in 1..Len(olderTimers) : olderTimers[i] = t)
      ~> ~ \E i \in 1..Len(olderTimers) : olderTimers[i] = t

\* The objects, threads and the deque implement the one timeout the sender's
\* code reasons about.
Timeout == INSTANCE TimeoutTimer WITH
  HandlerIds <- TimerIds,
  timeout <- IF created = 0 THEN "null"
             ELSE IF timeoutTimer # NoTimer /\ ~stopped[timeoutTimer] THEN "armed"
             ELSE "stopped",
  handlers <- {t \in TimerIds : tpc[t] = "handler"}

ImplementsTimeout == Timeout!Spec
=============================================================================
