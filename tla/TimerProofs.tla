---------------------------- MODULE TimerProofs -----------------------------
(***************************************************************************)
(* Theorems about the Timer objects, for every number of timers.           *)
(***************************************************************************)
EXTENDS Timer, TLAPS

\* startTimeoutTimer is under way.
Starting == opc \in {"startCheck", "startSet", "push", "create"}

\* A Timer that does not exist yet has no thread and no flag set.
Fresh ==
  \A t \in TimerIds : t > created => tpc[t] = "none" /\ ~stopped[t] /\ ~finished[t]

\* What the holder of timer_mutex relies on at each of its steps: the current
\* Timer exists, and is stopped before it is pushed to olderTimers.
Holder ==
  /\ timeoutTimer <= created
  /\ Starting => created < MaxTimers
  /\ opc \in {"startCheck", "startSet", "stopCheck", "stopSet"} =>
       timeoutTimer # NoTimer
  /\ opc = "push" => timeoutTimer = NoTimer \/ stopped[timeoutTimer]
  /\ opc = "create" => timeoutTimer = NoTimer
  /\ caller # NoTimer => Starting /\ tpc[caller] = "handler"

\* Only a stopped Timer is finished.
FinishedIsStopped == \A t \in TimerIds : finished[t] => stopped[t]

\* A thread that is past its wait has stopped its Timer.
PastWait == \A t \in TimerIds : tpc[t] \in {"handler", "returned"} => stopped[t]

TimerInv ==
  /\ TypeOK /\ Fresh /\ Holder /\ FinishedIsStopped /\ PastWait
  /\ OnlyCurrentIsLive /\ JoinCannotBlock

\* The invariant holds before the first startTimeoutTimer.
LEMMA TimerInit == Init => TimerInv
  BY TimerAssumption
  DEF Init, TimerInv, TypeOK, Fresh, Holder, Starting, FinishedIsStopped, PastWait,
      OnlyCurrentIsLive, JoinCannotBlock, TimerIds, NoTimer

\* The steps of the timer threads preserve the invariant.
LEMMA ThreadStep ==
  ASSUME TimerInv, NEW t \in TimerIds, TimerThread(t)
  PROVE  TimerInv'
  <1> USE TimerAssumption
      DEF TimerInv, TypeOK, Fresh, Holder, Starting, FinishedIsStopped, PastWait,
          OnlyCurrentIsLive, JoinCannotBlock, TimerIds, NoTimer
  <1>1. CASE Expire(t)
    BY <1>1 DEF Expire
  <1>2. CASE EndStopped(t)
    BY <1>2 DEF EndStopped
  <1>3. CASE HandlerGivesUp(t)
    BY <1>3 DEF HandlerGivesUp
  <1>4. CASE EndFired(t)
    BY <1>4 DEF EndFired
  <1> QED BY <1>1, <1>2, <1>3, <1>4 DEF TimerThread

\* The steps of startTimeoutTimer preserve the invariant.
LEMMA StartStep ==
  ASSUME TimerInv, StartTimeoutTimer
  PROVE  TimerInv'
  <1> USE TimerAssumption
      DEF TimerInv, TypeOK, Fresh, Holder, Starting, FinishedIsStopped, PastWait,
          OnlyCurrentIsLive, JoinCannotBlock, TimerIds, NoTimer, timerVars
  <1>1. CASE \E c \in TimerIds \cup {NoTimer} : StartBegin(c)
    BY <1>1 DEF StartBegin
  <1>2. CASE StopCheck("startCheck", "startSet", "push")
    BY <1>2 DEF StopCheck
  <1>3. CASE StopSet("startSet", "push")
    BY <1>3 DEF StopSet
  <1>4. CASE StartPush
    BY <1>4 DEF StartPush
  <1>5. CASE StartCreate
    BY <1>5 DEF StartCreate
  <1> QED BY <1>1, <1>2, <1>3, <1>4, <1>5 DEF StartTimeoutTimer

\* The steps of stop and of cleanTimers preserve the invariant.
LEMMA StopAndCleanStep ==
  ASSUME TimerInv, StopTimeoutTimer \/ CleanTimers
  PROVE  TimerInv'
  <1> USE TimerAssumption
      DEF TimerInv, TypeOK, Fresh, Holder, Starting, FinishedIsStopped, PastWait,
          OnlyCurrentIsLive, JoinCannotBlock, TimerIds, NoTimer, timerVars
  <1>1. CASE StopBegin
    BY <1>1 DEF StopBegin
  <1>2. CASE StopCheck("stopCheck", "stopSet", "free")
    BY <1>2 DEF StopCheck
  <1>3. CASE StopSet("stopSet", "free")
    BY <1>3 DEF StopSet
  <1>4. CASE CleanBegin
    BY <1>4 DEF CleanBegin
  <1>5. CASE CleanPop
    BY <1>5 DEF CleanPop, Cleanable
  <1>6. CASE CleanEnd
    BY <1>6 DEF CleanEnd
  <1> QED BY <1>1, <1>2, <1>3, <1>4, <1>5, <1>6 DEF StopTimeoutTimer, CleanTimers

\* Every step preserves the invariant.
LEMMA TimerStep == TimerInv /\ [Next]_vars => TimerInv'
  <1> SUFFICES ASSUME TimerInv, [Next]_vars PROVE TimerInv'
    OBVIOUS
  <1>1. CASE Next
    BY <1>1, ThreadStep, StartStep, StopAndCleanStep DEF Next
  <1>2. CASE UNCHANGED vars
    BY <1>2 DEF vars, timerVars, TimerInv, TypeOK, Fresh, Holder, Starting,
       FinishedIsStopped, PastWait, OnlyCurrentIsLive, JoinCannotBlock
  <1> QED BY <1>1, <1>2

\* The invariant holds in every reachable state.
LEMMA TimerInvariant == Spec => []TimerInv
  BY TimerInit, TimerStep, PTL DEF Spec

\* However startTimeoutTimer, stop and the expiry of a timer interleave, no
\* Timer but the current one can still call timeoutHandler.
THEOREM OneLiveTimer == Spec => []OnlyCurrentIsLive
  <1>1. TimerInv => OnlyCurrentIsLive
    BY DEF TimerInv
  <1> QED BY <1>1, TimerInvariant, PTL

\* cleanTimers never waits, with timer_mutex held, for a thread that is still in
\* timeoutHandler: a Timer that reports is_finished has a thread that is done.
THEOREM CleanTimersDoesNotBlock == Spec => []JoinCannotBlock
  <1>1. TimerInv => JoinCannotBlock
    BY DEF TimerInv
  <1> QED BY <1>1, TimerInvariant, PTL

\* The Timer objects, their threads and olderTimers implement the one timeout
\* of TimeoutTimer.
THEOREM TimerImplementsTimeout == Spec => ImplementsTimeout
  <1> DEFINE handlers == {t \in TimerIds : tpc[t] = "handler"}
  <1> DEFINE timeout ==
        IF created = 0 THEN "null"
        ELSE IF timeoutTimer # NoTimer /\ ~stopped[timeoutTimer] THEN "armed"
        ELSE "stopped"
  <1>1. Init => Timeout!Init
    BY DEF Init, Timeout!Init
  <1>2. TimerInv /\ [Next]_vars => [Timeout!Next]_(Timeout!timeoutVars)
    <2> SUFFICES ASSUME TimerInv, [Next]_vars
                 PROVE  Timeout!Next \/ UNCHANGED <<timeout, handlers>>
      BY DEF Timeout!timeoutVars
    <2> USE TimerAssumption
        DEF TimerInv, TypeOK, Fresh, Holder, Starting, FinishedIsStopped,
            OnlyCurrentIsLive, TimerIds, NoTimer, timerVars, Timeout!Next
    <2>1. ASSUME NEW t \in TimerIds, Expire(t)
          PROVE  Timeout!Expire
      <3>1. t = timeoutTimer /\ created # 0
        BY <2>1 DEF Expire
      <3>2. timeout = "armed" /\ timeout' = "stopped"
        BY <2>1, <3>1 DEF Expire
      <3>3. t \in TimerIds \ handlers /\ handlers' = handlers \cup {t}
        BY <2>1 DEF Expire
      <3> QED BY <3>2, <3>3 DEF Timeout!Expire
    <2>2. ASSUME NEW t \in TimerIds, EndStopped(t) \/ EndFired(t)
          PROVE  UNCHANGED <<timeout, handlers>>
      BY <2>2 DEF EndStopped, EndFired
    <2>3. ASSUME NEW t \in TimerIds, HandlerGivesUp(t)
          PROVE  Timeout!Return
      <3>1. t \in handlers /\ handlers' = handlers \ {t}
        BY <2>3 DEF HandlerGivesUp
      <3>2. UNCHANGED timeout
        BY <2>3 DEF HandlerGivesUp
      <3> QED BY <3>1, <3>2 DEF Timeout!Return
    <2>4. ASSUME NEW c \in TimerIds \cup {NoTimer}, StartBegin(c)
          PROVE  UNCHANGED <<timeout, handlers>>
      BY <2>4 DEF StartBegin
    <2>5. ASSUME NEW from, NEW set, NEW after, StopCheck(from, set, after)
          PROVE  UNCHANGED <<timeout, handlers>>
      BY <2>5 DEF StopCheck
    <2>6. ASSUME StopSet("startSet", "push") \/ StopSet("stopSet", "free")
          PROVE  Timeout!Stop
      <3>1. timeoutTimer # NoTimer /\ created # 0
        BY <2>6 DEF StopSet
      <3>2. timeout # "null" /\ timeout' = "stopped"
        BY <2>6, <3>1 DEF StopSet
      <3>3. UNCHANGED handlers
        BY <2>6 DEF StopSet
      <3> QED BY <3>2, <3>3 DEF Timeout!Stop
    <2>7. ASSUME StartPush
          PROVE  UNCHANGED <<timeout, handlers>>
      BY <2>7 DEF StartPush
    <2>8. ASSUME StartCreate
          PROVE  Timeout!Start \/ Timeout!RestartAndReturn
      <3>1. timeout' = "armed"
        BY <2>8 DEF StartCreate
      <3>2. CASE caller = NoTimer
        <4>1. UNCHANGED handlers
          BY <2>8, <3>2 DEF StartCreate
        <4> QED BY <3>1, <4>1 DEF Timeout!Start
      <3>3. CASE caller # NoTimer
        <4>1. caller \in handlers /\ handlers' = handlers \ {caller}
          BY <2>8, <3>3 DEF StartCreate
        <4> QED BY <3>1, <4>1 DEF Timeout!RestartAndReturn
      <3> QED BY <3>2, <3>3
    <2>9. ASSUME StopBegin \/ CleanTimers \/ UNCHANGED vars
          PROVE  UNCHANGED <<timeout, handlers>>
      BY <2>9 DEF StopBegin, CleanTimers, CleanBegin, CleanPop, CleanEnd, vars
    <2> QED
      BY <2>1, <2>2, <2>3, <2>4, <2>5, <2>6, <2>7, <2>8, <2>9
      DEF Next, TimerThread, StartTimeoutTimer, StopTimeoutTimer
  <1> QED
    BY <1>1, <1>2, TimerInvariant, PTL DEF Spec, ImplementsTimeout, Timeout!Spec

-----------------------------------------------------------------------------
(* Who owns the Timer objects.                                             *)

\* What has been replaced was created: no Timer is in olderTimers before its time.
OlderExist == \A i \in 1..Len(olderTimers) : olderTimers[i] <= created

OwnInv == TimerInv /\ OlderExist /\ OwnedOnce /\ LiveIsOwned

\* push_back: olderTimers keeps its elements, and the last one is new.
LEMMA Pushed ==
  ASSUME NEW S, NEW seq \in Seq(S), NEW e \in S
  PROVE  /\ Append(seq, e) \in Seq(S)
         /\ Len(Append(seq, e)) = Len(seq) + 1
         /\ \A i \in 1..Len(seq) : Append(seq, e)[i] = seq[i]
         /\ Append(seq, e)[Len(seq) + 1] = e
  OBVIOUS

\* pop_front: what was behind the first element moves up by one.
LEMMA Popped ==
  ASSUME NEW S, NEW seq \in Seq(S), seq # <<>>
  PROVE  /\ Head(seq) = seq[1] /\ 1 <= Len(seq)
         /\ Tail(seq) \in Seq(S)
         /\ Len(Tail(seq)) = Len(seq) - 1
         /\ \A i \in 1..Len(Tail(seq)) : Tail(seq)[i] = seq[i + 1]
  OBVIOUS

\* A step that leaves both owners alone, creates nothing and brings no thread
\* back to life leaves the ownership as it is.
LEMMA OwnFrame ==
  ASSUME OwnInv, UNCHANGED <<created, timeoutTimer, olderTimers>>,
         \A t \in 1..created : tpc[t] = "ended" => tpc'[t] = "ended"
  PROVE  OlderExist' /\ OwnedOnce' /\ LiveIsOwned'
  BY DEF OwnInv, OlderExist, OwnedOnce, LiveIsOwned

\* The current Timer moves to the end of olderTimers, where it is not yet.
LEMMA OwnPush ==
  ASSUME OwnInv, StartPush
  PROVE  OlderExist' /\ OwnedOnce' /\ LiveIsOwned'
  <1> DEFINE n == Len(olderTimers)
  <1>1. /\ olderTimers \in Seq(TimerIds \cup {NoTimer})
        /\ timeoutTimer \in TimerIds \cup {NoTimer}
        /\ timeoutTimer <= created /\ n \in Nat
    BY DEF OwnInv, TimerInv, TypeOK, Holder
  <1>2. /\ Len(olderTimers') = n + 1
        /\ \A i \in 1..n : olderTimers'[i] = olderTimers[i]
        /\ olderTimers'[n + 1] = timeoutTimer
    BY <1>1, Pushed DEF StartPush
  <1>3. timeoutTimer' = NoTimer /\ UNCHANGED <<created, tpc>>
    BY DEF StartPush, timerVars
  <1>4. OlderExist'
    BY <1>1, <1>2, <1>3 DEF OwnInv, OlderExist
  <1>5. OwnedOnce'
    BY <1>1, <1>2, <1>3 DEF OwnInv, OwnedOnce
  <1>6. LiveIsOwned'
    BY <1>1, <1>2, <1>3 DEF OwnInv, LiveIsOwned
  <1> QED BY <1>4, <1>5, <1>6

\* The new Timer has a number that olderTimers does not hold.
LEMMA OwnCreate ==
  ASSUME OwnInv, StartCreate
  PROVE  OlderExist' /\ OwnedOnce' /\ LiveIsOwned'
  <1>1. /\ olderTimers \in Seq(TimerIds \cup {NoTimer})
        /\ created \in Nat /\ created + 1 \in TimerIds
        /\ timeoutTimer = NoTimer
        /\ caller \in TimerIds \cup {NoTimer}
        /\ caller # NoTimer => tpc[caller] = "handler"
    BY TimerAssumption
    DEF OwnInv, TimerInv, TypeOK, Holder, StartCreate, Starting, TimerIds
  <1>2. /\ created' = created + 1 /\ timeoutTimer' = created + 1
        /\ UNCHANGED olderTimers
    BY DEF StartCreate
  <1>3. \A i \in 1..Len(olderTimers) :
          olderTimers[i] \in TimerIds \cup {NoTimer} /\ olderTimers[i] <= created
    BY <1>1 DEF OwnInv, OlderExist
  <1>4. OlderExist'
    BY <1>1, <1>2, <1>3 DEF OlderExist, TimerIds, NoTimer
  <1>5. OwnedOnce'
    BY <1>1, <1>2, <1>3 DEF OwnInv, OwnedOnce, TimerIds, NoTimer
  <1>6. \A t \in 1..created : tpc[t] = "ended" => tpc'[t] = "ended"
    <2> TAKE t \in 1..created
    <2>1. t \in TimerIds /\ t # created + 1 /\ t # NoTimer
      BY <1>1, TimerAssumption DEF TimerIds, NoTimer
    <2> QED BY <1>1, <2>1 DEF StartCreate
  <1>7. LiveIsOwned'
    BY <1>1, <1>2, <1>6 DEF OwnInv, LiveIsOwned, NoTimer
  <1> QED BY <1>4, <1>5, <1>7

\* The Timer that cleanTimers destroys has no thread left.
LEMMA OwnPop ==
  ASSUME OwnInv, CleanPop
  PROVE  OlderExist' /\ OwnedOnce' /\ LiveIsOwned'
  <1> DEFINE n == Len(olderTimers)
  <1>1. /\ olderTimers \in Seq(TimerIds \cup {NoTimer}) /\ n \in Nat
        /\ olderTimers # <<>>
    BY DEF OwnInv, TimerInv, TypeOK, CleanPop, Cleanable
  <1>2. /\ 1 <= n /\ Head(olderTimers) = olderTimers[1]
        /\ Len(olderTimers') = n - 1
        /\ \A i \in 1..(n - 1) : olderTimers'[i] = olderTimers[i + 1]
    BY <1>1, Popped DEF CleanPop
  <1>3. UNCHANGED <<created, timeoutTimer, tpc>>
    BY DEF CleanPop, timerVars
  <1>4. OlderExist'
    BY <1>1, <1>2, <1>3 DEF OwnInv, OlderExist
  <1>5. OwnedOnce'
    BY <1>1, <1>2, <1>3 DEF OwnInv, OwnedOnce
  <1>6. ASSUME NEW t \in 1..created, tpc[t] # "ended", t # timeoutTimer
        PROVE  \E i \in 1..(n - 1) : olderTimers'[i] = t
    <2>1. PICK i \in 1..n : olderTimers[i] = t
      BY <1>6 DEF OwnInv, LiveIsOwned
    <2>2. i # 1
      BY <1>2, <1>6, <2>1 DEF CleanPop, NoTimer
    <2>3. i - 1 \in 1..(n - 1) /\ olderTimers'[i - 1] = t
      BY <1>1, <1>2, <2>1, <2>2
    <2> QED BY <2>3
  <1>7. LiveIsOwned'
    BY <1>2, <1>3, <1>6 DEF LiveIsOwned
  <1> QED BY <1>4, <1>5, <1>7

\* Every step preserves the ownership.
LEMMA OwnStep == OwnInv /\ [Next]_vars => OwnInv'
  <1> SUFFICES ASSUME OwnInv, [Next]_vars PROVE OwnInv'
    OBVIOUS
  <1>1. TimerInv'
    BY TimerStep DEF OwnInv
  <1>2. ASSUME NEW t \in TimerIds, TimerThread(t)
        PROVE  OlderExist' /\ OwnedOnce' /\ LiveIsOwned'
    <2>1. UNCHANGED <<created, timeoutTimer, olderTimers>>
      BY <1>2 DEF TimerThread, Expire, EndStopped, HandlerGivesUp, EndFired
    <2>2. tpc \in [TimerIds -> {"none", "waiting", "handler", "returned", "ended"}]
      BY DEF OwnInv, TimerInv, TypeOK
    <2>3. \A u \in TimerIds : tpc[u] = "ended" => tpc'[u] = "ended"
      BY <1>2, <2>2 DEF TimerThread, Expire, EndStopped, HandlerGivesUp, EndFired
    <2>4. 1..created \subseteq TimerIds
      BY TimerAssumption DEF OwnInv, TimerInv, TypeOK, TimerIds
    <2> QED BY <2>1, <2>3, <2>4, OwnFrame
  <1>3. ASSUME \/ \E c \in TimerIds \cup {NoTimer} : StartBegin(c)
               \/ StopTimeoutTimer \/ CleanBegin \/ CleanEnd
               \/ StopCheck("startCheck", "startSet", "push")
               \/ StopSet("startSet", "push")
               \/ UNCHANGED vars
        PROVE  OlderExist' /\ OwnedOnce' /\ LiveIsOwned'
    <2>1. UNCHANGED <<created, timeoutTimer, olderTimers, tpc>>
      BY <1>3
      DEF StartBegin, StopTimeoutTimer, StopBegin, StopCheck, StopSet, CleanBegin,
          CleanEnd, vars, timerVars
    <2> QED BY <2>1, OwnFrame
  <1>4. OlderExist' /\ OwnedOnce' /\ LiveIsOwned'
    BY <1>2, <1>3, OwnPush, OwnCreate, OwnPop
    DEF Next, StartTimeoutTimer, CleanTimers
  <1> QED BY <1>1, <1>4 DEF OwnInv

\* The ownership holds in every reachable state.
LEMMA OwnInvariant == Spec => []OwnInv
  <1>1. Init => OwnInv
    <2> SUFFICES ASSUME Init PROVE OwnInv
      OBVIOUS
    <2>1. TimerInv
      BY TimerInit
    <2>2. Len(olderTimers) = 0 /\ created = 0
      BY DEF Init
    <2> QED BY <2>1, <2>2 DEF OwnInv, OlderExist, OwnedOnce, LiveIsOwned
  <1> QED BY <1>1, OwnStep, PTL DEF Spec

\* No Timer has two owners, however often and by whomever startTimeoutTimer and
\* cleanTimers are called: none is destroyed twice.
THEOREM NoTimerOwnedTwice == Spec => []OwnedOnce
  <1>1. OwnInv => OwnedOnce
    BY DEF OwnInv
  <1> QED BY <1>1, OwnInvariant, PTL

\* No thread outlives its Timer object: cleanTimers destroys a Timer only when the
\* thread has ended, and startTimeoutTimer loses none.
THEOREM NoThreadWithoutTimer == Spec => []LiveIsOwned
  <1>1. OwnInv => LiveIsOwned
    BY DEF OwnInv
  <1> QED BY <1>1, OwnInvariant, PTL
=============================================================================
