----------------------- MODULE RealtimeSimulatorImpl -----------------------
(***************************************************************************)
(* ns3::RealtimeSimulatorImpl (core/model/realtime-simulator-impl.cc) with *)
(* its WallClockSynchronizer (wall-clock-synchronizer.cc) and the          *)
(* condition it sleeps on (unix-system-condition.cc).  The main thread     *)
(* waits for the time of the next event; other threads, which read packets *)
(* from real devices, schedule events meanwhile and interrupt the wait.    *)
(* Sections under m_mutex are one step; what the main thread does between  *)
(* two of them interleaves with the threads and the clock.                 *)
(*                                                                         *)
(* The wall clock counts jiffies.  The scheduler is a set of events.       *)
(***************************************************************************)
EXTENDS Integers

CONSTANTS
  Delays,        \* the delays events are scheduled with
  SpinJiffies,   \* 3: how much of a wait is spent spinning
  IdleDelay,     \* tsDelay of Run, the wait with no event scheduled
  Second,        \* NS_PER_SEC
  Start,         \* the wall clock as the program starts
  MaxEvents, MaxTime, MaxRuns   \* bounds

ASSUME RealtimeAssumption ==
  /\ Delays \subseteq Nat
  /\ SpinJiffies \in Nat /\ IdleDelay \in Nat /\ Second \in Nat \ {0} /\ Start \in Nat
  /\ MaxEvents \in Nat /\ MaxTime \in Nat /\ MaxRuns \in Nat

VARIABLES
  wall,        \* the wall clock
  origin,      \* m_realtimeOriginNano
  events,      \* m_events
  uid,         \* m_uid
  currentTs,   \* m_currentTs
  stop,        \* m_stop
  running,     \* m_running
  condition,   \* m_condition of the synchronizer
  pc,          \* where the main thread is
  idle,        \* the wait is the one of Run, with no event scheduled
  tsNow, tsDelay,   \* the wait asked of Synchronize
  deadline,    \* seconds and nanoseconds at which TimedWait gives up
  runs         \* calls of Run so far

vars == <<wall, origin, events, uid, currentTs, stop, running, condition, pc,
          idle, tsNow, tsDelay, deadline, runs>>

wait == <<idle, tsNow, tsDelay>>
schedule == <<events, uid, condition>>

Realtime == wall - origin
Until == tsNow + tsDelay

Earliest(e) == \A f \in events : e.ts < f.ts \/ (e.ts = f.ts /\ e.uid <= f.uid)

Init ==
  /\ wall = Start /\ origin = 0
  /\ events = {} /\ uid = 4 /\ currentTs = 0
  /\ stop = FALSE /\ running = FALSE /\ condition = FALSE
  /\ pc = "outside" /\ idle = FALSE /\ tsNow = 0 /\ tsDelay = 0
  /\ deadline = <<0, 0>> /\ runs = 0

\* The wall clock; a program that has not called Run does not look at it.
Tick ==
  /\ pc # "outside" /\ Realtime < MaxTime
  /\ wall' = wall + 1
  /\ UNCHANGED <<origin, schedule, currentTs, stop, running, pc, wait, deadline, runs>>

-----------------------------------------------------------------------------
(* Scheduling, under m_mutex: the event, then Synchronizer::Signal. *)

Insert(ts) ==
  /\ uid < 4 + MaxEvents /\ ts <= MaxTime
  /\ events' = events \cup {[ts |-> ts, uid |-> uid]}
  /\ uid' = uid + 1
  /\ condition' = TRUE

InProgram == pc \in {"outside", "invoke"}

\* Schedule, ScheduleNow, and ScheduleWithContext on the main thread.
Schedule(d) ==
  /\ InProgram
  /\ Insert(currentTs + d)
  /\ UNCHANGED <<wall, origin, currentTs, stop, running, pc, wait, deadline, runs>>

\* ScheduleWithContext and ScheduleRealtimeNowWithContext on another thread,
\* one that an event of the Run has started.
ThreadSchedule(d) ==
  /\ pc \notin {"outside", "origin"}
  /\ Insert((IF running THEN Realtime ELSE currentTs) + d)
  /\ UNCHANGED <<wall, origin, currentTs, stop, running, pc, wait, deadline, runs>>

\* Of an event that is not expired, by the main thread.
Remove(ev) ==
  /\ InProgram
  /\ events' = events \ {ev}
  /\ UNCHANGED <<wall, origin, uid, currentTs, stop, running, condition, pc,
                 wait, deadline, runs>>

Stop ==
  /\ InProgram
  /\ stop' = TRUE
  /\ UNCHANGED <<wall, origin, schedule, currentTs, running, pc, wait, deadline, runs>>

-----------------------------------------------------------------------------
(* Run. *)

Run ==
  /\ pc = "outside" /\ runs < MaxRuns
  /\ stop' = FALSE /\ running' = TRUE
  /\ pc' = "origin"
  /\ runs' = runs + 1
  /\ UNCHANGED <<wall, origin, schedule, currentTs, wait, deadline>>

\* The simulation time SetOrigin is given has no effect.
SetOrigin ==
  /\ pc = "origin"
  /\ origin' = wall
  /\ pc' = "loop"
  /\ UNCHANGED <<wall, schedule, currentTs, stop, running, wait, deadline, runs>>

\* The critical section of the loop: is there an event to wait for?
NextEvent ==
  /\ pc = "loop" /\ ~stop /\ events # {}
  /\ pc' = "plan"
  /\ UNCHANGED <<wall, origin, schedule, currentTs, stop, running, wait, deadline, runs>>

NoEvent ==
  /\ pc = "loop" /\ ~stop /\ events = {}
  /\ idle' = TRUE /\ tsNow' = Realtime /\ tsDelay' = IdleDelay
  /\ pc' = "sync"
  /\ UNCHANGED <<wall, origin, schedule, currentTs, stop, running, deadline, runs>>

RunEnds ==
  /\ pc = "loop" /\ stop
  /\ running' = FALSE
  /\ pc' = "outside"
  /\ UNCHANGED <<wall, origin, schedule, currentTs, stop, wait, deadline, runs>>

-----------------------------------------------------------------------------
(* ProcessOneEvent. *)

\* The first critical section: how long to wait, and SetCondition (false).
Plan ==
  /\ pc = "plan"
  /\ idle' = FALSE /\ tsNow' = Realtime
  /\ \E next \in events :
       /\ Earliest(next)
       /\ tsDelay' = IF next.ts <= Realtime THEN 0 ELSE next.ts - Realtime
  /\ condition' = FALSE
  /\ pc' = "sync"
  /\ UNCHANGED <<wall, origin, events, uid, currentTs, stop, running, deadline, runs>>

\* DriftCorrect: what is left of the delay.
Left == IF Realtime - tsNow <= tsDelay THEN tsDelay - (Realtime - tsNow) ELSE 0

\* TimedWait: tv_nsec is carried over when it exceeds a second.
GiveUpAt(ns) ==
  LET nsec == (wall % Second) + (ns % Second)
      sec == (wall \div Second) + (ns \div Second)
  IN  IF nsec > Second THEN <<sec + 1, nsec % Second>> ELSE <<sec, nsec>>

\* Mutant: the wait is SystemCondition::Wait.
TimedOutNever == FALSE

\* pthread_cond_timedwait refuses a deadline with a whole second in tv_nsec.
TimedOut ==
  /\ deadline[2] < Second
  /\ wall >= deadline[1] * Second + deadline[2]

\* Synchronize has waited in vain for a signal, or was interrupted by one.
Elapsed == pc' = IF idle THEN "loop" ELSE "pop"
Interrupted == pc' = IF idle THEN "loop" ELSE "plan"

\* Mutant: the condition is reset when the wait begins.
SynchronizeReset ==
  /\ pc = "sync"
  /\ condition' = FALSE
  /\ IF Left > SpinJiffies
     THEN pc' = "sleep" /\ deadline' = GiveUpAt(Left - SpinJiffies)
     ELSE pc' = "spin" /\ UNCHANGED deadline
  /\ UNCHANGED <<wall, origin, events, uid, currentTs, stop, running, wait, runs>>

\* DoSynchronize, up to the wait; a condition already true prevents a sleep.
Synchronize ==
  /\ pc = "sync"
  /\ IF Left > SpinJiffies
     THEN IF condition THEN Interrupted /\ UNCHANGED deadline
          ELSE pc' = "sleep" /\ deadline' = GiveUpAt(Left - SpinJiffies)
     ELSE pc' = "spin" /\ UNCHANGED deadline
  /\ UNCHANGED <<wall, origin, schedule, currentTs, stop, running, wait, runs>>

\* SleepWait: interrupted, or on to the busy wait.
Sleep ==
  /\ pc = "sleep"
  /\ \/ condition /\ Interrupted
     \/ TimedOut /\ pc' = "spin"
  /\ UNCHANGED <<wall, origin, schedule, currentTs, stop, running, wait, deadline, runs>>

\* Mutant: an interrupted busy wait reports that the time has come.
SpinElapsed ==
  /\ pc = "spin"
  /\ Realtime >= Until \/ condition
  /\ Elapsed
  /\ UNCHANGED <<wall, origin, schedule, currentTs, stop, running, wait, deadline, runs>>

\* SpinWait.
Spin ==
  /\ pc = "spin"
  /\ \/ Realtime >= Until /\ Elapsed
     \/ condition /\ Interrupted
  /\ UNCHANGED <<wall, origin, schedule, currentTs, stop, running, wait, deadline, runs>>

\* The second critical section: whatever is the next event by now.
Pop ==
  /\ pc = "pop"
  /\ \E next \in events :
       /\ Earliest(next)
       /\ events' = events \ {next}
       /\ currentTs' = next.ts
  /\ pc' = "invoke"
  /\ UNCHANGED <<wall, origin, uid, stop, running, condition, wait, deadline, runs>>

Invoked ==
  /\ pc = "invoke"
  /\ pc' = "loop"
  /\ UNCHANGED <<wall, origin, schedule, currentTs, stop, running, wait, deadline, runs>>

-----------------------------------------------------------------------------
Program == (\E d \in Delays : Schedule(d)) \/ (\E ev \in events : Remove(ev)) \/ Stop

MainLoop ==
  \/ SetOrigin \/ NextEvent \/ NoEvent \/ RunEnds
  \/ Plan \/ Synchronize \/ Sleep \/ Spin \/ Pop \/ Invoked

Next == Tick \/ Run \/ Program \/ MainLoop \/ \E d \in Delays : ThreadSchedule(d)

Spec == Init /\ [][Next]_vars

\* Time passes and the main thread is scheduled; events return.
FairSpec == Spec /\ WF_vars(Tick) /\ WF_vars(MainLoop)

-----------------------------------------------------------------------------
Event == [ts : Nat, uid : Nat]

TypeOK ==
  /\ wall \in Nat /\ origin \in 0 .. wall
  /\ events \subseteq Event /\ uid \in Nat /\ currentTs \in Nat
  /\ stop \in BOOLEAN /\ running \in BOOLEAN /\ condition \in BOOLEAN
  /\ pc \in {"outside", "origin", "loop", "plan", "sync", "sleep", "spin", "pop", "invoke"}
  /\ idle \in BOOLEAN /\ tsNow \in Nat /\ tsDelay \in Nat
  /\ deadline \in Nat \X Nat /\ runs \in Nat

Waiting == pc \in {"sync", "sleep", "spin"}

\* While the main thread waits for a time to come and has not been told of
\* anything new, no event is due before that time; in the wait of Run, none
\* is scheduled at all.  The schedule that "may have snuck in" after the
\* first critical section of ProcessOneEvent is not slept through.
NoOversleep ==
  Waiting /\ ~condition =>
    IF idle THEN events = {}
    ELSE Realtime < Until => \A e \in events : e.ts >= Until

\* What threads schedule at the present real time is not before the last
\* event, so that simulation time does not go back (the assertions on
\* m_currentTs).
NothingInThePast == \A e \in events : e.ts >= currentTs

\* Every event scheduled in a Run is run, or removed, unless it is stopped.
Scheduled(u) == running /\ \E e \in events : e.uid = u
EveryEventRuns == \A u \in 4 .. 3 + MaxEvents : Scheduled(u) ~> ~Scheduled(u)
=============================================================================
