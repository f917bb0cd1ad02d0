----------------------- MODULE RealtimeSimulatorProofs -----------------------
(***************************************************************************)
(* Proofs about RealtimeSimulatorImpl, for any delays, bounds and clock:   *)
(* the main thread does not sleep through an event, and, in one Run, no    *)
(* event is ever scheduled before the last one.                            *)
(***************************************************************************)
EXTENDS RealtimeSimulatorImpl, TLAPS

\* Up to the call of Run the simulation has not begun; from then on the last
\* event is not ahead of real time, and whenever the main thread waits for a
\* time, or has waited for it, some event is due by that time.
BeforeRun ==
  /\ runs = 0 => pc = "outside" /\ currentTs = 0
  /\ pc = "origin" => currentTs = 0
InRun == pc \notin {"outside", "origin"} => currentTs <= Realtime
RunningExact == running <=> pc # "outside"
WaitsForEvent == Waiting /\ ~idle => \E e \in events : e.ts <= Until
PopsDue == pc = "pop" => \E e \in events : e.ts <= Realtime

SleepInv == TypeOK /\ NoOversleep
TimeInv ==
  /\ TypeOK /\ BeforeRun /\ InRun /\ RunningExact /\ WaitsForEvent /\ PopsDue
  /\ NothingInThePast

-----------------------------------------------------------------------------
\* What an insertion does, whoever makes it: it is typed, and it signals.
LEMMA InsertType ==
  ASSUME TypeOK, NEW ts \in Nat, Insert(ts)
  PROVE  /\ events' \subseteq Event /\ uid' \in Nat /\ condition' = TRUE
         /\ events' = events \union {[ts |-> ts, uid |-> uid]}
BY DEF Insert, TypeOK, Event

\* Real time is a number, and the wait ends at a number.
LEMMA RealtimeNat ==
  ASSUME TypeOK
  PROVE  Realtime \in Nat /\ Until \in Nat
BY DEF TypeOK, Realtime, Until

\* The program and the threads keep the types.
LEMMA ProgramType ==
  ASSUME TypeOK, Program \/ (\E d \in Delays : ThreadSchedule(d))
  PROVE  TypeOK'
<1>1. ASSUME NEW d \in Delays, Schedule(d) PROVE TypeOK'
  <2>1. currentTs + d \in Nat
    BY RealtimeAssumption DEF TypeOK
  <2>2. Insert(currentTs + d)
    BY <1>1 DEF Schedule
  <2>3. events' \subseteq Event /\ uid' \in Nat /\ condition' \in BOOLEAN
    BY <2>1, <2>2, InsertType
  <2> QED
    BY <1>1, <2>3 DEF Schedule, TypeOK, wait
<1>2. ASSUME NEW d \in Delays, ThreadSchedule(d) PROVE TypeOK'
  <2>1. (IF running THEN Realtime ELSE currentTs) + d \in Nat
    BY RealtimeAssumption, RealtimeNat DEF TypeOK
  <2>2. Insert((IF running THEN Realtime ELSE currentTs) + d)
    BY <1>2 DEF ThreadSchedule
  <2>3. events' \subseteq Event /\ uid' \in Nat /\ condition' \in BOOLEAN
    BY <2>1, <2>2, InsertType
  <2> QED
    BY <1>2, <2>3 DEF ThreadSchedule, TypeOK, wait
<1>3. ASSUME NEW ev \in events, Remove(ev) PROVE TypeOK'
  BY <1>3 DEF Remove, TypeOK, wait
<1>4. ASSUME Stop PROVE TypeOK'
  BY <1>4 DEF Stop, TypeOK, wait, schedule
<1> QED
  BY <1>1, <1>2, <1>3, <1>4 DEF Program

\* So do the clock, Run, and the main loop up to the plan of a wait.
LEMMA LoopType ==
  ASSUME TypeOK,
         Tick \/ Run \/ SetOrigin \/ NextEvent \/ NoEvent \/ RunEnds \/ Pop \/ Invoked
  PROVE  TypeOK'
<1> USE DEF TypeOK, wait, schedule
<1>1. CASE Tick
  BY <1>1 DEF Tick
<1>2. CASE Run
  <2>1. stop' \in BOOLEAN /\ running' \in BOOLEAN
    BY <1>2, Zenon DEF Run
  <2>2. /\ pc' = "origin" /\ runs' = runs + 1
        /\ UNCHANGED <<wall, origin, schedule, currentTs, wait, deadline>>
    BY <1>2, Zenon DEF Run
  <2> QED
    BY <2>1, <2>2
<1>3. CASE SetOrigin
  BY <1>3 DEF SetOrigin
<1>4. CASE NextEvent
  BY <1>4 DEF NextEvent
<1>5. CASE NoEvent
  BY <1>5, RealtimeAssumption, RealtimeNat DEF NoEvent
<1>6. CASE RunEnds
  BY <1>6 DEF RunEnds
<1>7. CASE Pop
  BY <1>7 DEF Pop, Event
<1>8. CASE Invoked
  BY <1>8 DEF Invoked
<1> QED
  BY <1>1, <1>2, <1>3, <1>4, <1>5, <1>6, <1>7, <1>8

\* The deadline of a sleep is a time.
LEMMA GiveUpAtType ==
  ASSUME TypeOK, NEW ns \in Nat
  PROVE  GiveUpAt(ns) \in Nat \X Nat
<1>1. /\ wall % Second \in Nat /\ ns % Second \in Nat
      /\ wall \div Second \in Nat /\ ns \div Second \in Nat
  BY RealtimeAssumption DEF TypeOK
<1>2. ((wall % Second) + (ns % Second)) % Second \in Nat
  BY <1>1, RealtimeAssumption
<1> QED
  BY <1>1, <1>2 DEF GiveUpAt

\* And the wait itself.
LEMMA WaitType ==
  ASSUME TypeOK, Plan \/ Synchronize \/ Sleep \/ Spin
  PROVE  TypeOK'
<1>1. CASE Plan
  <2>1. PICK next \in events :
          tsDelay' = IF next.ts <= Realtime THEN 0 ELSE next.ts - Realtime
    BY <1>1 DEF Plan
  <2>2. next.ts \in Nat
    BY DEF TypeOK, Event
  <2>3. tsDelay' \in Nat
    BY <2>1, <2>2, RealtimeNat
  <2> QED
    BY <1>1, <2>3, RealtimeNat DEF Plan, TypeOK
<1>2. CASE Synchronize
  <2>1. Left \in Nat
    BY RealtimeNat DEF Left, TypeOK
  <2>2. CASE Left > SpinJiffies /\ ~condition
    <3>1. GiveUpAt(Left - SpinJiffies) \in Nat \X Nat
      BY <2>1, <2>2, GiveUpAtType, RealtimeAssumption
    <3> QED
      BY <1>2, <2>2, <3>1 DEF Synchronize, TypeOK, wait, schedule
  <2>3. CASE ~(Left > SpinJiffies /\ ~condition)
    BY <1>2, <2>3 DEF Synchronize, Interrupted, TypeOK, wait, schedule
  <2> QED
    BY <2>2, <2>3
<1>3. CASE Sleep
  BY <1>3 DEF Sleep, Interrupted, TypeOK, wait, schedule
<1>4. CASE Spin
  BY <1>4 DEF Spin, Elapsed, Interrupted, TypeOK, wait, schedule
<1> QED
  BY <1>1, <1>2, <1>3, <1>4

LEMMA TypeStep ==
  ASSUME TypeOK, [Next]_vars
  PROVE  TypeOK'
<1>1. CASE UNCHANGED vars
  BY <1>1 DEF vars, TypeOK
<1>2. ASSUME NEW d \in Delays, ThreadSchedule(d) PROVE TypeOK'
  BY <1>2, ProgramType
<1>3. CASE Program
  BY <1>3, ProgramType
<1>4. CASE Tick \/ Run
  BY <1>4, LoopType
<1>5. CASE MainLoop
  BY <1>5, LoopType, WaitType DEF MainLoop
<1> QED
  BY <1>1, <1>2, <1>3, <1>4, <1>5 DEF Next

LEMMA InitType ==
  ASSUME Init
  PROVE  TypeOK
<1>1. stop \in BOOLEAN /\ running \in BOOLEAN /\ condition \in BOOLEAN /\ idle \in BOOLEAN
  BY Zenon DEF Init
<1>2. /\ wall = Start /\ origin = 0 /\ events = {} /\ uid = 4 /\ currentTs = 0
      /\ pc = "outside" /\ tsNow = 0 /\ tsDelay = 0 /\ deadline = <<0, 0>> /\ runs = 0
  BY Zenon DEF Init
<1> QED
  BY <1>1, <1>2, RealtimeAssumption DEF TypeOK

-----------------------------------------------------------------------------
\* While the main thread waits, what comes between leaves the wait alone, or
\* sets the condition.
LEMMA SleepStep ==
  ASSUME SleepInv, [Next]_vars
  PROVE  NoOversleep'
<1> USE DEF Waiting
<1>0. TypeOK /\ NoOversleep
  BY DEF SleepInv
<1>1. ASSUME NEW ts \in Nat, Insert(ts) PROVE NoOversleep'
  BY <1>0, <1>1, InsertType DEF NoOversleep
<1>2. CASE Program
  <2>1. ASSUME NEW d \in Delays, Schedule(d) PROVE NoOversleep'
    BY <2>1 DEF Schedule, InProgram, NoOversleep
  <2>2. ASSUME NEW ev \in events, Remove(ev) PROVE NoOversleep'
    BY <2>2 DEF Remove, InProgram, NoOversleep
  <2>3. CASE Stop
    BY <2>3 DEF Stop, InProgram, NoOversleep
  <2> QED
    BY <1>2, <2>1, <2>2, <2>3 DEF Program
<1>3. ASSUME NEW d \in Delays, ThreadSchedule(d) PROVE NoOversleep'
  <2>1. (IF running THEN Realtime ELSE currentTs) + d \in Nat
    BY <1>0, RealtimeAssumption, RealtimeNat DEF TypeOK
  <2> QED
    BY <1>1, <1>3, <2>1 DEF ThreadSchedule
<1>4. CASE Tick
  <2>1. /\ pc' = pc /\ idle' = idle /\ condition' = condition /\ events' = events
        /\ Realtime' = Realtime + 1 /\ Until' = Until
    BY <1>0, <1>4 DEF Tick, wait, schedule, Realtime, Until, TypeOK
  <2> QED
    BY <1>0, <2>1, RealtimeNat DEF NoOversleep
<1>5. CASE Run \/ SetOrigin \/ NextEvent \/ RunEnds \/ Pop \/ Invoked
  BY <1>5 DEF Run, SetOrigin, NextEvent, RunEnds, Pop, Invoked, NoOversleep
<1>6. CASE NoEvent
  BY <1>6 DEF NoEvent, schedule, NoOversleep
<1>7. CASE Plan
  <2>1. PICK next \in events :
          /\ Earliest(next)
          /\ tsDelay' = IF next.ts <= Realtime THEN 0 ELSE next.ts - Realtime
    BY <1>7 DEF Plan
  <2>2. next.ts \in Nat /\ \A e \in events : e.ts \in Nat
    BY <1>0 DEF TypeOK, Event
  <2>3. /\ Realtime' = Realtime /\ tsNow' = Realtime /\ events' = events /\ ~idle'
    BY <1>7 DEF Plan, Realtime
  <2>4. Realtime' < Until' => Until' = next.ts
    BY <1>0, <2>1, <2>2, <2>3, RealtimeNat DEF Until
  <2>5. \A e \in events : next.ts <= e.ts
    BY <2>1, <2>2 DEF Earliest
  <2> QED
    BY <2>2, <2>3, <2>4, <2>5 DEF NoOversleep
<1>8. CASE Synchronize \/ Sleep \/ Spin
  <2>1. /\ events' = events /\ condition' = condition /\ idle' = idle
        /\ Realtime' = Realtime /\ Until' = Until
    BY <1>8 DEF Synchronize, Sleep, Spin, schedule, wait, Realtime, Until
  <2>2. Waiting
    BY <1>8 DEF Synchronize, Sleep, Spin
  <2> QED
    BY <1>0, <2>1, <2>2 DEF NoOversleep
<1>9. CASE UNCHANGED vars
  BY <1>0, <1>9 DEF vars, NoOversleep, Realtime, Until
<1> QED
  BY <1>2, <1>3, <1>4, <1>5, <1>6, <1>7, <1>8, <1>9 DEF Next, MainLoop

\* The wait for an event is never longer than the time to it, and a signal
\* given at any moment after the plan of the wait ends it.
THEOREM RealtimeNoOversleep == Spec => []NoOversleep
<1>1. Init => SleepInv
  BY InitType DEF SleepInv, NoOversleep, Waiting, Init
<1>2. SleepInv /\ [Next]_vars => SleepInv'
  BY TypeStep, SleepStep DEF SleepInv
<1>3. SleepInv => NoOversleep
  BY DEF SleepInv
<1> QED
  BY <1>1, <1>2, <1>3, PTL DEF Spec

-----------------------------------------------------------------------------
\* Events that are added, none before the last one, leave the invariant.
LEMMA InsertTime ==
  ASSUME TimeInv, NEW ts \in Nat, Insert(ts), currentTs <= ts,
         UNCHANGED <<wall, origin, currentTs, stop, running, pc, wait, deadline, runs>>
  PROVE  TimeInv'
<1>1. TypeOK'
  BY InsertType DEF TimeInv, TypeOK, wait
<1>2. /\ events' = events \union {[ts |-> ts, uid |-> uid]}
      /\ Realtime' = Realtime /\ Until' = Until
  BY DEF Insert, Realtime, Until, wait
<1>3. BeforeRun' /\ InRun' /\ RunningExact'
  BY <1>2 DEF TimeInv, BeforeRun, InRun, RunningExact
<1>4. WaitsForEvent' /\ PopsDue'
  BY <1>2 DEF TimeInv, WaitsForEvent, Waiting, PopsDue, wait
<1>5. NothingInThePast'
  BY <1>2 DEF TimeInv, NothingInThePast
<1> QED
  BY <1>1, <1>3, <1>4, <1>5 DEF TimeInv

\* The program, in an event or before and after the Run.
LEMMA ProgramTime ==
  ASSUME TimeInv, Program
  PROVE  TimeInv'
<1>0. TypeOK /\ TypeOK'
  BY ProgramType DEF TimeInv
<1>1. ASSUME NEW d \in Delays, Schedule(d) PROVE TimeInv'
  <2>1. currentTs + d \in Nat /\ currentTs <= currentTs + d
    BY <1>0, RealtimeAssumption DEF TypeOK
  <2> QED
    BY <1>1, <2>1, InsertTime DEF Schedule
<1>2. ASSUME NEW ev \in events, Remove(ev) PROVE TimeInv'
  BY <1>0, <1>2 DEF Remove, InProgram, TimeInv, BeforeRun, InRun, RunningExact,
       WaitsForEvent, Waiting, PopsDue, NothingInThePast, Realtime, wait
<1>3. CASE Stop
  BY <1>0, <1>3 DEF Stop, InProgram, TimeInv, BeforeRun, InRun, RunningExact,
       WaitsForEvent, Waiting, PopsDue, NothingInThePast, Realtime, wait, schedule
<1> QED
  BY <1>1, <1>2, <1>3 DEF Program

\* A thread schedules at the real time, which the last event is not past.
LEMMA ThreadTime ==
  ASSUME TimeInv, NEW d \in Delays, ThreadSchedule(d)
  PROVE  TimeInv'
<1>1. TypeOK /\ pc \notin {"outside", "origin"}
  BY DEF TimeInv, ThreadSchedule
<1>2. running /\ currentTs <= Realtime
  BY <1>1 DEF TimeInv, RunningExact, InRun
<1>3. Insert(Realtime + d)
  BY <1>2 DEF ThreadSchedule
<1>4. Realtime + d \in Nat /\ currentTs <= Realtime + d
  BY <1>1, <1>2, RealtimeNat, RealtimeAssumption DEF TypeOK
<1> QED
  BY <1>3, <1>4, InsertTime DEF ThreadSchedule

\* The clock and the main loop up to a wait.  There is one Run, and its origin
\* is set while the simulation has not begun.
LEMMA LoopTime ==
  ASSUME MaxRuns = 1, TimeInv,
         Tick \/ Run \/ SetOrigin \/ NextEvent \/ NoEvent \/ RunEnds \/ Invoked
  PROVE  TimeInv'
<1>0. TypeOK /\ TypeOK'
  BY LoopType DEF TimeInv
<1> USE DEF TimeInv, BeforeRun, InRun, RunningExact, WaitsForEvent, Waiting, PopsDue,
            NothingInThePast, wait, schedule
<1>1. CASE Tick
  <2>1. /\ Realtime' = Realtime + 1 /\ Until' = Until
        /\ UNCHANGED <<events, currentTs, running, pc, idle, runs>>
    BY <1>0, <1>1 DEF Tick, Realtime, Until, TypeOK
  <2>2. /\ currentTs <= Realtime => currentTs <= Realtime + 1
        /\ \A e \in events : e.ts <= Realtime => e.ts <= Realtime + 1
    BY <1>0, RealtimeNat DEF TypeOK, Event
  <2>3. BeforeRun' /\ InRun' /\ RunningExact' /\ NothingInThePast'
    BY <2>1, <2>2
  <2>4. WaitsForEvent'
    BY <2>1
  <2>5. PopsDue'
    BY <2>1, <2>2
  <2> QED
    BY <1>0, <2>3, <2>4, <2>5
<1>2. CASE Run
  <2>1. /\ pc = "outside" /\ runs < 1 /\ pc' = "origin" /\ runs' = runs + 1
        /\ UNCHANGED <<events, currentTs>>
    BY <1>2 DEF Run
  <2>2. running'
    BY <1>2, Zenon DEF Run
  <2>3. runs = 0 /\ currentTs = 0
    BY <1>0, <2>1 DEF TypeOK
  <2> QED
    BY <1>0, <2>1, <2>2, <2>3
<1>3. CASE SetOrigin
  <2>1. /\ Realtime' = 0 /\ pc = "origin" /\ pc' = "loop" /\ currentTs' = 0
        /\ UNCHANGED <<events, running, runs, currentTs>>
    BY <1>0, <1>3 DEF SetOrigin, Realtime, TypeOK
  <2> QED
    BY <1>0, <2>1
<1>4. CASE NextEvent \/ NoEvent \/ Invoked
  <2>1. /\ Realtime' = Realtime /\ UNCHANGED <<events, running, runs, currentTs>>
        /\ pc \in {"loop", "invoke"} /\ pc' \in {"plan", "sync", "loop"}
        /\ pc' = "sync" => idle'
    BY <1>4 DEF NextEvent, NoEvent, Invoked, Realtime
  <2> QED
    BY <1>0, <2>1
<1>5. CASE RunEnds
  <2>1. /\ pc = "loop" /\ pc' = "outside" /\ UNCHANGED <<events, runs, currentTs>>
        /\ ~running'
    BY <1>5 DEF RunEnds
  <2> QED
    BY <1>0, <2>1
<1> QED
  BY <1>1, <1>2, <1>3, <1>4, <1>5

\* From the plan of a wait to its end: an event is due when the wait is over,
\* so the one taken, which need not be that one, is due as well.
LEMMA WaitTime ==
  ASSUME TimeInv, Plan \/ Synchronize \/ Sleep \/ Spin \/ Pop
  PROVE  TimeInv'
<1>0. TypeOK /\ TypeOK' /\ \A e \in events : e.ts \in Nat
  BY WaitType, LoopType DEF TimeInv, TypeOK, Event
<1> USE DEF TimeInv, BeforeRun, InRun, RunningExact, WaitsForEvent, Waiting, PopsDue,
            NothingInThePast, wait, schedule
<1>1. CASE Plan
  <2>1. PICK next \in events :
          tsDelay' = IF next.ts <= Realtime THEN 0 ELSE next.ts - Realtime
    BY <1>1 DEF Plan
  <2>2. /\ Realtime' = Realtime /\ tsNow' = Realtime /\ pc = "plan" /\ pc' = "sync"
        /\ UNCHANGED <<events, running, runs, currentTs>>
    BY <1>1 DEF Plan, Realtime
  <2>3. next.ts <= Until'
    BY <1>0, <2>1, <2>2, RealtimeNat DEF Until
  <2> QED
    BY <1>0, <2>2, <2>3
<1>2. CASE Synchronize \/ Sleep \/ Spin
  <2>1. /\ Realtime' = Realtime /\ Until' = Until
        /\ UNCHANGED <<events, running, runs, currentTs, idle>>
        /\ Waiting /\ pc' \in {"sleep", "spin", "loop", "plan", "pop"}
    BY <1>2 DEF Synchronize, Sleep, Spin, Elapsed, Interrupted, Realtime, Until
  <2>2. pc' = "pop" => ~idle /\ Realtime >= Until
    BY <1>2 DEF Synchronize, Sleep, Spin, Elapsed, Interrupted
  <2>3. PopsDue'
    <3>1. SUFFICES ASSUME pc' = "pop" PROVE \E e \in events : e.ts <= Realtime
      BY <2>1
    <3>2. PICK e \in events : e.ts <= Until
      BY <2>1, <2>2, <3>1
    <3> QED
      BY <1>0, <2>2, <3>1, <3>2, RealtimeNat
  <2> QED
    BY <1>0, <2>1, <2>3
<1>3. CASE Pop
  <2>1. PICK next \in events :
          Earliest(next) /\ events' = events \ {next} /\ currentTs' = next.ts
    BY <1>3 DEF Pop
  <2>2. \A e \in events : next.ts <= e.ts
    BY <1>0, <2>1 DEF Earliest
  <2>3. /\ Realtime' = Realtime /\ pc = "pop" /\ pc' = "invoke"
        /\ UNCHANGED <<running, runs>>
    BY <1>3 DEF Pop, Realtime
  <2>4. next.ts <= Realtime
    BY <1>0, <2>2, <2>3, RealtimeNat
  <2>5. InRun' /\ BeforeRun' /\ RunningExact'
    BY <2>1, <2>3, <2>4
  <2> QED
    BY <1>0, <2>1, <2>2, <2>3, <2>5
<1> QED
  BY <1>1, <1>2, <1>3

\* Simulation time does not go back in a Run, in whatever order the clock, the
\* threads and the main thread take their steps, and however late the main
\* thread is.  A second Run breaks it: SetOrigin does not use its argument.
THEOREM RealtimeNothingInThePast ==
  ASSUME MaxRuns = 1
  PROVE  Spec => []NothingInThePast
<1>1. Init => TimeInv
  <2> SUFFICES ASSUME Init PROVE TimeInv
    OBVIOUS
  <2>1. TypeOK
    BY InitType
  <2>2. ~running
    BY Zenon DEF Init
  <2>3. pc = "outside" /\ currentTs = 0 /\ events = {}
    BY Zenon DEF Init
  <2> QED
    BY <2>1, <2>2, <2>3 DEF TimeInv, BeforeRun, InRun, RunningExact, WaitsForEvent,
                            Waiting, PopsDue, NothingInThePast
<1>2. TimeInv /\ [Next]_vars => TimeInv'
  <2> SUFFICES ASSUME TimeInv, [Next]_vars PROVE TimeInv'
    OBVIOUS
  <2>1. CASE UNCHANGED vars
    BY <2>1, TypeStep DEF vars, TimeInv, BeforeRun, InRun, RunningExact, WaitsForEvent,
         Waiting, PopsDue, NothingInThePast, Realtime, Until
  <2>2. CASE Program
    BY <2>2, ProgramTime
  <2>3. ASSUME NEW d \in Delays, ThreadSchedule(d) PROVE TimeInv'
    BY <2>3, ThreadTime
  <2>4. CASE Tick \/ Run
    BY <2>4, LoopTime
  <2>5. CASE MainLoop
    BY <2>5, LoopTime, WaitTime DEF MainLoop
  <2> QED
    BY <2>1, <2>2, <2>3, <2>4, <2>5 DEF Next
<1>3. TimeInv => NothingInThePast
  BY DEF TimeInv
<1> QED
  BY <1>1, <1>2, <1>3, PTL DEF Spec
=============================================================================
