# TLA+ models of this ns-3 tree

This repository is a copy of the ns-3 network simulator (`src/src` holds its
modules) with data-centre additions: the DCTCP congestion control, three
variants of RED that choose which packet to mark, and the scenarios under
`src/scratch` that compare them. The models are of two kinds. The first follow
that experiment: the path a packet takes through a node, where it is marked
(traffic control layer, queue disc, flow control interface, device), and the
sockets, where the mark is echoed and answered. The second are of what runs
experiments: the simulator with its event schedulers, its real-time variant,
the visualiser, and the test runner.

## The system

| Part | State | Operations | Interacts with |
|---|---|---|---|
| `QueueDisc` (base class) | internal queue, packet held by a requeue or a peek, statistics, `m_running` | `Enqueue`, `Run`, `Dequeue`, `Transmit`, `Requeue`, `Peek`, `Mark`, drops | called by the traffic control layer and by the wake callback; calls the device through `m_send` |
| `RedQueueDisc`, `RedQueueFrontDisc`, `RedQueueMMDisc` | average queue, count since the last early mark, `m_old`, `m_idle` | `DoEnqueue`, `DoDequeue` | the internal queue and its traces |
| `FifoQueueDisc` | none of its own | `DoEnqueue`, `DoDequeue`, `DoPeek` | the internal queue |
| `NetDeviceQueue`, `DynamicQueueLimits` | two stop flags; byte counters and limit | `Stop`, `Wake`, the callbacks of the device queue | traces of the device queue; schedules `Run` |
| `PointToPointNetDevice` | device queue, transmitter | `Send`, `TransmitStart`, `TransmitComplete` | the queue disc, the channel |
| `TrafficControlLayer` | root queue discs | `Send`, installation of callbacks | IP above, queue discs below |
| `TcpSocketBase` with `TcpDctcp` | sequence numbers, buffers, timers, one ECN state for both roles; CE state, reserved ACK, `m_priorRcvNxt`, alpha | `ForwardUp`, `ReceivedAck`, `ReceivedData`, `SendEmptyPacket`, `SendPendingData`, timeouts; `CwndEvent`, `PktsAcked` | IP below, applications above; the congestion control calls back into the socket |
| CoDel, FQ-CoDel, PIE, COBALT, TBF, prio, pfifo_fast, mq | per discipline | `DoEnqueue`, `DoDequeue`, watchdogs | as RED; child discs |
| `DefaultSimulatorImpl` | time and id of the current event, ids given, events handed over by other threads with a flag, `m_stop` | `Schedule`, `ScheduleWithContext`, `Remove`, `Cancel`, `IsExpired`, `SetScheduler`, `Run` | a scheduler; every event calls back; threads of devices and applications |
| `HeapScheduler`, `CalendarScheduler`, `ListScheduler`, `MapScheduler` | the events that wait, in a shape of their own | `Insert`, `PeekNext`, `RemoveNext`, `Remove` | the simulator |
| `RealtimeSimulatorImpl`, `WallClockSynchronizer`, `SystemCondition` | the same, and the wall clock, its origin, the condition, the wait in progress | the same, and `Synchronize`, `Signal` | threads that read real devices |
| `Visualizer` (Python), `SimulationThread`, `PyViz` (C++) | timers, button, stack of nested Gtk handlers; lock, event `go`, target time, pause messages; stop callbacks | `update_view_timeout`, `_start_update_timer`, `_quit`; `run`; `SimulatorRunUntil`, `Pause` | Gtk, the simulator, the user |
| `test.py` | input and output queues, `thread_exit`, counters, results files | `run_tests`, `worker_thread.run`, `run_job_synchronously`, `sigint_hook` | children, the user |

In the models of the first kind the simulator is one thread that runs one event
at a time, so what is hard is not the interleaving of threads but of *events and
callbacks*: `Run` calls the
device in the middle of its loop, the device calls back into the flow control
interface through the traces of its queue, the interface schedules another
`Run`, and a discipline may end a `Run` early by returning no packet. A packet
that nobody comes back for is silent: no test that sends one more packet sees
it. The models of the second kind have threads: a flag read without its lock, a
signal given between the plan of a wait and the wait, handlers that run within
a handler that waits for a lock, jobs and breaks in one queue.

What makes each part correct: a queue disc keeps its packets in order, loses
none silently, has exact statistics, and never sleeps on a packet it could
send; RED marks instead of dropping what can be marked, once per packet, and
sends one signal per arrival over the threshold; the flow control interface
never stops a queue without something that will start it again; the device
transmits what it was given, in order, without idling. A DCTCP receiver echoes
the marks, and only the marks, on the ACKs of the packets that carried them,
though it delays ACKs; received data is always acknowledged in the end; a sender
reduces its window once per window of data. A simulator runs its
events in the order of their times and, within a time, of their scheduling,
whatever the scheduler; it sleeps through none in real time, and its time does
not go back. The visualiser loses no request of the view, lets the simulation
run no further than it asked for, and ends when its window is closed. The test
runner succeeds only if every job did, and ends, interrupted or not.

## Modules

* `QueueDisc`: the base class. One action per arrival (`TrafficControlLayer::Send`:
  `Enqueue`, then the beginning of `Run`), one per turn of the loop of `Run`,
  and the device as the environment: a queue may stop at any time, and a wake
  schedules one or two Runs and may leave the queue stopped. While `running` holds only
  `Run` takes steps. `sent` and `dropped` are histories.
* `AqmQueue`: the abstract specification of every queue disc with one internal
  queue: packets leave in order, at most once; a packet that does not leave is
  lost; only a capable packet is marked and a mark is for good. A packet may be
  marked in a step that moves none: a discipline that marks the departing packet
  finds the queue of the device stopped, and the packet is held with its mark.
* `RedAlgorithm`: the random early detection, the same code in the three
  classes. With QW = 1 the average is the queue, and whether an early mark may,
  must or cannot happen is computed exactly, as a fraction; otherwise the
  average is any value the estimator can reach. Kept as history: how often
  the algorithm has decided, and which decisions were early marks.
* `RedQueueDisc` (marks on arrival, the tail or a random packet),
  `RedDepartures` with `RedQueueFrontDisc` and `RedQueueMMDisc` (mark on
  departure). Random choices are existential quantifiers.
* `FifoQueueDisc`, `NetDeviceQueue` (operators on the record of the interface,
  byte queue limits included) and `PointToPointNetDevice`, which composes them
  with the device: what `QueueDisc` leaves open of the device is determined.
* `DctcpSocket`: a connected socket with DCTCP, both roles. The state is one
  record and each function of the code an operator on it, in the order of the
  calls: `ForwardUp` raises the CE event, which may send the early ACK with
  `NextRxSequence` rewound, before the packet reaches the buffer. The
  peer and the path are the environment: any segment in the window may arrive,
  marked or not, again or out of order, and the peer may send pure ACKs. What the
  congestion window would decide (how much new data a handler sends, whether it
  retransmits) is a choice. `m_priorRcvNxtFlag`, which the copy
  constructor does not set, begins as either value. Kept as history: the
  codepoint each segment was accepted with, the kind of ACK that first
  acknowledged it, which of the segments not yet acknowledged were received
  in the CE state, and whether the last ACK was a rewound one.
* `ListScheduler`, `HeapScheduler`, `CalendarScheduler`: the schedulers as
  operators on their data, heap positions, days and years, resizing and the
  sampling of the width included; an event is its time and its id.
* `EventQueue`: the abstract specification of a simulator with any scheduler:
  what runs next is the earliest and oldest event; every event scheduled or
  handed over comes to wait, none in the past; and it leaves only by running or
  by being withdrawn, which marks its uid, so that an event lost on the way in or while it
  waits is no behaviour of it.
* `DefaultSimulatorImpl`: the simulator over a scheduler that may be changed
  while events wait. The program acts between Runs and within events. Handing
  over an event from another thread is two steps in a critical section
  (`Push`, `Pushed`), since the main thread reads the flag outside it.
* `RealtimeSimulatorImpl`: each critical section of the code is one step; the
  plan of a wait, `Synchronize`, the sleep on the condition and the spin are
  steps between which the clock ticks and a thread schedules events. The clock
  may tick any number of times between two steps, as when the operating system
  runs something else. The deadline of the sleep is kept in seconds and nanoseconds, with the
  carry as the code does it.
* `TestPy`: `run_tests` (`QueueJob`, `QueueBreak`, `AllQueued`, `Collect`,
  `Exit`) and the workers, one step between any two uses of the queues or of
  `thread_exit`. Children pass, fail, crash, print what cannot be decoded, or
  are not launched at all (`Raise`).
* `PyViz`: the view and the simulation thread. The handlers of the view are a
  stack, since the timeout runs Gtk events while it waits for the lock; what the
  view does under the lock is one step, since the thread touches none of it
  without the lock. Times count from `Simulator::Now`, so nothing grows.
* `MCRed`, `MCRedFront`, `MCRedMM`, `MCPointToPoint`: the values of constants
  that configurations cannot write. The other modules are run as they are: their
  constants are numbers and model values.
* `QueueDiscProofs`, `RedQueueDiscProofs`, `DctcpSocketProofs`,
  `PointToPointProofs`, `DefaultSimulatorProofs`, `RealtimeSimulatorProofs`,
  `TestPyProofs`, `PyVizProofs`: proofs.

A definition that begins with the name of another one and is commented
`Mutant` is a plausible bug: replacing the definition after it by it breaks a
property.

## Runs

| Run | Configuration | Shows |
|---|---|---|
| `red` | one device queue, random peek, capable senders, QW = 1, Wait | `NoStall`, `EachMarkCountedOnce`, `EarlySignalsSpaced`, `ForcedArrivalSignals`, `CapableLostOnlyWhenFull` |
| `red_multiqueue` | two device queues, bytes, averaged, gentle, hard drops, quota 2, all senders | `TypeOK`, `StatisticsAgree`, `SentCounterExact`, `ImplementsAqmQueue` |
| `red_front` | front marking over two device queues, all senders | `SentCounterExact`, `ImplementsAqmQueue` |
| `red_mm` | moderate marking, capable senders | `NoStall`, `StatisticsAgree` |
| `p2p` | FIFO on a point-to-point device, byte limits | `NeverRequeued`, `StopHasWaker`, `WorkConserving`, `DeviceConserves`, `ImplementsAnyDevice`, `EveryPacketLeaves` |
| `dctcp` | data both ways, losses and duplicates | `BufferExact`, `OnlyOneLeftOut`, `OnlyRewindingUntimed`, `EchoOnlyMarks`, `OncePerWindow` |
| `simulator` | list, heap and calendar, changed on the way; removals from list and calendar; one thread | `ExpiredExact`, `FlagTracksList`, `ImplementsEventQueue` |
| `realtime` | one Run, a thread, three events | `NoOversleep`, `NothingInThePast`, `EveryEventRuns` |
| `testpy` | two workers, four jobs, SIGINT | `ExitSound`, `NoJobLeftBehind`, `StopsAfterInterrupt`, `SpoiltOnlyByGarbledCrash`, `RunEnds` |
| `pyviz` | three timers, handlers nested twice | `NoLostRequest`, `ModelNotAheadOfView`, `PlayingHasTimer`, `PausesExact`, `QuitCompletes` |

and the runs that end in a violation, each a finding:

| Run | Violates | Because |
|---|---|---|
| `dctcp_echo` | `MarksEchoed` | the early ACK is one segment short, so marks move to the segment before |
| `heap_remove` | `TimeMonotone` | `HeapScheduler::Remove` lets the element that fills the gap sink, never rise; seven events are enough for a later one to run first |

Four more disagreements were found with the models and have no run of their
own; each can be seen by changing one constant or one property of a configuration:

* `MCRed` with senders of both kinds breaks `CapableLostOnlyWhenFull`: with
  `UseRandomPeek` the arriving packet pays for a random one that cannot be marked
  (red-queue-disc.cc:451).
* `MCRedFront` with senders of both kinds breaks `NoStall`: a drop on departure
  ends the `Run` (red-queue-front-disc.cc:817).
* `MCRedMM` with senders of both kinds breaks `StatisticsAgree`: a dequeued packet
  is reported as dropped before enqueue (red-queue-mm-disc.cc:840).
* `MCPointToPoint` in bytes with a device queue smaller than the MTU and the PPP
  header breaks `StopHasWaker`: the discard of a frame by an idle device stops
  its queue for good (net-device-queue-interface.h:381). The proof needs the
  opposite as its assumption `RoomForOne`.

### Bounds

Packets handed to the queue disc (`MaxPackets`, 3 to 8) exceed the capacity of
the queue, so every branch on a full queue is reached, and the threshold, so
that forced marks meet packets already marked. `MaxRunEvents` bounds the Run
events pending; one wake may schedule two. `MaxCount` is above what the packets
of a run can reach. `Quota` is 64 as in the code, except in `red_multiqueue`
where 2 makes it run out. `red_multiqueue` and `red_front` have
two device queues, one of which may be stopped while `Run` goes on for the other, so that
packets are held, in `red_front` also with a mark set on departure. Sizes are in units (1 or 2), enough for a packet that
fits where another does not. In `p2p` the device queue holds two packets and
the limits are cut at 4 units, so that both kinds of stop occur, also together.
In `red`, with the thresholds 0 and 3 and `LInterm` 2, the fifth packet is the first that can
have an early mark and the eighth the first that can have a second one.
In `dctcp` three segments with an ACK for every third one give every order of
marked, unmarked, held and acknowledged data with one segment ahead of a gap, also
of data in both states held at once,
and three segments of its own let the socket answer an echo twice. The
violation uses a path that loses nothing, to show that it needs no loss.
In `simulator` four events over delays of 0 to 2 make the calendar look into the
next year, fall to one day and grow to two again, and one change of the
scheduler moves events between any two of the three; one event is in the hands of the
other thread at a time. `heap_remove` needs seven events; with six and these delays the misplaced element always
reaches the root in time. In `realtime` `SpinJiffies` and
`IdleDelay` are small numbers for the 3 jiffies and the second of the code, such
that a delay of 3 has both a sleep and a spin; no deadline falls on a whole
`Second` (100), see the hazard at unix-system-condition.cc:186. In
`testpy` one of the four jobs is to be skipped, one is an example and two
are suites, so that a worker may die, the other may crash and one job still waits. In
`pyviz` two handlers nest and three timers exist, so that the timer of a
handler that waits may be removed, replaced and end after its successor began;
`MaxUnshown` is the number of messages not yet shown. The sample period is 2 throughout, so the speed
button restarts the timer and changes nothing else in this run (with the periods 1 and 2 the same
properties hold, in three times as many states); `PyVizNotAheadOfView` is proved for all
periods and their changes.

### Fairness

`FairSpec` of a module is its specification with the fairness its scheduling
justifies; the safety properties of the same run do not use it.

* `PointToPointNetDevice`: weak fairness of the turns of `Run`, of the scheduled
  Run events and of the end of a transmission. The loop of `Run` is plain code,
  and the simulator runs every event that is scheduled. Arrivals are not fair.
* `RealtimeSimulatorImpl`: weak fairness of the clock and of the main loop. What
  the program or a thread schedules is not fair, nor is `Stop`.
* `TestPy`: weak fairness of the main thread and of each worker, the end of a
  child included: a child that never ends hangs the runner, which has no timeout. A
  worker that dies (`Raise`) and SIGINT are not fair; `RunEnds` excepts the
  run in which a worker died, since its job never comes back.
* `PyViz`: weak fairness of the thread, of the simulated time within a run and of
  each handler that has begun. Strong fairness of `Pumped`: the events
  pending in the loop of `update_view_timeout` run out again and again,
  because timers are a tenth of a second apart, so that the lock is tried again. Clicks
  are not fair.

### Deadlock

The check is on except in the runs of `PointToPointNetDevice`, where a node
that received and transmitted its last packet stops; of `DctcpSocket` on a path
without duplicates, which falls silent when all data has been exchanged; of
`DefaultSimulatorImpl` and `RealtimeSimulatorImpl`, where the program ends after its last
event or Run; and of `TestPy`, which exits, or waits for ever after a worker died. In
`PyViz` the end of the program is a step (`Terminated`), so any other stop is an error.

## Proofs

The theorems hold for every value of the constants that the assumptions of the
modules allow; where a theorem assumes more, its statement says so and so does
this section. The modules of proofs have one lemma for each action or function of the
code, so that a change to one reopens its lemma only.

### The queue discs

`QueueDiscProofs` holds the steps that do not depend on the discipline: an
arrival whose packet is enqueued or dropped (`ArrivalInv`), a departure
(`DepartureInv`), an empty dequeue, and the steps of the base class and the
device (`BaseNextInv`). A discipline proves that its `DoEnqueue` and `DoDequeue` are
of these forms. For the refinement of `AqmQueue` there is a second row of
lemmas: `ArrivalRefines`, `DepartureRefines`, `RestartHeldRefines` and `BaseNextRefines` show
which step of the abstract queue each is, or that it is none. They need to know
that the packets in the queue disc are numbered in the order they came, each
number once and none above the number of arrivals (`IdsInv`), which makes the packet
that the abstract queue drops unique.

`RedQueueDiscProofs` proves of RED, from `BaseAssumption`, `RedAssumption` and
`PeekAssumption`:

* that it is well typed (`RedTypeOK`), its statistics agree (`RedStatisticsAgree`,
  `RedSentCounterExact`) and it never sleeps on a packet (`RedNoStall`). The inductive
  invariant `IInv` adds that no peek is in progress (RED does not use the base
  class's Peek); `NoStall` is inductive with the types because it is stated with
  `running`: a `Run` may hold packets, and `TransmitStep` shows that when it ends for
  another reason than its quota the queue is empty or a device queue is stopped;
* that it implements the abstract queue (`RedImplementsAqmQueue`), from `IInv` and
  `IdsInv`;
* `RedEachMarkCountedOnce`, which assumes that senders send no packet with the CE
  mark. Every arrival ends in one of three ways (`Outcome`): no mark, the arrival
  marked, or a waiting packet marked that was not; in each the counter and the number of
  marked packets grow by the same (`OutcomeMarks`);
* `RedCapableLostOnlyWhenFull`, with ECN and without hard drops, and either no random
  peek or no sender that cannot be marked. It needs `Fresh`: what waits in the queue is as
  its sender sent it but for the mark, in particular without a header, which is what
  `Mark` looks at. With both kinds of senders and a random peek it is false, as
  said under Runs;
* `RedForcedArrivalSignals`, with ECN, no hard drops and capable senders: the
  arrival adds exactly one mark, also when the packet drawn is marked already, for
  then the arrival is marked in its place, and also when there is no room for the arrival.
  A sender that cannot be marked has its packet dropped, a signal this property does
  not count;
* `RedEarlySignalsSpaced`, with `IsWait`, `InstantQueue`, packets, and not gentle: the
  probability is then linear in the queue, and early marks are made below MaxTh
  only. It says that between any two early marks, and before the first, more than
  `LInterm` packets arrive; two on successive arrivals are the worst case it
  excludes. The code computes the probability in floating point and the model in integers; the
  theorem is about the latter. That an early mark needs a count above `LInterm`
  (`EarlyMarkWaits`) is an inequality of products (`ProductOrder`,
  `SpacingArithmetic`); the invariant (`SpacingInv`) adds `SinceEarly`: the count, which
  the code also starts anew when the average comes to `MinTh`, is never more
  than the arrivals since the last early mark;

The extra assumptions are the settings of the data-centre scenarios (`UseEcn`, the
queue itself as its average, DCTCP at every sender) and hold in the run `red`.

The same module then proves of the two variants that run the algorithm on departures:

* that they are well typed and implement the abstract queue, for every value of the
  constants and every kind of sender (`FrontTypeOK`, `FrontImplementsAqmQueue`, `MMTypeOK`,
  `MMImplementsAqmQueue`). A departure is one of two steps: the head sent from a queue in which
  packets may have been marked (`DepartureSent`), or the head dropped (`DepartureDropped`, or for the
  moderate variant a drop reported as one before enqueue). For `RedQueueMMDisc` the invariant
  `MMTypes` leaves the statistics out, since with senders that cannot be marked it counts
  wrongly and still keeps the order;
* of the front variant that its statistics agree (`FrontStatisticsAgree`,
  `FrontSentCounterExact`) with any senders: its drop comes after a dequeue that was counted,
  and is counted as such;
* of the moderate one the same (`MMStatisticsAgree`, `MMSentCounterExact`), but with ECN, no hard
  drops and no sender that cannot be marked. Without these it is false, as said
  under Runs; with them `Fresh` shows that the branch that reports the wrong drop is never taken;
* `FrontNoStall` and `MMNoStall`, under those three assumptions for both: a drop on departure
  returns no packet, which ends the `Run` in front of the packets behind it. So `NoStall` is
  not in `DepartureIInv`, the invariant of any senders, and is added to it in
  the two theorems;
* `FrontCapableLostOnlyWhenFull` and `MMCapableLostOnlyWhenFull`. The front variant needs no
  assumption on the senders, since it drops the packet it could not mark, where the moderate one
  drops the departing packet for a random one;
* `FrontEarlySignalsSpaced` and `MMEarlySignalsSpaced`, from the same lemmas as RED
  (`DecideSpaced`), in departures for arrivals, with any senders;
* `FrontEachMarkCountedOnce`, for senders that send no CE: nothing in the queue has a mark
  (`Unmarked`), and what is held is sent without another look. The moderate variant marks
  the tail without a look at it (red-queue-mm-disc.cc:868) and has no such theorem.

`PointToPointProofs` proves that the composition of a FIFO queue disc with the
flow control interface, the byte limits and the device implements the open device of
`QueueDisc` (`PointToPointImplementsAnyDevice`): the loop of `Run` is the same, the
flag the queue disc sees is the interface's, and every callback of the device is one
of the stops and wakes an open device may make. From `QueueDiscProofs` it follows that the
statistics agree and that no packet is left behind by `Run` on this device
(`PointToPointStatistics`), and that it implements the abstract queue
(`PointToPointImplementsAqmQueue`). The invariant `NodeInv` says that the queue disc sees the
interface as it is, that the transmitter never idles, and, in `Agree`, that the byte
limits count just what is in the device queue; the lemmas on bytes count units of
packets as a set, since a sum over a sequence has no induction here. It gives
`PointToPointNeverRequeued`, `PointToPointWorkConserving` and, with one more
conjunct on why a queue is stopped, `PointToPointStopHasWaker`. That last theorem
assumes `RoomForOne`: an empty device queue takes a frame of the size of the MTU.
Without it the theorem is false, as said above.
`PointToPointDeviceConserves` takes two more invariants. `OrderInv`: numbers grow along
the queue disc, and every packet in it is newer than every packet given to the device.
`CarriedInv`: what the device was given is what it took (on the wire, in transmission, in its
queue, in this order) and what it refused. `Send` may put a packet straight into the
transmitter only because the device queue of an idle device is empty
(`WorkConserving`); otherwise it would overtake.

### The DCTCP socket

`DctcpSocketProofs` assumes `SocketAssumption` alone: the constants are numbers. Its first
invariant (`SocketInv`, for `DctcpEchoesOnlyMarks`) is the property with the types.

The second (`DataInv`) is about data. `Buffer` gives `DctcpBufferExact`; that an early ACK
leaves `NextRxSequence` where it was is a property of the call as a whole, so the lemmas
say of each call whether it touches the receiver's data (`Quiet`, `Sends`). Filling a gap
moves `NextRxSequence` to the first segment missing after it; that there is a first
one is `LeastNatural`, from the well-foundedness of the naturals. `Timed` gives
`DctcpOnlyRewindingUntimed`: what waits for its acknowledgement has a timer unless a rewound
ACK was the last to go. `SenderInv` gives `DctcpOncePerWindow`: the sequence number of
the last reduction is the one CWR was sent with, and an echo counts only
when it is above it.

The third (`CeInv`) is about the CE state that waiting data was received in, and gives
`DctcpOnlyOneLeftOut`. The property says just what the early ACK achieves: `m_priorRcvNxt` is
one segment behind (the finding of `dctcp_echo`), so the rewound ACK leaves one segment of
the old state, the oldest that waits (`OneLeft`), and the next ACK answers for it
along with the new ones; more than that one it never leaves. `Recent`: what waits is at
or before `m_priorRcvNxt`, so the rewinding leaves only its last segment out. `Reserved`: while
data waits the congestion control knows of the held acknowledgement, and `m_priorRcvNxtFlag` has been
set. Without it the early ACK might be left out when the CE state changes, since the flag
begins with either value; it holds because `ForwardUp` raises a CE event for every
packet before its data is taken (`CeEventReady` comes before `ReceivedDataCe` in
`ForwardUpCe`). `Held` keeps the history within what was received.

### The simulators, the visualiser and the runner

`DefaultSimulatorProofs` proves of the simulator over the list scheduler (`Types = {"list"}`, so
that `SetScheduler` installs another list) that it implements `EventQueue`
(`SimulatorImplementsEventQueue`), that `IsExpired` is exact (`SimulatorExpiredExact`) and that time
does not go back (`SimulatorTimeMonotone`), for every delay and number of events. The refinement
covers the way in as well as the way out: `uid`, the list of events handed over
and the cancelled uids are part of the abstract state, so a step that
numbered an event and did not insert it, or dropped one from either list, would be no
step of `EventQueue`. The map scheduler, the default, is not modelled. The lemmas go from sequences (`InsertAtElements`) to a list in the
order of keys (`ListInsertOrdered`, `ListHead`, `ListRemoveOrdered`) to the operations of
`Scheduler` (`InsertInList`, `NextInList`, `RemoveInList`), which are all the invariant needs: a
proof for another scheduler would replace these three and `NewList`. The invariant, `ScheduleInv`,
is that whatever waits comes after the present event and has a smaller uid than the next one
to be given, and that of the EventIds the program holds just the ones after the present are
waiting, unless cancelled. `SetScheduler` and the taking of events from other threads are
loops, recursive functions in the model; `RecursionDefines` shows from the least number
without one that such a function exists and stays within what each step allows, since
the induction rule of the library cannot be used. Over the heap and the calendar the same
properties are only model-checked, and over the heap with `Remove` they are false (`heap_remove`); the run
`simulator` removes from the other two.

It also proves, for all the schedulers, `SimulatorFlagTracksList`: `FlagInv` says that in the
critical section of the other thread the event is in the list before the flag says so.

`RealtimeSimulatorProofs` proves `RealtimeNoOversleep` from the types alone: the plan of
a wait is the time to the earliest event, and every insertion sets the condition
after the plan has cleared it, in one critical section each. `RealtimeNothingInThePast`
needs `TimeInv`: while waiting for a time, some event is due by then (it may not be the one
planned for, and only the main thread removes events), so that the event taken is due, so
that the last event is never ahead of real time, at which threads schedule. It assumes
`MaxRuns = 1`: in a second Run the origin is set anew and the theorem is false
(wall-clock-synchronizer.cc:111 ignores the simulation time it is given).

`TestPyProofs` proves `TestPyStopsAfterInterrupt` (`InterruptInv`: a worker that launched
after the interrupt is past the check it would have to pass again) and
`TestPyNoJobLeftBehind` (`QueueInv`: breaks are behind all jobs in the queue, and
nothing is queued after the first break). `TestPyExitSound` and
`TestPySpoiltOnlyByGarbledCrash` rest on `JobInv`: a job is in one place at a time, queued,
with one worker, in the output queue or collected (`PlaceInv`); what came back ran, was
skipped, or is a break (`RanInv`); and the counters are the numbers of jobs collected
with that outcome (`CountInv`), so that they reach the number of jobs only when every
job was collected.

`PyVizProofs` proves `PyVizNotAheadOfView` (`AheadInv`: during a run its target is the
shared one, and the callback that stops it there is scheduled), `PyVizNoLostRequest`
(`RequestInv` follows the request from the view to the thread that reads it),
`PyVizPlayingHasTimer`, which is inductive as it stands, the types, and
`PyVizPausesExact`: only the handler on top of the stack may be on its way to show messages,
so a handler that nests within another leaves it none to lose.

### What is only model-checked

* `ExpiredExact` and `ImplementsEventQueue` of the simulator over the heap and the calendar: they
  rest on what recursive functions over sequences compute for heaps of any size, and on the
  search through the days of a calendar whose width is sampled.
* Liveness (`EveryPacketLeaves`, `EveryEventRuns`, `RunEnds`, `QuitCompletes`), which is
  beyond the prover.

## Not modelled

The statistics in bytes and per reason; Peek of the base class; the adaptation
of the maximum probability (ARED, Feng) and the experimental options of RED; what
`RedQueueMMDisc` does with a size in bytes after it read a null pointer (the model takes no
step there); counters that wrap; a link that is down; the installation and removal of queue discs; the
receive path below TCP. That RED's `m_idle` is never set (`Run` ends before
`DoDequeue` sees the empty queue) is modelled and has no property. Of TCP: the windows and
their arithmetic, recovery and the scoreboard, the handshake and the close, a
receive window that is full, DCTCP's estimate alpha; IPv6, whose handler lacks
only the test for `ECN_DISABLED`. Of the simulators: destroy events, `SYNC_HARD_LIMIT`, a
`Stop` from another thread (which does not signal the wait, realtime-simulator-impl.cc:497),
the distributed ones. Of the visualiser: what it draws and records, `autoscale_view`
(which reads the simulation without the lock), plugins and the shell. Of `test.py`: the
build, the choice of suites, the reports and the verdicts of valgrind.

Most lines counted as implementation are the Python bindings
(`bindings/modulegen__gcc_*.py`, about 700,000 lines): lists of declarations generated from the
headers, in two copies, without state or control of their own. There is nothing in them to
model, so the share of all lines that is mapped stays small whatever of the simulator is.
PROJECT.json lists every component, and the hazards no property covers yet.

## Plan

1. `DctcpSender`: `PktsAcked` and `Reset` (windows of observation, alpha between 0
   and 1), and two `DctcpSocket`s with a channel, so that the sender's fraction of marked
   segments is compared with the true one.
2. `CoDelQueueDisc` and `TbfQueueDisc`: Peek of the base class, drops inside a peek,
   the watchdog; the statistics with a packet held by a peek.
3. `TcpTxBuffer` and `TcpRxBuffer`: scoreboard and reassembly.
4. Proofs: the calendar without resizing (its buckets are the lists of the proof above, and
   `DaysDue` can be reasoned about without recursion), so that
   `SimulatorImplementsEventQueue` covers it; `NextRxSequence` and acknowledgements of `DctcpSocket` as an
   abstract receiver it implements.
