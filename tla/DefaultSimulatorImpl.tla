------------------------ MODULE DefaultSimulatorImpl ------------------------
(***************************************************************************)
(* ns3::DefaultSimulatorImpl (core/model/default-simulator-impl.cc) over   *)
(* the schedulers of core/model.  The main thread runs the events; another *)
(* thread may hand over events with a context, which the main thread takes *)
(* in after each event.  An event that runs, and the program between two   *)
(* Runs, may schedule, remove and cancel events, change the scheduler and  *)
(* stop the simulation.                                                    *)
(***************************************************************************)
EXTENDS Naturals, Sequences, FiniteSets, HeapScheduler, CalendarScheduler

CONSTANTS
  Types,        \* the schedulers SetScheduler may install
  RemovableIn,  \* those from which the program also removes events
  Delays,       \* the delays of the events scheduled
  MaxEvents,    \* bound on the events scheduled
  MaxPending,   \* bound on the events handed over and not yet taken in
  MaxSwitches   \* bound on the calls of SetScheduler

ASSUME SimulatorAssumption ==
  /\ Types \subseteq {"list", "heap", "calendar"} /\ Types # {}
  /\ RemovableIn \subseteq Types
  /\ Delays \subseteq Nat
  /\ MaxEvents \in Nat /\ MaxPending \in Nat /\ MaxSwitches \in Nat

VARIABLES
  events,        \* m_events: a scheduler, its type and contents
  uid,           \* m_uid
  currentTs,     \* m_currentTs
  currentUid,    \* m_currentUid
  unscheduled,   \* m_unscheduledEvents
  stop,          \* m_stop
  pc,            \* where the main thread is
  withContext,   \* m_eventsWithContext, the delays
  noneWithContext,  \* m_eventsWithContextEmpty
  pushing,       \* another thread holds m_eventsWithContextMutex
  ids,           \* the EventIds the program holds
  cancelled,     \* uids of the events whose EventImpl is cancelled
  switches       \* calls of SetScheduler so far

vars == <<events, uid, currentTs, currentUid, unscheduled, stop, pc, withContext,
          noneWithContext, pushing, ids, cancelled, switches>>

handed == <<withContext, noneWithContext, pushing>>
clock == <<currentTs, currentUid>>

-----------------------------------------------------------------------------
(* Scheduler, as a record of its type and its data. *)

NewScheduler(type) ==
  [type |-> type, data |-> IF type = "calendar" THEN NewCalendar ELSE <<>>]

Insert(s, ev) ==
  [s EXCEPT !.data = CASE s.type = "list" -> ListInsert(@, ev)
                       [] s.type = "heap" -> HeapInsert(@, ev)
                       [] s.type = "calendar" -> CalendarInsert(@, ev)]

PeekNext(s) ==
  CASE s.type = "list" -> Head(s.data)
    [] s.type = "heap" -> HeapPeek(s.data)
    [] s.type = "calendar" -> CalendarPeek(s.data)

RemoveNext(s) ==
  [s EXCEPT !.data = CASE s.type = "list" -> Tail(@)
                       [] s.type = "heap" -> HeapRemoveNext(@)
                       [] s.type = "calendar" -> CalendarRemoveNext(@)]

RemoveEvent(s, ev) ==
  [s EXCEPT !.data = CASE s.type = "list" -> ListRemove(@, ev)
                       [] s.type = "heap" -> HeapRemove(@, ev)
                       [] s.type = "calendar" -> CalendarRemove(@, ev)]

EventsOf(s) ==
  IF s.type = "calendar" THEN CalendarEvents(s.data) ELSE ListEvents(s.data)

IsEmpty(s) == EventsOf(s) = {}

-----------------------------------------------------------------------------
Init ==
  /\ events \in {NewScheduler(t) : t \in Types}
  /\ uid = 4 /\ currentTs = 0 /\ currentUid = 0 /\ unscheduled = 0
  /\ stop = FALSE /\ pc = "outside"
  /\ withContext = <<>> /\ noneWithContext = TRUE /\ pushing = FALSE
  /\ ids = {} /\ cancelled = {} /\ switches = 0

\* The bound on the events scheduled.
Room == uid + Len(withContext) < 4 + MaxEvents

\* The main thread executes the program's code: in an event or between Runs.
InProgram == pc \in {"outside", "invoke"}

\* Mutant: an event is not expired before the next one runs.
IsExpiredLate(id) ==
  \/ id.ts < currentTs
  \/ id.ts = currentTs /\ id.uid < currentUid
  \/ id.uid \in cancelled

IsExpired(id) ==
  \/ id.ts < currentTs
  \/ id.ts = currentTs /\ id.uid <= currentUid
  \/ id.uid \in cancelled

\* Schedule, ScheduleNow when d is 0, ScheduleWithContext on the main thread.
Schedule(d) ==
  /\ InProgram
  /\ Room
  /\ LET ev == [ts |-> currentTs + d, uid |-> uid]
     IN  events' = Insert(events, ev) /\ ids' = ids \cup {ev}
  /\ uid' = uid + 1
  /\ unscheduled' = unscheduled + 1
  /\ UNCHANGED <<clock, stop, pc, handed, cancelled, switches>>

Remove(id) ==
  /\ InProgram /\ events.type \in RemovableIn /\ ~IsExpired(id)
  /\ events' = RemoveEvent(events, id)
  /\ cancelled' = cancelled \cup {id.uid}
  /\ unscheduled' = unscheduled - 1
  /\ UNCHANGED <<uid, clock, stop, pc, handed, ids, switches>>

Cancel(id) ==
  /\ InProgram /\ ~IsExpired(id)
  /\ cancelled' = cancelled \cup {id.uid}
  /\ UNCHANGED <<events, uid, clock, unscheduled, stop, pc, handed, ids, switches>>

Stop ==
  /\ InProgram
  /\ stop' = TRUE
  /\ UNCHANGED <<events, uid, clock, unscheduled, pc, handed, ids, cancelled, switches>>

\* The events move, the next one first, to a scheduler of the new type.
Moved(type) ==
  LET n == Cardinality(EventsOf(events))
      moved[k \in 0 .. n] ==
        IF k = 0 THEN [from |-> events, to |-> NewScheduler(type)]
        ELSE [from |-> RemoveNext(moved[k - 1].from),
              to |-> Insert(moved[k - 1].to, PeekNext(moved[k - 1].from))]
  IN  moved[n].to

SetScheduler(type) ==
  /\ InProgram /\ switches < MaxSwitches
  /\ events' = Moved(type)
  /\ switches' = switches + 1
  /\ UNCHANGED <<uid, clock, unscheduled, stop, pc, handed, ids, cancelled>>

-----------------------------------------------------------------------------
(* ScheduleWithContext on another thread: push_back and the flag, both in  *)
(* the critical section; the main thread reads the flag outside it.        *)

Push(d) ==
  /\ ~pushing
  /\ Len(withContext) < MaxPending
  /\ Room
  /\ pushing' = TRUE
  /\ withContext' = Append(withContext, d)
  /\ UNCHANGED <<events, uid, clock, unscheduled, stop, pc, noneWithContext,
                 ids, cancelled, switches>>

Pushed ==
  /\ pushing
  /\ pushing' = FALSE
  /\ noneWithContext' = FALSE
  /\ UNCHANGED <<events, uid, clock, unscheduled, stop, pc, withContext,
                 ids, cancelled, switches>>

\* ProcessEventsWithContext: nothing to do, or on to the critical section.
ReadFlag == pc' = IF noneWithContext THEN "loop" ELSE "swap"

\* Mutant: the flag is left when the events are taken.
SwapFlagged == withContext' = <<>> /\ UNCHANGED noneWithContext

\* The critical section of ProcessEventsWithContext.
Swap == withContext' = <<>> /\ noneWithContext' = TRUE

\* The events handed over are scheduled at the time it is now.
Taken ==
  LET taken[k \in 0 .. Len(withContext)] ==
        IF k = 0 THEN events
        ELSE Insert(taken[k - 1], [ts |-> currentTs + withContext[k], uid |-> uid + k - 1])
  IN  taken[Len(withContext)]

TakeIn ==
  /\ pc = "swap" /\ ~pushing
  /\ events' = Taken
  /\ uid' = uid + Len(withContext)
  /\ unscheduled' = unscheduled + Len(withContext)
  /\ Swap
  /\ pc' = "loop"
  /\ UNCHANGED <<clock, stop, pushing, ids, cancelled, switches>>

-----------------------------------------------------------------------------
(* Run. *)

Run ==
  /\ pc = "outside"
  /\ ReadFlag
  /\ stop' = FALSE
  /\ UNCHANGED <<events, uid, clock, unscheduled, handed, ids, cancelled, switches>>

\* ProcessOneEvent, up to the call of Invoke.
ProcessOneEvent ==
  /\ pc = "loop" /\ ~IsEmpty(events) /\ ~stop
  /\ LET next == PeekNext(events)
     IN  currentTs' = next.ts /\ currentUid' = next.uid
  /\ events' = RemoveNext(events)
  /\ unscheduled' = unscheduled - 1
  /\ pc' = "invoke"
  /\ UNCHANGED <<uid, stop, handed, ids, cancelled, switches>>

\* The event returns.
Invoked ==
  /\ pc = "invoke"
  /\ ReadFlag
  /\ UNCHANGED <<events, uid, clock, unscheduled, stop, handed, ids, cancelled, switches>>

RunEnds ==
  /\ pc = "loop" /\ (IsEmpty(events) \/ stop)
  /\ pc' = "outside"
  /\ UNCHANGED <<events, uid, clock, unscheduled, stop, handed, ids, cancelled, switches>>

Program ==
  \/ \E d \in Delays : Schedule(d)
  \/ \E id \in ids : Remove(id) \/ Cancel(id)
  \/ Stop
  \/ \E t \in Types : SetScheduler(t)

MainLoop == ProcessOneEvent \/ Invoked \/ TakeIn \/ RunEnds

Next == Program \/ Run \/ MainLoop \/ (\E d \in Delays : Push(d)) \/ Pushed

Spec == Init /\ [][Next]_vars

-----------------------------------------------------------------------------
\* Whatever the scheduler does to find it and however it is rearranged, the
\* event that runs next is the earliest and, among those, the oldest.  Every
\* event that Schedule numbers or a thread hands over comes to wait, and leaves
\* in no other way than by running or by the Remove that marks its EventId.
Promise == INSTANCE EventQueue
             WITH queue <- EventsOf(events), last <- [ts |-> currentTs, uid |-> currentUid],
                  nextUid <- uid, given <- withContext, withdrawn <- cancelled
ImplementsEventQueue == Promise!Spec

\* An EventId is expired, to IsExpired which has the current event to go by
\* and not the queue, just when its event has run, was removed or cancelled:
\* Remove never looks in the scheduler for an event that is not there.
ExpiredExact ==
  \A id \in ids : IsExpired(id) <=> id \notin EventsOf(events) \/ id.uid \in cancelled

\* Out of the critical section the flag that the main thread reads without
\* the lock tells whether events were handed over.
FlagTracksList == ~pushing => (noneWithContext <=> withContext = <<>>)

\* Simulation time does not go back (the assertion of ProcessOneEvent).
TimeMonotone == [][currentTs' >= currentTs]_vars
=============================================================================
