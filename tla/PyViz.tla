------------------------------- MODULE PyViz -------------------------------
(***************************************************************************)
(* The visualiser: the Visualizer and its SimulationThread                 *)
(* (visualizer/visualizer/core.py) over the helper ns3::PyViz              *)
(* (visualizer/model/pyviz.cc).  The view runs in the Gtk main loop; the   *)
(* simulation runs one sample period at a time in a thread of its own.     *)
(* They share a lock, the event go, a target time and a list of messages.  *)
(* While the simulation holds the lock, update_view_timeout runs the Gtk   *)
(* events itself: handlers nest, and the stack of the view is a variable.  *)
(*                                                                         *)
(* What the view does under the lock is one step, since the thread touches *)
(* none of it without the lock; any other statement on shared state is a   *)
(* step of its own.  Times count from Simulator::Now, so nothing grows.    *)
(***************************************************************************)
EXTENDS Integers, FiniteSets, Sequences

CONSTANTS
  Periods,       \* values of sample_period, set by the speed button
  Timers,        \* the ids of Gtk timers, reused once nothing refers to them
  None,          \* no timer
  MaxDepth,      \* bound: timeouts nested in one another
  MaxUnshown     \* bound: pause messages nobody has seen yet

ASSUME PyVizAssumption ==
  /\ Periods \subseteq Nat \ {0} /\ IsFiniteSet(Periods) /\ Periods # {}
  /\ IsFiniteSet(Timers) /\ None \notin Timers
  /\ MaxDepth \in Nat /\ MaxUnshown \in Nat

VARIABLES
  pc,          \* where the simulation thread is
  go, quit,    \* SimulationThread.go, .quit
  target,      \* .target_time, from Now
  period,      \* Visualizer.sample_period
  playing,     \* play_button.get_active ()
  live,        \* the timers Gtk knows
  timerId,     \* Visualizer._update_timeout_id
  stack,       \* the handlers of the view, the innermost first
  mainQuit,    \* Gtk.main_quit () was called
  idles,       \* calls of update_model queued by GLib.idle_add
  messages,    \* PyViz::m_pauseMessages, their number
  unread,      \* SimulationThread.pause_messages, their number
  until,       \* PyViz::m_runUntil, from Now
  dummies,     \* the CallbackStopSimulation events scheduled, from Now
  asked,       \* history: go was set for a target no run has read yet
  ahead, granted,   \* history: Now - the time of the last view, its period
  unshown      \* history: pause messages raised and not shown

thread == <<pc, until, dummies, messages>>
gtk    == <<playing, live, timerId, period>>
hist   == <<asked, ahead, granted, unshown>>
vars   == <<pc, go, quit, target, period, playing, live, timerId, stack,
            mainQuit, idles, messages, unread, until, dummies, asked, ahead,
            granted, unshown>>

\* SimulationThread.lock, as the thread holds it.
Locked == pc \in {"run", "extend"}

Handler(at, timer, taken) == [at |-> at, timer |-> timer, taken |-> taken]

Init ==
  /\ pc = "loop" /\ go = FALSE /\ quit = FALSE /\ target = 0
  /\ period \in Periods /\ playing = FALSE /\ live = {} /\ timerId = None
  /\ stack = <<>> /\ mainQuit = FALSE /\ idles = 0 /\ messages = 0 /\ unread = 0
  /\ until = 0 /\ dummies = {}
  /\ asked = FALSE /\ ahead = 0 /\ granted = 0 /\ unshown = 0

-----------------------------------------------------------------------------
(* The simulation thread: run, one statement after another.                *)

ThreadGoes(from, to) == pc = from /\ pc' = to

Loop ==
  /\ pc = "loop" /\ pc' = IF quit THEN "done" ELSE "wait"
  /\ UNCHANGED <<go, quit, target, gtk, stack, mainQuit, idles, messages,
                 unread, until, dummies, hist>>

Wait ==
  /\ ThreadGoes("wait", "clear") /\ go
  /\ UNCHANGED <<go, quit, target, gtk, stack, mainQuit, idles, messages,
                 unread, until, dummies, hist>>

Clear ==
  /\ ThreadGoes("clear", "check") /\ go' = FALSE
  /\ UNCHANGED <<quit, target, gtk, stack, mainQuit, idles, messages,
                 unread, until, dummies, hist>>

Check ==
  /\ pc = "check" /\ pc' = IF quit THEN "done" ELSE "acquire"
  /\ UNCHANGED <<go, quit, target, gtk, stack, mainQuit, idles, messages,
                 unread, until, dummies, hist>>

\* Mutant: the messages are cleared after the early return.
RunUntilKeeping ==
  IF target > 0
  THEN pc' = "run" /\ until' = target /\ dummies' = dummies \union {target} /\ messages' = 0
  ELSE pc' = "extend" /\ UNCHANGED <<until, dummies, messages>>

\* SimulatorRunUntil, as far as the Run of the simulator: with the target
\* behind it, it returns at once.
RunUntil ==
  /\ messages' = 0
  /\ IF target > 0
     THEN pc' = "run" /\ until' = target /\ dummies' = dummies \union {target}
     ELSE pc' = "extend" /\ UNCHANGED <<until, dummies>>

Acquire ==
  /\ pc = "acquire"
  /\ RunUntil
  /\ asked' = FALSE
  /\ UNCHANGED <<go, quit, target, gtk, stack, mainQuit, idles, unread,
                 ahead, granted, unshown>>

\* Simulated time goes by: whatever is kept from Now comes nearer.
Nearer(t) == IF t > 1 THEN t - 1 ELSE 0
Advance ==
  /\ pc = "run" /\ 0 \notin dummies
  /\ target' = Nearer(target) /\ until' = Nearer(until)
  /\ dummies' = {d - 1 : d \in dummies} /\ ahead' = ahead + 1
  /\ UNCHANGED <<pc, go, quit, gtk, stack, mainQuit, idles, messages,
                 unread, asked, granted, unshown>>

\* CallbackStopSimulation: only the callback of the present target stops the
\* run, not one left over from a run that an event stopped before its target.
CallbackStopSimulation ==
  /\ pc = "run" /\ 0 \in dummies /\ dummies' = dummies \ {0}
  /\ pc' = IF until = 0 THEN "extend" ELSE "run"
  /\ UNCHANGED <<go, quit, target, gtk, stack, mainQuit, idles, messages,
                 unread, until, hist>>

\* An event of the simulation calls PyViz::Pause, which stops nothing.
DoPause ==
  /\ pc = "run" /\ unshown < MaxUnshown
  /\ messages' = messages + 1 /\ unshown' = unshown + 1
  /\ UNCHANGED <<pc, go, quit, target, gtk, stack, mainQuit, idles, unread,
                 until, dummies, asked, ahead, granted>>

\* An event of the simulation calls Simulator::Stop.
UserStop ==
  /\ ThreadGoes("run", "extend")
  /\ UNCHANGED <<go, quit, target, gtk, stack, mainQuit, idles, messages,
                 unread, until, dummies, hist>>

\* Mutant: go is cleared after the run as well.
ExtendClearing ==
  /\ ThreadGoes("extend", "loop")
  /\ unread' = unread + messages /\ idles' = idles + 1 /\ go' = FALSE
  /\ UNCHANGED <<quit, target, gtk, stack, mainQuit, messages, until, dummies, hist>>

\* GetPauseMessages, GLib.idle_add, and the lock given up.
Extend ==
  /\ ThreadGoes("extend", "loop")
  /\ unread' = unread + messages /\ idles' = idles + 1
  /\ UNCHANGED <<go, quit, target, gtk, stack, mainQuit, messages, until,
                 dummies, hist>>

Thread ==
  \/ Loop \/ Wait \/ Clear \/ Check \/ Acquire
  \/ Advance \/ CallbackStopSimulation \/ DoPause \/ UserStop
  \/ Extend

-----------------------------------------------------------------------------
(* The view: what the Gtk main loop dispatches, nested or not.             *)

Top == Head(stack)
Push(h) == stack' = <<h>> \o stack
TopGoes(from, to) ==
  stack # <<>> /\ Top.at = from /\ stack' = <<[Top EXCEPT !.at = to]>> \o Tail(stack)

\* A handler is called by Gtk.main, or by Gtk.main_iteration of a timeout that
\* has found the lock taken.
CanDispatch == IF stack = <<>> THEN ~mainQuit ELSE Top.at = "pump"
\* The idle calls have the highest priority.
CanDispatchLow == CanDispatch /\ idles = 0

Dispatched == {stack[i].timer : i \in DOMAIN stack}

\* Mutant: an id already there is taken for a running timer.
StartUpdateTimerOnce ==
  IF timerId # None THEN UNCHANGED <<live, timerId>>
  ELSE \E t \in Timers \ (live \union Dispatched) :
         live' = live \union {t} /\ timerId' = t

\* _start_update_timer
StartUpdateTimer ==
  LET fresh == Timers \ (live \union Dispatched \union {timerId})
  IN /\ fresh # {}
     /\ LET t == CHOOSE t \in fresh : TRUE
        IN live' = (live \ {timerId}) \union {t} /\ timerId' = t

\* The button keeps the id of a timer it removes.
\* _on_play_button_toggled
Toggled ==
  /\ playing' = ~playing
  /\ IF playing THEN live' = live \ {timerId} /\ UNCHANGED timerId ELSE StartUpdateTimer

Play ==
  /\ CanDispatchLow /\ ~mainQuit
  /\ Toggled
  /\ UNCHANGED <<thread, go, quit, target, period, stack, mainQuit, idles,
                 unread, hist>>

\* _speed_changed starts the timer, paused or not.
Speed ==
  /\ CanDispatchLow /\ ~mainQuit
  /\ period' \in Periods
  /\ StartUpdateTimer
  /\ UNCHANGED <<thread, go, quit, target, playing, stack, mainQuit, idles,
                 unread, hist>>

\* update_view_timeout, dispatched for a timer: a timer is not dispatched again
\* while its own handler runs.
Timeout(t) ==
  /\ CanDispatchLow /\ t \in live \ Dispatched /\ Len(stack) < MaxDepth
  /\ Push(Handler("try", t, 0))
  /\ UNCHANGED <<thread, go, quit, target, gtk, mainQuit, idles, unread, hist>>

TryLock ==
  /\ Locked /\ TopGoes("try", "pump")
  /\ UNCHANGED <<thread, go, quit, target, gtk, mainQuit, idles, unread, hist>>

\* No event is pending any more: the lock is tried again.
Pumped ==
  /\ idles = 0 /\ TopGoes("pump", "try")
  /\ UNCHANGED <<thread, go, quit, target, gtk, mainQuit, idles, unread, hist>>

\* Mutant: the target moves from the last target, not from Now.
UpdateViewDrifting ==
  /\ ~Locked /\ stack # <<>> /\ Top.at = "try"
  /\ stack' = <<Handler("after", Top.timer, unread)>> \o Tail(stack)
  /\ unread' = 0 /\ target' = target + period
  /\ ahead' = 0 /\ granted' = period
  /\ UNCHANGED <<thread, go, quit, gtk, mainQuit, idles, asked, unshown>>

\* Under the lock the messages are taken, the view drawn and the target set.
UpdateView ==
  /\ ~Locked /\ stack # <<>> /\ Top.at = "try"
  /\ stack' = <<Handler("after", Top.timer, unread)>> \o Tail(stack)
  /\ unread' = 0 /\ target' = period
  /\ ahead' = 0 /\ granted' = period
  /\ UNCHANGED <<thread, go, quit, gtk, mainQuit, idles, asked, unshown>>

\* The rest, without the lock: a message pauses the simulation, as if the user
\* had pressed the button; paused, the timer ends, whoever's id is kept.
AfterView ==
  LET pauses  == Top.taken > 0
      removed == {t \in {timerId} : pauses /\ playing}
  IN
  /\ stack # <<>> /\ Top.at = "after" /\ stack' = Tail(stack)
  /\ playing' = (playing /\ ~pauses) /\ unshown' = unshown - Top.taken
  /\ IF playing'
     THEN go' = TRUE /\ asked' = TRUE /\ UNCHANGED <<live, timerId>>
     ELSE live' = live \ (removed \union {Top.timer}) /\ timerId' = None
          /\ UNCHANGED <<go, asked>>
  /\ UNCHANGED <<thread, quit, target, period, mainQuit, idles, unread,
                 ahead, granted>>

\* Mutant: the idle call is kept by Gtk.
UpdateModelAgain ==
  /\ CanDispatch /\ idles > 0
  /\ Push(Handler("model", None, 0))
  /\ UNCHANGED <<thread, go, quit, target, gtk, mainQuit, idles, unread, hist>>

\* update_model, called when Gtk is idle, waits for the lock, and so do the
\* handlers of the user's that only read the simulation (add_information_window,
\* begin_node_drag, the tooltips) or set what it records
\* (set_nodes_of_interest): they change nothing kept here and stand behind it.
UpdateModel ==
  /\ CanDispatch /\ idles > 0 /\ idles' = idles - 1
  /\ Push(Handler("model", None, 0))
  /\ UNCHANGED <<thread, go, quit, target, gtk, mainQuit, unread, hist>>

ModelUpdated ==
  /\ ~Locked /\ stack # <<>> /\ Top.at = "model" /\ stack' = Tail(stack)
  /\ UNCHANGED <<thread, go, quit, target, gtk, mainQuit, idles, unread, hist>>

\* The window is closed: _quit, and the main loop ends when its handler does.
Quit ==
  /\ CanDispatchLow /\ ~quit /\ quit' = TRUE
  /\ live' = live \ {timerId} /\ timerId' = None
  /\ Push(Handler("go", None, 0))
  /\ UNCHANGED <<thread, go, target, playing, period, mainQuit, idles,
                 unread, hist>>

QuitGo ==
  /\ TopGoes("go", "join") /\ go' = TRUE
  /\ UNCHANGED <<thread, quit, target, gtk, mainQuit, idles, unread, hist>>

Join ==
  /\ stack # <<>> /\ Top.at = "join" /\ pc = "done"
  /\ stack' = Tail(stack) /\ mainQuit' = TRUE
  /\ UNCHANGED <<thread, go, quit, target, gtk, idles, unread, hist>>

\* Gtk.main has returned and the thread has ended.
Ended == mainQuit /\ stack = <<>>
Terminated == Ended /\ UNCHANGED vars

HandlerStep ==
  \/ TryLock \/ UpdateView \/ AfterView
  \/ ModelUpdated \/ QuitGo \/ Join

Next ==
  \/ Thread
  \/ Play \/ Speed \/ Quit \/ UpdateModel
  \/ \E t \in Timers : Timeout(t)
  \/ HandlerStep \/ Pumped
  \/ Terminated

Spec == Init /\ [][Next]_vars

\* The thread and the handlers go on; the clock of the simulation too, and the
\* idle calls are served.  The events pending run out again and again: timers
\* are a tenth of a second apart.
FairSpec ==
  /\ Spec
  /\ WF_vars(Loop \/ Wait \/ Clear \/ Check \/ Acquire \/ Extend)
  /\ WF_vars(Advance \/ CallbackStopSimulation)
  /\ WF_vars(HandlerStep) /\ WF_vars(UpdateModel) /\ SF_vars(Pumped)

-----------------------------------------------------------------------------
Handlers ==
  [at : {"try", "pump", "after", "model", "go", "join"},
   timer : Timers \union {None}, taken : Nat]

\* The types; that unshown is no less than 0 is for PausesExact to say.
TypeOK ==
  /\ pc \in {"loop", "wait", "clear", "check", "acquire", "run", "extend", "done"}
  /\ go \in BOOLEAN /\ quit \in BOOLEAN /\ playing \in BOOLEAN
  /\ mainQuit \in BOOLEAN /\ asked \in BOOLEAN
  /\ period \in Nat /\ granted \in Nat
  /\ live \subseteq Timers /\ timerId \in Timers \union {None}
  /\ target \in Nat /\ until \in Nat /\ ahead \in Nat /\ dummies \subseteq Nat
  /\ idles \in Nat /\ messages \in Nat /\ unread \in Nat /\ unshown \in Int
  /\ stack \in Seq(Handlers)

\* A target the view has asked for is not lost: while no run has read it, the
\* thread is on its way to one, or go is still set when it comes to wait.
NoLostRequest == asked /\ pc \in {"loop", "wait"} => go

\* The simulation never runs past the target of the last view: not by a callback
\* left over from a stopped run, nor by a request that came twice.
ModelNotAheadOfView == ahead + target <= granted

\* While the button is pressed a timer runs, and it is the one the visualiser
\* knows: however handlers nest, playing never stalls with nothing to call
\* update_view_timeout.
PlayingHasTimer == playing /\ ~quit => timerId \in live

\* The messages on their way: in the helper during a run, in the thread object
\* after it, and in the handler that has taken them to show them.
OnTheWay ==
  (IF Locked THEN messages ELSE 0) + unread
  + (IF stack = <<>> THEN 0 ELSE Top.taken)

\* Every pause message raised is in exactly one place until it is shown: none
\* is lost and none is shown twice.  However handlers nest, only the innermost
\* has messages taken, and has only to show them.
PausesExact ==
  /\ unshown = OnTheWay
  /\ \A i \in DOMAIN stack : stack[i].taken > 0 => i = 1 /\ Top.at = "after"

\* Closing the window ends the program, whatever the thread was doing and
\* however deep in nested handlers the window was closed.
QuitCompletes == quit ~> Ended
=============================================================================
