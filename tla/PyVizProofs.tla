----------------------------- MODULE PyVizProofs -----------------------------
(***************************************************************************)
(* Proofs about PyViz, for any sample periods, any number of timers and    *)
(* any depth of nested handlers: the simulation never runs ahead of the    *)
(* target of the last view, no request is lost between the view and the    *)
(* thread, while the button is pressed a timer runs, and no pause message  *)
(* is lost or shown twice.                                                 *)
(***************************************************************************)
EXTENDS PyViz, TLAPS

\* The numbers of the model, and what a run knows of its target: the thread
\* alone reads the target, under the lock, so until is the target as long as
\* the run lasts, and the callback that stops the run at it is scheduled.
Times ==
  /\ target \in Nat /\ until \in Nat /\ ahead \in Nat /\ granted \in Nat
  /\ period \in Nat /\ dummies \subseteq Nat
RunsToTarget == pc = "run" => until = target /\ until \in dummies
AheadInv == Times /\ RunsToTarget /\ ModelNotAheadOfView

\* The request is unread until Acquire; in between Clear may take go away, but
\* only on the way there.
RequestInv == asked /\ pc \in {"loop", "wait", "run", "extend"} => go

-----------------------------------------------------------------------------
LEMMA AheadInit == Init => AheadInv
BY PyVizAssumption DEF Init, AheadInv, Times, RunsToTarget, ModelNotAheadOfView

\* The steps that touch the times.
LEMMA AcquireAhead ==
  ASSUME AheadInv, Acquire
  PROVE  AheadInv'
BY DEF AheadInv, Times, RunsToTarget, ModelNotAheadOfView, Acquire, RunUntil, gtk

LEMMA AdvanceAhead ==
  ASSUME AheadInv, Advance
  PROVE  AheadInv'
<1>1. until = target /\ until \in dummies /\ target > 0 /\ target \in Nat
  BY DEF AheadInv, Times, RunsToTarget, Advance
<1>2. target' = target - 1 /\ until' = target - 1 /\ pc' = "run"
  BY <1>1 DEF Advance, Nearer
<1>3. dummies' = {d - 1 : d \in dummies} /\ dummies \subseteq Nat \ {0}
  BY DEF Advance, AheadInv, Times
<1>4. until' \in dummies' /\ dummies' \subseteq Nat
  BY <1>1, <1>2, <1>3
<1>5. Times'
  BY <1>1, <1>2, <1>4 DEF AheadInv, Times, Advance, gtk
<1>6. RunsToTarget'
  BY <1>2, <1>4 DEF RunsToTarget
<1>7. ModelNotAheadOfView'
  BY <1>1, <1>2 DEF AheadInv, Times, ModelNotAheadOfView, Advance
<1> QED
  BY <1>5, <1>6, <1>7 DEF AheadInv

LEMMA CallbackAhead ==
  ASSUME AheadInv, CallbackStopSimulation
  PROVE  AheadInv'
BY DEF AheadInv, Times, RunsToTarget, ModelNotAheadOfView, CallbackStopSimulation, gtk, hist

\* The view sets the target under the lock, so not during a run.
LEMMA UpdateViewAhead ==
  ASSUME AheadInv, UpdateView
  PROVE  AheadInv'
BY DEF AheadInv, Times, RunsToTarget, ModelNotAheadOfView, UpdateView, Locked, thread, gtk

\* The other steps change neither times nor target, nor begin a run.
LEMMA RestAhead ==
  ASSUME AheadInv, UNCHANGED <<target, until, ahead, granted, dummies>>,
         period' \in Nat, pc' = "run" => pc = "run"
  PROVE  AheadInv'
BY DEF AheadInv, Times, RunsToTarget, ModelNotAheadOfView

LEMMA AheadNext ==
  ASSUME AheadInv, [Next]_vars
  PROVE  AheadInv'
<1>p. period \in Nat
  BY DEF AheadInv, Times
<1>1. CASE Loop \/ Wait \/ Clear \/ Check \/ DoPause \/ UserStop \/ Extend
  <2>1. /\ UNCHANGED <<target, until, ahead, granted, dummies, period>>
        /\ pc' = "run" => pc = "run"
    BY <1>1 DEF Loop, Wait, Clear, Check, DoPause, UserStop, Extend, ThreadGoes, gtk, hist
  <2> QED
    BY <1>p, <2>1, RestAhead
<1>2. CASE Acquire
  BY <1>2, AcquireAhead
<1>3. CASE Advance
  BY <1>3, AdvanceAhead
<1>4. CASE CallbackStopSimulation
  BY <1>4, CallbackAhead
<1>5. CASE UpdateView
  BY <1>5, UpdateViewAhead
<1>6. CASE Play \/ Quit \/ UpdateModel \/ (\E t \in Timers : Timeout(t)) \/ TryLock
           \/ AfterView \/ ModelUpdated \/ QuitGo \/ Join \/ Pumped \/ Terminated
  <2>1. UNCHANGED <<target, until, ahead, granted, dummies, period, pc>>
    BY <1>6 DEF Play, Quit, UpdateModel, Timeout, TryLock, AfterView, ModelUpdated, QuitGo,
       Join, Pumped, Terminated, thread, gtk, hist, vars
  <2> QED
    BY <1>p, <2>1, RestAhead
<1>7. CASE Speed
  <2>1. UNCHANGED <<target, until, ahead, granted, dummies, pc>> /\ period' \in Nat
    BY <1>7, PyVizAssumption DEF Speed, thread, hist
  <2> QED
    BY <2>1, RestAhead
<1>8. CASE UNCHANGED vars
  <2>1. UNCHANGED <<target, until, ahead, granted, dummies, pc, period>>
    BY <1>8 DEF vars
  <2> QED
    BY <1>p, <2>1, RestAhead
<1> QED
  BY <1>1, <1>2, <1>3, <1>4, <1>5, <1>6, <1>7, <1>8 DEF Next, Thread, HandlerStep

\* The simulation never runs past the target of the last view (RunUntil and
\* CallbackStopSimulation of pyviz.cc, update_view_timeout of core.py).
THEOREM PyVizNotAheadOfView == Spec => []ModelNotAheadOfView
<1>1. Init => AheadInv
  BY AheadInit
<1>2. AheadInv /\ [Next]_vars => AheadInv'
  BY AheadNext
<1>3. AheadInv => ModelNotAheadOfView
  BY DEF AheadInv
<1> QED
  BY <1>1, <1>2, <1>3, PTL DEF Spec

-----------------------------------------------------------------------------
LEMMA RequestNext ==
  ASSUME RequestInv, [Next]_vars
  PROVE  RequestInv'
<1>1. CASE Loop \/ Wait \/ Clear \/ Check \/ Acquire
  BY <1>1 DEF RequestInv, Loop, Wait, Clear, Check, Acquire, ThreadGoes, hist
<1>2. CASE Advance \/ CallbackStopSimulation \/ DoPause \/ UserStop \/ Extend
  BY <1>2 DEF RequestInv, Advance, CallbackStopSimulation, DoPause, UserStop, Extend,
     ThreadGoes, hist
<1>3. CASE AfterView
  <2>1. pc' = pc
    BY <1>3 DEF AfterView, thread
  <2>2. go' = TRUE \/ UNCHANGED <<go, asked>>
    BY <1>3 DEF AfterView
  <2> QED
    BY <2>1, <2>2 DEF RequestInv
<1>4. CASE QuitGo
  BY <1>4 DEF RequestInv, QuitGo, thread, hist
<1>5. CASE Play \/ Speed \/ Quit \/ UpdateModel \/ (\E t \in Timers : Timeout(t)) \/ TryLock
           \/ UpdateView \/ ModelUpdated \/ Join \/ Pumped \/ Terminated \/ UNCHANGED vars
  <2>1. UNCHANGED <<pc, go, asked>>
    BY <1>5 DEF Play, Speed, Quit, UpdateModel, Timeout, TryLock, UpdateView, ModelUpdated,
       Join, Pumped, Terminated, thread, hist, vars
  <2> QED
    BY <2>1 DEF RequestInv
<1> QED
  BY <1>1, <1>2, <1>3, <1>4, <1>5 DEF Next, Thread, HandlerStep

\* A target asked for is not lost: the thread clears go before it reads the
\* target, and the view sets the target before go (core.py, run and
\* update_view_timeout).
THEOREM PyVizNoLostRequest == Spec => []NoLostRequest
<1>1. Init => RequestInv
  BY DEF Init, RequestInv
<1>2. RequestInv /\ [Next]_vars => RequestInv'
  BY RequestNext
<1>3. RequestInv => NoLostRequest
  BY DEF RequestInv, NoLostRequest
<1> QED
  BY <1>1, <1>2, <1>3, PTL DEF Spec

-----------------------------------------------------------------------------
LEMMA StartUpdateTimerLive ==
  ASSUME StartUpdateTimer
  PROVE  timerId' \in live'
BY DEF StartUpdateTimer

LEMMA PlayingNext ==
  ASSUME PlayingHasTimer, [Next]_vars
  PROVE  PlayingHasTimer'
<1>1. CASE Thread
  <2>1. UNCHANGED <<playing, live, timerId, quit>>
    BY <1>1 DEF Thread, Loop, Wait, Clear, Check, Acquire, Advance, CallbackStopSimulation,
       DoPause, UserStop, Extend, gtk
  <2> QED
    BY <2>1 DEF PlayingHasTimer
<1>2. CASE Play
  <2>1. CASE playing
    BY <1>2, <2>1 DEF Play, Toggled, PlayingHasTimer
  <2>2. CASE ~playing
    BY <1>2, <2>2, StartUpdateTimerLive DEF Play, Toggled, PlayingHasTimer
  <2> QED
    BY <2>1, <2>2
<1>3. CASE Speed
  BY <1>3, StartUpdateTimerLive DEF Speed, PlayingHasTimer
<1>4. CASE AfterView
  <2>1. quit' = quit /\ (playing' => playing)
    BY <1>4 DEF AfterView
  <2>2. playing' => UNCHANGED <<live, timerId>>
    BY <1>4 DEF AfterView
  <2> QED
    BY <2>1, <2>2 DEF PlayingHasTimer
<1>5. CASE Quit
  BY <1>5 DEF Quit, PlayingHasTimer
<1>6. CASE UpdateModel \/ (\E t \in Timers : Timeout(t)) \/ TryLock \/ UpdateView
           \/ ModelUpdated \/ QuitGo \/ Join \/ Pumped \/ Terminated \/ UNCHANGED vars
  <2>1. UNCHANGED <<playing, live, timerId, quit>>
    BY <1>6 DEF UpdateModel, Timeout, TryLock, UpdateView, ModelUpdated, QuitGo, Join,
       Pumped, Terminated, gtk, vars
  <2> QED
    BY <2>1 DEF PlayingHasTimer
<1> QED
  BY <1>1, <1>2, <1>3, <1>4, <1>5, <1>6 DEF Next, HandlerStep

\* While the button is pressed a timer runs, and it is the one the visualiser
\* knows (_on_play_button_toggled, _speed_changed and update_view_timeout of
\* core.py, however they nest).
THEOREM PyVizPlayingHasTimer == Spec => []PlayingHasTimer
<1>1. Init => PlayingHasTimer
  BY DEF Init, PlayingHasTimer
<1>2. PlayingHasTimer /\ [Next]_vars => PlayingHasTimer'
  BY PlayingNext
<1> QED
  BY <1>1, <1>2, PTL DEF Spec

-----------------------------------------------------------------------------
\* TypeOK in parts: what is a truth value, a number, or of the view.
Flags ==
  /\ go \in BOOLEAN /\ quit \in BOOLEAN /\ playing \in BOOLEAN
  /\ mainQuit \in BOOLEAN /\ asked \in BOOLEAN
Numbers ==
  /\ target \in Nat /\ until \in Nat /\ ahead \in Nat /\ dummies \subseteq Nat
  /\ idles \in Nat /\ messages \in Nat /\ unread \in Nat /\ unshown \in Int
View ==
  /\ period \in Nat /\ granted \in Nat
  /\ live \subseteq Timers /\ timerId \in Timers \union {None}
  /\ stack \in Seq(Handlers)
Places == {"loop", "wait", "clear", "check", "acquire", "run", "extend", "done"}

LEMMA TypeParts == TypeOK <=> Flags /\ Numbers /\ View /\ pc \in Places
BY Zenon DEF TypeOK, Flags, Numbers, View, Places

\* The handlers of the view, pushed, moved on and popped.
LEMMA HandlerType ==
  ASSUME NEW at \in {"try", "pump", "after", "model", "go", "join"},
         NEW timer \in Timers \union {None}, NEW taken \in Nat
  PROVE  Handler(at, timer, taken) \in Handlers
BY DEF Handler, Handlers

LEMMA PushType ==
  ASSUME stack \in Seq(Handlers), NEW h \in Handlers, Push(h)
  PROVE  stack' \in Seq(Handlers)
<1>1. <<h>> \in Seq(Handlers)
  OBVIOUS
<1> QED
  BY <1>1 DEF Push

LEMMA TopType ==
  ASSUME stack \in Seq(Handlers), stack # <<>>
  PROVE  /\ Top \in Handlers /\ Tail(stack) \in Seq(Handlers)
         /\ \A h \in Handlers : <<h>> \o Tail(stack) \in Seq(Handlers)
<1>1. Top \in Handlers /\ Tail(stack) \in Seq(Handlers)
  BY DEF Top
<1>2. ASSUME NEW h \in Handlers PROVE <<h>> \o Tail(stack) \in Seq(Handlers)
  <2>1. <<h>> \in Seq(Handlers)
    OBVIOUS
  <2> QED
    BY <1>1, <2>1
<1> QED
  BY <1>1, <1>2

LEMMA TopGoesType ==
  ASSUME stack \in Seq(Handlers), NEW from, NEW to \in {"pump", "try", "join"}, TopGoes(from, to)
  PROVE  stack' \in Seq(Handlers)
<1>1. stack # <<>> /\ stack' = <<[Top EXCEPT !.at = to]>> \o Tail(stack)
  BY DEF TopGoes
<1>2. [Top EXCEPT !.at = to] \in Handlers
  BY <1>1, TopType DEF Handlers
<1> QED
  BY <1>1, <1>2, TopType

LEMMA TimerType ==
  ASSUME live \subseteq Timers, StartUpdateTimer
  PROVE  live' \subseteq Timers /\ timerId' \in Timers
BY DEF StartUpdateTimer

\* The steps of the thread leave the view alone, but for the requests.
LEMMA ThreadType ==
  ASSUME TypeOK, Thread
  PROVE  TypeOK'
<1>1. Flags'
  BY Zenon DEF TypeOK, Flags, Thread, Loop, Wait, Clear, Check, Acquire, Advance,
     CallbackStopSimulation, DoPause, UserStop, Extend, gtk, hist
<1>2. View'
  BY Zenon DEF TypeOK, View, Thread, Loop, Wait, Clear, Check, Acquire, Advance,
     CallbackStopSimulation, DoPause, UserStop, Extend, gtk, hist
<1>3. pc' \in Places
  BY Zenon DEF Places, TypeOK, Thread, Loop, Wait, Clear, Check, Acquire, RunUntil, Advance,
     CallbackStopSimulation, DoPause, UserStop, Extend, ThreadGoes, gtk
<1>4. Numbers
  BY TypeParts
<1>5. Numbers'
  <2>1. CASE Loop \/ Wait \/ Clear \/ Check
    <3>1. UNCHANGED <<target, until, ahead, dummies, idles, messages, unread, unshown>>
      BY <2>1, Zenon DEF Loop, Wait, Clear, Check, hist
    <3> QED
      BY <1>4, <3>1 DEF Numbers
  <2>2. CASE Acquire
    <3>1. UNCHANGED <<target, idles, unread, ahead, unshown>>
      BY <2>2, Zenon DEF Acquire
    <3>2. /\ messages' = 0 /\ until' \in {until, target}
          /\ dummies' = dummies \/ dummies' = dummies \union {target}
      BY <2>2, Zenon DEF Acquire, RunUntil
    <3> QED
      BY <1>4, <3>1, <3>2 DEF Numbers
  <2>3. CASE Advance
    <3>1. \A n \in Nat : Nearer(n) \in Nat
      BY DEF Nearer
    <3>2. dummies' \subseteq Nat
      BY <1>4, <2>3 DEF Numbers, Advance
    <3> QED
      BY <1>4, <2>3, <3>1, <3>2 DEF Numbers, Advance
  <2>4. CASE CallbackStopSimulation
    BY <1>4, <2>4 DEF Numbers, CallbackStopSimulation, hist
  <2>5. CASE DoPause
    BY <1>4, <2>5 DEF Numbers, DoPause
  <2>6. CASE UserStop
    BY <1>4, <2>6, Zenon DEF Numbers, UserStop, hist
  <2>7. CASE Extend
    BY <1>4, <2>7 DEF Numbers, Extend, hist
  <2> QED
    BY <2>1, <2>2, <2>3, <2>4, <2>5, <2>6, <2>7 DEF Thread
<1>6. TypeOK' <=> Flags' /\ Numbers' /\ View' /\ pc' \in Places
  BY Zenon DEF TypeOK, Flags, Numbers, View, Places
<1> QED
  BY <1>1, <1>2, <1>3, <1>5, <1>6

\* The handlers of the view that begin: the button, the speed, the window, a
\* timer and an idle call.
LEMMA BeginType ==
  ASSUME TypeOK,
         Play \/ Speed \/ Quit \/ UpdateModel \/ (\E t \in Timers : Timeout(t))
  PROVE  TypeOK'
<1>1. CASE Play
  <2>1. playing' \in BOOLEAN
    BY <1>1, Zenon DEF Play, Toggled
  <2>2. live' \subseteq Timers /\ timerId' \in Timers \union {None}
    BY <1>1, TimerType DEF Play, Toggled, TypeOK
  <2> QED
    BY <1>1, <2>1, <2>2 DEF Play, TypeOK, thread, hist
<1>2. CASE Speed
  <2>1. live' \subseteq Timers /\ timerId' \in Timers
    BY <1>2, TimerType DEF Speed, TypeOK
  <2> QED
    BY <1>2, <2>1, PyVizAssumption DEF Speed, TypeOK, thread, hist
<1>3. CASE Quit
  <2>1. stack' \in Seq(Handlers)
    BY <1>3, HandlerType, PushType DEF Quit, TypeOK
  <2> QED
    BY <1>3, <2>1 DEF Quit, TypeOK, thread, hist
<1>4. CASE UpdateModel
  <2>1. stack' \in Seq(Handlers)
    BY <1>4, HandlerType, PushType DEF UpdateModel, TypeOK
  <2> QED
    BY <1>4, <2>1 DEF UpdateModel, TypeOK, thread, gtk, hist
<1>5. ASSUME NEW t \in Timers, Timeout(t) PROVE TypeOK'
  <2>1. stack' \in Seq(Handlers)
    BY <1>5, HandlerType, PushType DEF Timeout, TypeOK
  <2> QED
    BY <1>5, <2>1 DEF Timeout, TypeOK, thread, gtk, hist
<1> QED
  BY <1>1, <1>2, <1>3, <1>4, <1>5

\* The handlers of the view that go on.
LEMMA HandlerStepType ==
  ASSUME TypeOK, HandlerStep \/ Pumped
  PROVE  TypeOK'
<1>1. CASE TryLock \/ Pumped \/ QuitGo
  <2>1. stack' \in Seq(Handlers)
    BY <1>1, TopGoesType DEF TryLock, Pumped, QuitGo, TypeOK
  <2> QED
    BY <1>1, <2>1 DEF TryLock, Pumped, QuitGo, TypeOK, thread, gtk, hist
<1>2. CASE UpdateView
  <2>1. Handler("after", Top.timer, unread) \in Handlers
    BY <1>2, TopType, HandlerType DEF UpdateView, TypeOK, Handlers
  <2>2. stack' \in Seq(Handlers)
    BY <1>2, <2>1, TopType DEF UpdateView, TypeOK
  <2> QED
    BY <1>2, <2>2 DEF UpdateView, TypeOK, thread, gtk
<1>3. CASE AfterView
  <2>1. stack' \in Seq(Handlers) /\ Top.taken \in Nat
    BY <1>3, TopType DEF AfterView, TypeOK, Handlers
  <2>2. playing' \in BOOLEAN
    BY <1>3, Zenon DEF AfterView
  <2>3. /\ go' \in BOOLEAN /\ asked' \in BOOLEAN
        /\ live' \subseteq Timers /\ timerId' \in Timers \union {None}
    BY <1>3 DEF AfterView, TypeOK
  <2> QED
    BY <1>3, <2>1, <2>2, <2>3 DEF AfterView, TypeOK, thread
<1>4. CASE ModelUpdated \/ Join
  <2>1. stack' \in Seq(Handlers)
    BY <1>4, TopType DEF ModelUpdated, Join, TypeOK
  <2> QED
    BY <1>4, <2>1 DEF ModelUpdated, Join, TypeOK, thread, gtk, hist
<1> QED
  BY <1>1, <1>2, <1>3, <1>4 DEF HandlerStep

\* The types hold, the stack of nested handlers of core.py included.
THEOREM PyVizTypeOK == Spec => []TypeOK
<1>1. ASSUME Init PROVE TypeOK
  <2>1. Flags
    BY <1>1, Zenon DEF Init, Flags
  <2>2. period \in Nat /\ stack \in Seq(Handlers)
    BY <1>1, PyVizAssumption DEF Init
  <2> QED
    BY <1>1, <2>1, <2>2 DEF Init, Flags, TypeOK
<1>2. ASSUME TypeOK, [Next]_vars PROVE TypeOK'
  <2>1. CASE Terminated \/ UNCHANGED vars
    BY <1>2, <2>1, Zenon DEF Terminated, vars, TypeOK
  <2> QED
    BY <1>2, <2>1, ThreadType, BeginType, HandlerStepType DEF Next
<1> QED
  BY <1>1, <1>2, PTL DEF Spec

-----------------------------------------------------------------------------
\* What a stack of handlers has taken, and that none waits with messages taken.
Taken(s) == IF s = <<>> THEN 0 ELSE Head(s).taken
NoneWaits(s) == \A i \in DOMAIN s : s[i].taken > 0 => i = 1 /\ Head(s).at = "after"

LEMMA PausesParts ==
  PausesExact <=> /\ unshown = (IF Locked THEN messages ELSE 0) + unread + Taken(stack)
                  /\ NoneWaits(stack)
BY DEF PausesExact, OnTheWay, Taken, NoneWaits, Top

\* A handler on top of one that is not to show anything, or of none.
LEMMA PushWaits ==
  ASSUME NEW s \in Seq(Handlers), NoneWaits(s), s # <<>> => Head(s).at # "after",
         NEW h \in Handlers, h.taken = 0
  PROVE  NoneWaits(<<h>> \o s) /\ Taken(<<h>> \o s) = 0 /\ Taken(s) = 0
<1> DEFINE r == <<h>> \o s
<1>1. /\ r \in Seq(Handlers) /\ r # <<>> /\ Head(r) = h
      /\ Len(r) = Len(s) + 1 /\ r[1] = h
      /\ \A i \in 2 .. Len(r) : r[i] = s[i - 1] /\ i - 1 \in DOMAIN s
  OBVIOUS
<1>2. \A i \in DOMAIN s : s[i].taken = 0
  <2> SUFFICES ASSUME NEW i \in DOMAIN s, s[i].taken # 0 PROVE FALSE
    OBVIOUS
  <2>1. s[i] \in Handlers /\ s # <<>>
    OBVIOUS
  <2>2. s[i].taken > 0
    BY <2>1 DEF Handlers
  <2> QED
    BY <2>1, <2>2 DEF NoneWaits
<1>3. Taken(s) = 0
  <2>1. CASE s = <<>>
    BY <2>1 DEF Taken
  <2>2. CASE s # <<>>
    <3>1. Head(s) = s[1] /\ 1 \in DOMAIN s
      BY <2>2
    <3> QED
      BY <2>2, <3>1, <1>2 DEF Taken
  <2> QED
    BY <2>1, <2>2
<1>4. ASSUME NEW i \in DOMAIN r PROVE ~(r[i].taken > 0)
  <2>1. i = 1 \/ i \in 2 .. Len(r)
    BY <1>1
  <2> HIDE DEF r
  <2>2. CASE i = 1
    BY <2>2, <1>1
  <2>3. CASE i \in 2 .. Len(r)
    BY <2>3, <1>1, <1>2
  <2> QED
    BY <2>1, <2>2, <2>3
<1> QED
  BY <1>1, <1>3, <1>4 DEF NoneWaits, Taken

\* Below the handler on top nothing is taken.
LEMMA PopWaits ==
  ASSUME NEW s \in Seq(Handlers), NoneWaits(s), s # <<>>
  PROVE  NoneWaits(Tail(s)) /\ Taken(Tail(s)) = 0
<1> DEFINE r == Tail(s)
<1>1. /\ r \in Seq(Handlers) /\ (r # <<>> => Head(r) = r[1] /\ 1 \in DOMAIN r)
      /\ \A i \in DOMAIN r : r[i] = s[i + 1] /\ i + 1 \in DOMAIN s /\ i + 1 # 1
  OBVIOUS
<1> HIDE DEF r
<1>2. ASSUME NEW i \in DOMAIN r PROVE r[i] \in Handlers /\ ~(r[i].taken > 0)
  BY <1>1 DEF NoneWaits
<1>3. Taken(r) = 0
  BY <1>1, <1>2 DEF Taken, Handlers
<1> QED
  BY <1>2, <1>3 DEF NoneWaits, r

\* The handler on top, replaced by one that shows or has taken nothing.
LEMMA ReplaceWaits ==
  ASSUME NEW s \in Seq(Handlers), NoneWaits(s), s # <<>>,
         NEW h \in Handlers, h.at = "after" \/ h.taken = 0
  PROVE  NoneWaits(<<h>> \o Tail(s)) /\ Taken(<<h>> \o Tail(s)) = h.taken
<1> DEFINE t == Tail(s)
           r == <<h>> \o t
<1>1. t \in Seq(Handlers) /\ NoneWaits(t)
  BY PopWaits
<1>2. \A i \in DOMAIN t : ~(t[i].taken > 0)
  <2>1. \A i \in DOMAIN t : t[i] = s[i + 1] /\ i + 1 \in DOMAIN s /\ i + 1 # 1
    OBVIOUS
  <2> QED
    BY <2>1 DEF NoneWaits
<1> HIDE DEF t
<1>3. /\ r \in Seq(Handlers) /\ r # <<>> /\ Head(r) = h /\ r[1] = h
      /\ \A i \in DOMAIN r : i = 1 \/ (r[i] = t[i - 1] /\ i - 1 \in DOMAIN t)
  BY <1>1
<1> HIDE DEF r
<1>4. ASSUME NEW i \in DOMAIN r, r[i].taken > 0 PROVE i = 1 /\ Head(r).at = "after"
  BY <1>2, <1>3, <1>4
<1> QED
  BY <1>3, <1>4 DEF NoneWaits, Taken, r, t

PausesInv == TypeOK /\ PausesExact

\* A step that leaves the stack alone and neither moves a message nor begins or
\* ends a run.
LEMMA PausesStill ==
  ASSUME PausesExact, UNCHANGED <<messages, unread, unshown, stack>>, Locked' = Locked
  PROVE  PausesExact'
BY DEF PausesExact, OnTheWay, Top

\* A step that only changes the stack, and takes no message from it.
LEMMA PausesStack ==
  ASSUME PausesExact, UNCHANGED <<messages, unread, unshown, pc>>,
         NoneWaits(stack'), Taken(stack') = Taken(stack)
  PROVE  PausesExact'
BY PausesParts DEF Locked, PausesExact, OnTheWay, Taken, NoneWaits, Top

LEMMA ThreadPauses ==
  ASSUME PausesInv, Thread
  PROVE  PausesExact'
<1>0. stack' = stack
  BY Zenon DEF Thread, Loop, Wait, Clear, Check, Acquire, Advance,
     CallbackStopSimulation, DoPause, UserStop, Extend
<1>t. messages \in Nat /\ unread \in Nat /\ unshown \in Int /\ Taken(stack) \in Nat
  <2>1. stack = <<>> \/ Head(stack).taken \in Nat
    BY TopType DEF PausesInv, TypeOK, Top, Handlers
  <2> QED
    BY <2>1 DEF PausesInv, TypeOK, Taken
<1>p. unshown = (IF Locked THEN messages ELSE 0) + unread + Taken(stack) /\ NoneWaits(stack)
  BY PausesParts DEF PausesInv
<1>s. (unshown = (IF Locked THEN messages ELSE 0) + unread + Taken(stack))' => PausesExact'
  BY <1>0, <1>p DEF PausesExact, OnTheWay, Taken, NoneWaits, Top
<1>1. CASE Loop \/ Wait \/ Clear \/ Check \/ Advance \/ CallbackStopSimulation \/ UserStop
  <2>1. UNCHANGED <<messages, unread, unshown>> /\ Locked' = Locked
    BY <1>1 DEF Loop, Wait, Clear, Check, Advance, CallbackStopSimulation, UserStop,
       ThreadGoes, Locked, hist
  <2> QED
    BY <1>0, <2>1, PausesStill DEF PausesInv
<1>2. CASE Acquire
  <2>1. ~Locked /\ Locked' /\ messages' = 0 /\ UNCHANGED <<unread, unshown>>
    BY <1>2 DEF Acquire, RunUntil, Locked
  <2> QED
    BY <1>0, <1>t, <1>p, <1>s, <2>1
<1>3. CASE DoPause
  <2>1. /\ Locked /\ Locked' /\ messages' = messages + 1 /\ unshown' = unshown + 1
        /\ unread' = unread
    BY <1>3 DEF DoPause, Locked
  <2> QED
    BY <1>0, <1>t, <1>p, <1>s, <2>1
<1>4. CASE Extend
  <2>1. /\ Locked /\ ~Locked' /\ unread' = unread + messages
        /\ unshown' = unshown
    BY <1>4 DEF Extend, ThreadGoes, Locked, hist
  <2> QED
    BY <1>0, <1>t, <1>p, <1>s, <2>1
<1> QED
  BY <1>1, <1>2, <1>3, <1>4 DEF Thread

\* A handler that begins comes on top of none, or of one that runs the events
\* itself and so has taken nothing.
LEMMA BeginPauses ==
  ASSUME PausesInv,
         Play \/ Speed \/ Quit \/ UpdateModel \/ (\E t \in Timers : Timeout(t))
  PROVE  PausesExact'
<1>t. stack \in Seq(Handlers) /\ NoneWaits(stack)
  BY PausesParts DEF PausesInv, TypeOK
<1>h. ASSUME NEW h \in Handlers, h.taken = 0, CanDispatch, Push(h),
             UNCHANGED <<messages, unread, unshown, pc>>
      PROVE  PausesExact'
  <2>1. stack # <<>> => Head(stack).at # "after"
    BY <1>h DEF CanDispatch, Top
  <2>2. NoneWaits(stack') /\ Taken(stack') = 0 /\ Taken(stack) = 0
    BY <1>t, <1>h, <2>1, PushWaits DEF Push
  <2> QED
    BY <1>h, <2>2, PausesStack DEF PausesInv
<1>1. CASE Play \/ Speed
  <2>1. UNCHANGED <<messages, unread, unshown, stack>> /\ Locked' = Locked
    BY <1>1 DEF Play, Speed, thread, hist, Locked
  <2> QED
    BY <2>1, PausesStill DEF PausesInv
<1>2. CASE Quit \/ UpdateModel
  <2>1. PICK at \in {"go", "model"} : Push(Handler(at, None, 0))
    BY <1>2 DEF Quit, UpdateModel
  <2>2. Handler(at, None, 0) \in Handlers /\ Handler(at, None, 0).taken = 0
    BY HandlerType DEF Handler
  <2>3. CanDispatch /\ UNCHANGED <<messages, unread, unshown, pc>>
    BY <1>2 DEF Quit, UpdateModel, CanDispatchLow, thread, hist
  <2> QED
    BY <1>h, <2>1, <2>2, <2>3
<1>3. ASSUME NEW t \in Timers, Timeout(t) PROVE PausesExact'
  <2>1. CanDispatch /\ Push(Handler("try", t, 0)) /\ UNCHANGED <<messages, unread, unshown, pc>>
    BY <1>3 DEF Timeout, CanDispatchLow, thread, hist
  <2>2. Handler("try", t, 0) \in Handlers /\ Handler("try", t, 0).taken = 0
    BY HandlerType DEF Handler
  <2> QED
    BY <1>h, <2>1, <2>2
<1> QED
  BY <1>1, <1>2, <1>3

\* The handlers that go on: one takes the messages, one has shown them.
LEMMA HandlerStepPauses ==
  ASSUME PausesInv, HandlerStep \/ Pumped
  PROVE  PausesExact'
<1>t. stack \in Seq(Handlers) /\ NoneWaits(stack) /\ stack # <<>> /\ Top \in Handlers
  <2>1. stack # <<>>
    BY DEF HandlerStep, TryLock, UpdateView, AfterView, ModelUpdated, QuitGo, Join, Pumped,
       TopGoes
  <2> QED
    BY <2>1, PausesParts, TopType DEF PausesInv, TypeOK
<1>a. Taken(stack) = Top.taken /\ Taken(stack) \in Nat /\ (Top.at # "after" => Top.taken = 0)
  <2>1. Top = stack[1] /\ 1 \in DOMAIN stack
    BY <1>t DEF Top
  <2>2. Top.taken \in Nat
    BY <1>t DEF Handlers
  <2>3. Top.taken > 0 => Top.at = "after"
    BY <1>t, <2>1 DEF NoneWaits, Top
  <2> QED
    BY <1>t, <2>2, <2>3 DEF Taken, Top
<1>n. messages \in Nat /\ unread \in Nat /\ unshown \in Int
  BY DEF PausesInv, TypeOK
<1>p. unshown = (IF Locked THEN messages ELSE 0) + unread + Taken(stack)
  BY PausesParts DEF PausesInv
<1>s. NoneWaits(stack') /\ (unshown = (IF Locked THEN messages ELSE 0) + unread + Taken(stack))'
        => PausesExact'
  BY DEF PausesExact, OnTheWay, Taken, NoneWaits, Top
<1>1. CASE TryLock \/ Pumped \/ QuitGo
  <2>1. PICK from \in {"try", "pump", "go"}, to \in {"pump", "try", "join"} : TopGoes(from, to)
    BY <1>1 DEF TryLock, Pumped, QuitGo
  <2>2. /\ [Top EXCEPT !.at = to] \in Handlers /\ [Top EXCEPT !.at = to].taken = Top.taken
        /\ Top.at = from
    BY <1>t, <2>1 DEF Handlers, TopGoes
  <2>3. Top.taken = 0
    BY <1>a, <2>2
  <2>4. NoneWaits(stack') /\ Taken(stack') = Taken(stack)
    BY <1>t, <1>a, <2>1, <2>2, <2>3, ReplaceWaits DEF TopGoes
  <2>5. UNCHANGED <<messages, unread, unshown, pc>>
    BY <1>1 DEF TryLock, Pumped, QuitGo, thread, hist
  <2> QED
    BY <2>4, <2>5, PausesStack DEF PausesInv
<1>2. CASE UpdateView
  <2> DEFINE h == Handler("after", Top.timer, unread)
  <2>1. h \in Handlers /\ h.at = "after" /\ h.taken = unread
    BY <1>t, <1>n, HandlerType DEF Handlers, Handler
  <2>2. stack' = <<h>> \o Tail(stack) /\ Top.at = "try"
    BY <1>2 DEF UpdateView
  <2> HIDE DEF h
  <2>3. NoneWaits(stack') /\ Taken(stack') = unread
    BY <1>t, <2>1, <2>2, ReplaceWaits
  <2>4. ~Locked /\ ~Locked' /\ unread' = 0 /\ UNCHANGED <<messages, unshown>>
    BY <1>2 DEF UpdateView, thread, Locked
  <2> QED
    BY <1>n, <1>p, <1>s, <1>a, <2>2, <2>3, <2>4
<1>3. CASE AfterView
  <2>1. stack' = Tail(stack) /\ unshown' = unshown - Top.taken
    BY <1>3 DEF AfterView
  <2>2. UNCHANGED <<messages, unread, pc>>
    BY <1>3 DEF AfterView, thread
  <2>3. NoneWaits(stack') /\ Taken(stack') = 0
    BY <1>t, <2>1, PopWaits
  <2>4. Locked' = Locked
    BY <2>2 DEF Locked
  <2> QED
    BY <1>n, <1>p, <1>s, <1>a, <2>1, <2>2, <2>3, <2>4
<1>4. CASE ModelUpdated \/ Join
  <2>1. stack' = Tail(stack) /\ Top.at # "after" /\ UNCHANGED <<messages, unread, unshown, pc>>
    BY <1>4 DEF ModelUpdated, Join, thread, hist
  <2>2. NoneWaits(stack') /\ Taken(stack') = Taken(stack)
    BY <1>t, <1>a, <2>1, PopWaits
  <2> QED
    BY <2>1, <2>2, PausesStack DEF PausesInv
<1> QED
  BY <1>1, <1>2, <1>3, <1>4 DEF HandlerStep

\* Every pause message raised is in one place until it is shown (PyViz::Pause and
\* GetPauseMessages of pyviz.cc, run and update_view_timeout of core.py), and
\* no nested handler waits with messages it has taken.
THEOREM PyVizPausesExact == Spec => []PausesExact
<1>1. Init => PausesExact
  BY DEF Init, PausesExact, OnTheWay, Locked
<1>2. TypeOK /\ PausesExact /\ [Next]_vars => PausesExact'
  <2> SUFFICES ASSUME PausesInv, [Next]_vars PROVE PausesExact'
    BY DEF PausesInv
  <2>1. CASE Terminated \/ UNCHANGED vars
    <3>1. UNCHANGED <<messages, unread, unshown, stack, pc>>
      BY <2>1, Zenon DEF Terminated, vars
    <3> QED
      BY <3>1, PausesStill DEF PausesInv, Locked
  <2> QED
    BY <2>1, ThreadPauses, BeginPauses, HandlerStepPauses DEF Next
<1> QED
  BY <1>1, <1>2, PyVizTypeOK, PTL DEF Spec
=============================================================================
