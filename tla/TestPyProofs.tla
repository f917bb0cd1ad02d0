---------------------------- MODULE TestPyProofs ----------------------------
(***************************************************************************)
(* Proofs about TestPy, for any workers, jobs, examples and exit codes:    *)
(* after an interrupt a worker launches at most one more child, a worker   *)
(* goes home only when no job is left in the queue, an exit status of 0    *)
(* means that every child returned 0, and only a suite that crashed with   *)
(* its output garbled spoils the results file.                             *)
(***************************************************************************)
EXTENDS TestPy, FiniteSetTheorems, TLAPS

\* A worker that has launched a child after the interrupt is past the check
\* that it would need to pass again.
LateOnce ==
  /\ exiting \in BOOLEAN
  /\ \A w \in Workers :
       /\ late[w] \in {0, 1}
       /\ late[w] = 1 => exiting /\ pc[w] # "launch"
InterruptInv ==
  /\ DOMAIN pc = Workers /\ DOMAIN late = Workers
  /\ LateOnce

\* The breaks come behind all jobs, in the queue and in time.
BreaksLast ==
  /\ \A i, k \in DOMAIN input : i < k /\ input[i] = Break => input[k] = Break
  /\ (\E i \in DOMAIN input : input[i] = Break) => queued >= NJobs
Home == \E w \in Workers : pc[w] = "returned"
QueueInv ==
  /\ DOMAIN pc = Workers
  /\ input \in Seq(Jobs \union {Break}) /\ queued \in Nat
  /\ BreaksLast
  /\ Home => queued >= NJobs
  /\ NoJobLeftBehind

-----------------------------------------------------------------------------
\* A worker goes where it is said to go, and the others stay.
LEMMA GotoPlace ==
  ASSUME DOMAIN pc = Workers, NEW w \in Workers, NEW place, Goto(w, place)
  PROVE  /\ DOMAIN pc' = Workers /\ pc'[w] = place
         /\ \A v \in Workers \ {w} : pc'[v] = pc[v]
BY DEF Goto

\* The steps of a worker other than a launch do not lead to one after the
\* interrupt.
LEMMA NoLaunch ==
  ASSUME InterruptInv, NEW w \in Workers, NEW place, Goto(w, place),
         UNCHANGED <<exiting, late>>, exiting => place # "launch"
  PROVE  InterruptInv'
BY GotoPlace DEF InterruptInv, LateOnce

LEMMA WorkerInterrupt ==
  ASSUME InterruptInv, NEW w \in Workers, Worker(w) \/ Raise(w)
  PROVE  InterruptInv'
<1>1. CASE Get(w)
  <2>1. PICK place \in {"returned", "check"} : Goto(w, place)
    BY <1>1 DEF Get, Take
  <2> QED
    BY <1>1, <2>1, NoLaunch DEF Get
<1>2. CASE Check(w)
  <2>1. CASE exiting
    BY <1>2, <2>1, NoLaunch DEF Check, Proceed, Put
  <2>2. CASE ~exiting
    <3>1. PICK place \in {"get", "launch"} : Goto(w, place)
      BY <1>2, <2>2 DEF Check, Proceed, Put
    <3> QED
      BY <1>2, <2>2, <3>1, NoLaunch DEF Check
  <2> QED
    BY <2>1, <2>2
<1>3. CASE Launch(w)
  <2>1. /\ DOMAIN pc' = Workers /\ pc'[w] = "running"
        /\ \A v \in Workers \ {w} : pc'[v] = pc[v]
    BY <1>3, GotoPlace DEF Launch, InterruptInv
  <2>2. late[w] = 0
    BY <1>3 DEF Launch, InterruptInv, LateOnce
  <2>3. /\ DOMAIN late' = Workers /\ exiting' = exiting
        /\ late'[w] = IF exiting THEN 1 ELSE 0
        /\ \A v \in Workers \ {w} : late'[v] = late[v]
    BY <1>3, <2>2 DEF Launch, InterruptInv
  <2> QED
    BY <2>1, <2>3 DEF InterruptInv, LateOnce
<1>4. CASE Finish(w)
  BY <1>4, NoLaunch DEF Finish, Put
<1>5. CASE Raise(w)
  BY <1>5, NoLaunch DEF Raise
<1> QED
  BY <1>1, <1>2, <1>3, <1>4, <1>5 DEF Worker

LEMMA InterruptNext ==
  ASSUME InterruptInv, [Next]_vars
  PROVE  InterruptInv'
<1>1. CASE Interrupt
  BY <1>1 DEF Interrupt, InterruptInv, LateOnce, workers
<1>2. CASE Main \/ UNCHANGED vars
  <2>1. UNCHANGED <<pc, late, exiting>>
    BY <1>2 DEF Main, QueueJob, QueueBreak, AllQueued, Collect, Exit, workers, vars
  <2> QED
    BY <2>1 DEF InterruptInv, LateOnce
<1>3. CASE \E w \in Workers : Worker(w) \/ Raise(w)
  BY <1>3, WorkerInterrupt
<1> QED
  BY <1>1, <1>2, <1>3 DEF Next

\* After an interrupt a worker launches at most the one child it was about to
\* launch (sigint_hook and worker_thread of test.py).
THEOREM TestPyStopsAfterInterrupt == Spec => []StopsAfterInterrupt
<1>1. ASSUME Init PROVE InterruptInv
  <2>1. exiting \in BOOLEAN
    BY <1>1, Zenon DEF Init
  <2> QED
    BY <1>1, <2>1 DEF Init, InterruptInv, LateOnce
<1>2. InterruptInv /\ [Next]_vars => InterruptInv'
  BY InterruptNext
<1>3. InterruptInv => StopsAfterInterrupt
  BY DEF InterruptInv, LateOnce, StopsAfterInterrupt
<1> QED
  BY <1>1, <1>2, <1>3, PTL DEF Spec

-----------------------------------------------------------------------------
\* Every step but Get, QueueJob and QueueBreak leaves the queue alone and sends
\* nobody home.
LEMMA QueueRest ==
  ASSUME QueueInv, UNCHANGED <<input, queued>>, DOMAIN pc' = Workers,
         Home' => Home
  PROVE  QueueInv'
BY DEF QueueInv, BreaksLast, NoJobLeftBehind, Home

LEMMA QueueJobInv ==
  ASSUME QueueInv, QueueJob
  PROVE  QueueInv'
<1>1. /\ input' = Append(input, queued + 1) /\ queued' = queued + 1
      /\ queued + 1 \in Jobs /\ pc' = pc /\ queued < NJobs
  BY TestPyAssumption DEF QueueJob, QueueInv, Jobs, workers
<1>2. ~Home /\ \A i \in DOMAIN input : input[i] # Break
  BY <1>1, TestPyAssumption DEF QueueInv, BreaksLast
<1>3. queued + 1 # Break
  BY <1>1, TestPyAssumption
<1>4. /\ input' \in Seq(Jobs \union {Break})
      /\ \A i \in DOMAIN input' : input'[i] # Break
  BY <1>1, <1>2, <1>3 DEF QueueInv
<1> QED
  BY <1>1, <1>2, <1>4 DEF QueueInv, BreaksLast, NoJobLeftBehind, Home

LEMMA QueueBreakInv ==
  ASSUME QueueInv, QueueBreak
  PROVE  QueueInv'
<1>1. /\ input' = Append(input, Break) /\ queued' = queued + 1
      /\ pc' = pc /\ queued >= NJobs
  BY DEF QueueBreak, workers
<1>2. /\ input' \in Seq(Jobs \union {Break})
      /\ \A i \in DOMAIN input' :
           \/ i \in DOMAIN input /\ input'[i] = input[i]
           \/ i = Len(input) + 1 /\ input'[i] = Break
      /\ DOMAIN input = 1 .. Len(input) /\ Len(input) \in Nat
  BY <1>1 DEF QueueInv
<1>3. BreaksLast'
  BY <1>1, <1>2, TestPyAssumption DEF QueueInv, BreaksLast
<1>4. NoJobLeftBehind'
  BY <1>1, <1>2 DEF QueueInv, NoJobLeftBehind
<1> QED
  BY <1>1, <1>2, <1>3, <1>4, TestPyAssumption DEF QueueInv, Home

LEMMA GetInv ==
  ASSUME QueueInv, NEW w \in Workers, Get(w)
  PROVE  QueueInv'
<1>1. input # <<>> /\ input' = Tail(input) /\ queued' = queued
  BY DEF Get, Take, mains
<1>2. /\ input' \in Seq(Jobs \union {Break}) /\ 1 \in DOMAIN input
      /\ \A i \in DOMAIN input' : i + 1 \in DOMAIN input /\ input'[i] = input[i + 1]
      /\ \A i \in DOMAIN input' : 1 < i + 1 /\ i \in Nat
  BY <1>1 DEF QueueInv
<1>3. BreaksLast'
  <2>1. ASSUME NEW i \in DOMAIN input', NEW k \in DOMAIN input', i < k, input'[i] = Break
        PROVE  input'[k] = Break
    BY <1>2, <2>1 DEF QueueInv, BreaksLast
  <2>2. (\E i \in DOMAIN input' : input'[i] = Break) => queued' >= NJobs
    BY <1>1, <1>2 DEF QueueInv, BreaksLast
  <2> QED
    BY <2>1, <2>2 DEF BreaksLast
<1>4. CASE input[1] = Break
  <2>1. Goto(w, "returned")
    BY <1>1, <1>4 DEF Get, Take
  <2>2. DOMAIN pc' = Workers
    BY <2>1, GotoPlace DEF QueueInv
  <2>3. \A i \in DOMAIN input' : input'[i] = Break
    BY <1>2, <1>4 DEF QueueInv, BreaksLast
  <2>4. queued' >= NJobs
    BY <1>1, <1>2, <1>4 DEF QueueInv, BreaksLast
  <2> QED
    BY <1>1, <1>2, <1>3, <2>2, <2>3, <2>4 DEF QueueInv, NoJobLeftBehind
<1>5. CASE input[1] # Break
  <2>1. Goto(w, "check")
    BY <1>1, <1>5 DEF Get, Take
  <2>2. DOMAIN pc' = Workers /\ (Home' => Home)
    BY <2>1, GotoPlace DEF QueueInv, Home
  <2>3. ~Home
    BY <1>2, <1>5 DEF QueueInv, NoJobLeftBehind, Home
  <2> QED
    BY <1>1, <1>2, <1>3, <2>2, <2>3 DEF QueueInv, NoJobLeftBehind, Home
<1> QED
  BY <1>4, <1>5

LEMMA QueueNext ==
  ASSUME QueueInv, [Next]_vars
  PROVE  QueueInv'
<1>1. CASE QueueJob
  BY <1>1, QueueJobInv
<1>2. CASE QueueBreak
  BY <1>2, QueueBreakInv
<1>3. CASE Interrupt \/ AllQueued \/ Collect \/ Exit \/ UNCHANGED vars
  <2>1. UNCHANGED <<input, queued, pc>>
    BY <1>3 DEF Interrupt, AllQueued, Collect, Exit, queues, workers, mains, vars
  <2> QED
    BY <2>1, QueueRest DEF Home, QueueInv
<1>4. ASSUME NEW w \in Workers, Check(w) \/ Launch(w) \/ Finish(w) \/ Raise(w)
      PROVE  QueueInv'
  <2>1. PICK place \in {"get", "launch", "running", "raised"} : Goto(w, place)
    BY <1>4 DEF Check, Proceed, Put, Launch, Finish, Raise
  <2>2. UNCHANGED <<input, queued>>
    BY <1>4 DEF Check, Launch, Finish, Raise, mains, queues
  <2> QED
    BY <2>1, <2>2, GotoPlace, QueueRest DEF QueueInv, Home
<1>5. ASSUME NEW w \in Workers, Get(w) PROVE QueueInv'
  BY <1>5, GetInv
<1> QED
  BY <1>1, <1>2, <1>3, <1>4, <1>5 DEF Next, Main, Worker

\* A worker goes home only when no job is left (the breaks of run_tests and
\* the get of worker_thread).
THEOREM TestPyNoJobLeftBehind == Spec => []NoJobLeftBehind
<1>1. Init => QueueInv
  BY DEF Init, QueueInv, BreaksLast, NoJobLeftBehind, Home
<1>2. QueueInv /\ [Next]_vars => QueueInv'
  BY QueueNext
<1>3. QueueInv => NoJobLeftBehind
  BY DEF QueueInv
<1> QED
  BY <1>1, <1>2, <1>3, PTL DEF Spec

-----------------------------------------------------------------------------
(* Where the jobs are.  A job is in one place at a time: not queued yet, in *)
(* the input queue, with a worker, in the output queue or collected.  So    *)
(* what a worker does to its job concerns no job that the main thread has.  *)

JobsIn(s) == {s[i] : i \in DOMAIN s} \ {Break}
Distinct(s) == \A i, k \in DOMAIN s : s[i] = s[k] /\ s[i] # Break => i = k

\* A worker has its job until it puts it; a job raised over stays with it.
Holds(w) == pc[w] \in {"check", "launch", "running", "raised"}
Held == {job[w] : w \in {v \in Workers : Holds(v)}}
Done == JobsIn(output) \union JobsIn(collected)

QueueTypes ==
  /\ input \in Seq(Jobs \union {Break}) /\ output \in Seq(Jobs) /\ collected \in Seq(Jobs)
  /\ queued \in Nat
OneHolder == \A v, w \in Workers : Holds(v) /\ Holds(w) /\ job[v] = job[w] => v = w
Holders ==
  /\ DOMAIN pc = Workers /\ DOMAIN job = Workers
  /\ \A w \in Workers : Holds(w) => job[w] \in Jobs
  /\ OneHolder
Single == Distinct(input) /\ Distinct(output) /\ Distinct(collected)
Apart ==
  /\ JobsIn(input) \intersect Held = {}
  /\ (JobsIn(input) \union Held) \intersect Done = {}
  /\ JobsIn(output) \intersect JobsIn(collected) = {}
Issued == \A j \in JobsIn(input) \union Held \union Done : j <= queued
PlaceInv == QueueTypes /\ Holders /\ Single /\ Apart /\ Issued

LEMMA JobsInJobs ==
  ASSUME NEW s \in Seq(Jobs \union {Break})
  PROVE  JobsIn(s) \subseteq Jobs
BY DEF JobsIn

LEMMA AppendJobs ==
  ASSUME NEW s \in Seq(Jobs \union {Break}), NEW x \in Jobs \union {Break},
         Distinct(s), x \notin JobsIn(s)
  PROVE  /\ Append(s, x) \in Seq(Jobs \union {Break}) /\ Distinct(Append(s, x))
         /\ JobsIn(Append(s, x)) = JobsIn(s) \union ({x} \ {Break})
<1> DEFINE r == Append(s, x)
<1>1. /\ r \in Seq(Jobs \union {Break}) /\ DOMAIN s = 1 .. Len(s) /\ Len(s) \in Nat
      /\ DOMAIN r = 1 .. Len(s) + 1 /\ r[Len(s) + 1] = x
      /\ \A i \in DOMAIN s : r[i] = s[i]
  OBVIOUS
<1> HIDE DEF r
<1>2. \A i \in DOMAIN r : i \in DOMAIN s \/ i = Len(s) + 1
  BY <1>1
<1>3. \A i \in DOMAIN s : i \in DOMAIN r
  BY <1>1
<1>4. Len(s) + 1 \in DOMAIN r
  BY <1>1
<1>5. JobsIn(r) = JobsIn(s) \union ({x} \ {Break})
  BY <1>1, <1>2, <1>3, <1>4 DEF JobsIn
<1>6. Distinct(r)
  <2> SUFFICES ASSUME NEW i \in DOMAIN r, NEW k \in DOMAIN r, r[i] = r[k], r[i] # Break
               PROVE  i = k
    BY DEF Distinct
  <2>1. CASE i \in DOMAIN s /\ k \in DOMAIN s
    BY <1>1, <2>1 DEF Distinct
  <2>2. CASE i \in DOMAIN s /\ k = Len(s) + 1
    BY <1>1, <2>2 DEF JobsIn
  <2>3. CASE i = Len(s) + 1 /\ k \in DOMAIN s
    BY <1>1, <2>3 DEF JobsIn
  <2> QED
    BY <1>2, <2>1, <2>2, <2>3
<1> QED
  BY <1>1, <1>5, <1>6 DEF r

LEMMA TailJobs ==
  ASSUME NEW s \in Seq(Jobs \union {Break}), s # <<>>, Distinct(s)
  PROVE  /\ Tail(s) \in Seq(Jobs \union {Break}) /\ Distinct(Tail(s))
         /\ Head(s) \in Jobs \union {Break} /\ JobsIn(Tail(s)) = JobsIn(s) \ {Head(s)}
         /\ Head(s) # Break => Head(s) \in JobsIn(s)
<1> DEFINE r == Tail(s)
<1>1. /\ r \in Seq(Jobs \union {Break}) /\ DOMAIN s = 1 .. Len(s) /\ Len(s) \in Nat
      /\ 1 \in DOMAIN s /\ Head(s) = s[1] /\ DOMAIN r = 1 .. Len(s) - 1
      /\ \A i \in DOMAIN r : r[i] = s[i + 1]
  OBVIOUS
<1> HIDE DEF r
<1>2. \A i \in DOMAIN r : i \in Nat /\ i + 1 \in DOMAIN s /\ i + 1 # 1
  BY <1>1
<1>3. \A i \in DOMAIN s : i = 1 \/ \E k \in DOMAIN r : i = k + 1
  <2> SUFFICES ASSUME NEW i \in DOMAIN s, i # 1 PROVE \E k \in DOMAIN r : i = k + 1
    OBVIOUS
  <2>1. i - 1 \in DOMAIN r /\ i = (i - 1) + 1
    BY <1>1
  <2> QED
    BY <2>1
<1>4. Distinct(r)
  <2> SUFFICES ASSUME NEW i \in DOMAIN r, NEW k \in DOMAIN r, r[i] = r[k], r[i] # Break
               PROVE  i = k
    BY DEF Distinct
  <2>1. i + 1 = k + 1
    BY <1>1, <1>2 DEF Distinct
  <2> QED
    BY <1>2, <2>1
<1>5. \A i \in DOMAIN r : r[i] # Break => r[i] # Head(s)
  BY <1>1, <1>2 DEF Distinct
<1>6. JobsIn(r) = JobsIn(s) \ {Head(s)}
  <2>1. ASSUME NEW x \in JobsIn(r) PROVE x \in JobsIn(s) \ {Head(s)}
    BY <1>1, <1>2, <1>5 DEF JobsIn
  <2>2. ASSUME NEW x \in JobsIn(s) \ {Head(s)} PROVE x \in JobsIn(r)
    <3>1. PICK i \in DOMAIN s : x = s[i]
      BY DEF JobsIn
    <3>2. PICK k \in DOMAIN r : i = k + 1
      BY <1>1, <1>3, <3>1
    <3> QED
      BY <1>1, <3>1, <3>2 DEF JobsIn
  <2> QED
    BY <2>1, <2>2
<1> QED
  BY <1>1, <1>4, <1>6 DEF JobsIn, r

LEMMA PlacesOfJobs ==
  ASSUME QueueTypes, Holders
  PROVE  /\ output \in Seq(Jobs \union {Break}) /\ collected \in Seq(Jobs \union {Break})
         /\ JobsIn(input) \subseteq Jobs /\ Held \subseteq Jobs /\ Done \subseteq Jobs
<1>1. output \in Seq(Jobs \union {Break}) /\ collected \in Seq(Jobs \union {Break})
  BY DEF QueueTypes
<1>2. JobsIn(input) \subseteq Jobs /\ JobsIn(output) \subseteq Jobs /\ JobsIn(collected) \subseteq Jobs
  BY <1>1, JobsInJobs DEF QueueTypes
<1>3. Held \subseteq Jobs
  BY DEF Held, Holders
<1> QED
  BY <1>1, <1>2, <1>3 DEF Done

(* The jobs with the workers, when one takes a job, puts it or goes on with *)
(* it.                                                                      *)

LEMMA HeldRest ==
  ASSUME Holders, UNCHANGED <<pc, job>>
  PROVE  Holders' /\ Held' = Held
BY DEF Holders, OneHolder, Held, Holds

LEMMA HeldOn ==
  ASSUME Holders, NEW w \in Workers, NEW place, Goto(w, place), job' = job,
         Holds(w) <=> place \in {"check", "launch", "running", "raised"}
  PROVE  Holders' /\ Held' = Held
<1>1. /\ DOMAIN pc' = Workers /\ pc'[w] = place
      /\ \A v \in Workers \ {w} : pc'[v] = pc[v]
  BY GotoPlace DEF Holders
<1>2. \A v \in Workers : Holds(v)' <=> Holds(v)
  BY <1>1 DEF Holds
<1>3. {v \in Workers : Holds(v)}' = {v \in Workers : Holds(v)}
  BY <1>2
<1>4. Held' = Held
  BY <1>3 DEF Held
<1>5. OneHolder'
  BY <1>2 DEF Holders, OneHolder
<1> QED
  BY <1>1, <1>2, <1>4, <1>5 DEF Holders

LEMMA HeldPut ==
  ASSUME Holders, NEW w \in Workers, Goto(w, "get"), job' = job, Holds(w)
  PROVE  Holders' /\ Held' = Held \ {job[w]} /\ job[w] \in Held
<1>1. /\ DOMAIN pc' = Workers /\ pc'[w] = "get"
      /\ \A v \in Workers \ {w} : pc'[v] = pc[v]
  BY GotoPlace DEF Holders
<1>2. \A v \in Workers : Holds(v)' <=> Holds(v) /\ v # w
  BY <1>1 DEF Holds
<1>3. {v \in Workers : Holds(v)}' = {v \in Workers : Holds(v)} \ {w}
  BY <1>2
<1>4. Held' = Held \ {job[w]}
  BY <1>3 DEF Held, Holders, OneHolder
<1>5. OneHolder'
  BY <1>2 DEF Holders, OneHolder
<1> QED
  BY <1>1, <1>2, <1>4, <1>5 DEF Holders, Held

LEMMA HeldTake ==
  ASSUME Holders, NEW w \in Workers, Goto(w, "check"), ~Holds(w),
         NEW j \in Jobs, job' = [job EXCEPT ![w] = j], j \notin Held
  PROVE  Holders' /\ Held' = Held \union {j}
<1>1. /\ DOMAIN pc' = Workers /\ pc'[w] = "check"
      /\ \A v \in Workers \ {w} : pc'[v] = pc[v]
  BY GotoPlace DEF Holders
<1>2. /\ DOMAIN job' = Workers /\ job'[w] = j
      /\ \A v \in Workers \ {w} : job'[v] = job[v]
  BY DEF Holders
<1>3. \A v \in Workers : Holds(v)' <=> Holds(v) \/ v = w
  BY <1>1 DEF Holds
<1>4. {v \in Workers : Holds(v)}' = {v \in Workers : Holds(v)} \union {w}
  BY <1>3
<1>5. Held' = Held \union {j}
  <2> DEFINE H == {v \in Workers : Holds(v)}
  <2>1. Held' = {job'[v] : v \in H \union {w}} /\ Held = {job[v] : v \in H} /\ w \notin H
    BY <1>4 DEF Held
  <2>2. \A v \in H : job'[v] = job[v]
    BY <1>2, <2>1
  <2> HIDE DEF H
  <2> QED
    BY <1>2, <2>1, <2>2
<1>6. OneHolder'
  <2>1. \A v \in Workers : Holds(v) => job[v] # j
    BY DEF Held
  <2> QED
    BY <1>2, <1>3, <2>1 DEF Holders, OneHolder
<1> QED
  BY <1>1, <1>2, <1>3, <1>5, <1>6 DEF Holders

LEMMA HeldHome ==
  ASSUME Holders, NEW w \in Workers, Goto(w, "returned"), ~Holds(w),
         NEW j, job' = [job EXCEPT ![w] = j]
  PROVE  Holders' /\ Held' = Held
<1>1. /\ DOMAIN pc' = Workers /\ pc'[w] = "returned"
      /\ \A v \in Workers \ {w} : pc'[v] = pc[v]
  BY GotoPlace DEF Holders
<1>2. DOMAIN job' = Workers /\ \A v \in Workers \ {w} : job'[v] = job[v]
  BY DEF Holders
<1>3. \A v \in Workers : (Holds(v)' <=> Holds(v)) /\ (Holds(v) => job'[v] = job[v])
  BY <1>1, <1>2 DEF Holds
<1>4. {v \in Workers : Holds(v)}' = {v \in Workers : Holds(v)}
  BY <1>3
<1>5. Held' = Held
  BY <1>3, <1>4 DEF Held
<1>6. OneHolder'
  BY <1>3 DEF Holders, OneHolder
<1> QED
  BY <1>1, <1>2, <1>3, <1>5, <1>6 DEF Holders

-----------------------------------------------------------------------------
(* Every step keeps the jobs in their one place each. *)

LEMMA NotBreak == \A j \in Jobs : j # Break
BY TestPyAssumption

\* A job put goes from its worker to the output queue.
LEMMA PutPlace ==
  ASSUME PlaceInv, NEW w \in Workers, Holds(w), Put(w),
         UNCHANGED <<input, job, queued, collected>>
  PROVE  /\ PlaceInv' /\ Held' = Held \ {job[w]} /\ Done' = Done \union {job[w]}
         /\ job[w] \in Jobs \ Done
<1>1. Holders' /\ Held' = Held \ {job[w]} /\ job[w] \in Held
  BY HeldPut DEF PlaceInv, Put
<1>2. job[w] \in Jobs /\ job[w] # Break
  BY NotBreak DEF PlaceInv, Holders
<1>3. job[w] \notin Done /\ job[w] \notin JobsIn(input)
  BY <1>1 DEF PlaceInv, Apart
<1>4. /\ output' \in Seq(Jobs) /\ Distinct(output')
      /\ JobsIn(output') = JobsIn(output) \union {job[w]}
  <2>1. output' = Append(output, job[w])
    BY DEF Put
  <2>2. output' \in Seq(Jobs)
    BY <1>2, <2>1 DEF PlaceInv, QueueTypes
  <2>3. Distinct(output') /\ JobsIn(output') = JobsIn(output) \union ({job[w]} \ {Break})
    BY <1>2, <1>3, <2>1, AppendJobs, PlacesOfJobs DEF PlaceInv, Single, Done
  <2> QED
    BY <1>2, <2>2, <2>3
<1>5. JobsIn(input') = JobsIn(input) /\ JobsIn(collected') = JobsIn(collected)
  BY DEF JobsIn
<1>6. Done' = Done \union {job[w]}
  BY <1>4, <1>5 DEF Done
<1>7. Apart'
  BY <1>1, <1>3, <1>4, <1>5, <1>6 DEF PlaceInv, Apart, Done
<1>8. Issued'
  BY <1>1, <1>5, <1>6 DEF PlaceInv, Issued
<1>9. QueueTypes' /\ Single'
  BY <1>4 DEF PlaceInv, QueueTypes, Single, Distinct
<1> QED
  BY <1>1, <1>2, <1>3, <1>6, <1>7, <1>8, <1>9 DEF PlaceInv

\* Every step that moves no job.
LEMMA RestPlace ==
  ASSUME PlaceInv, Holders', Held' = Held, UNCHANGED <<input, output, collected, queued>>
  PROVE  PlaceInv' /\ Done' = Done
BY DEF PlaceInv, QueueTypes, Single, Distinct, Apart, Issued, Done, JobsIn

LEMMA GetPlace ==
  ASSUME PlaceInv, NEW w \in Workers, Get(w)
  PROVE  PlaceInv' /\ Done' = Done
<1>1. /\ input # <<>> /\ input' = Tail(input) /\ job' = [job EXCEPT ![w] = Head(input)]
      /\ ~Holds(w) /\ UNCHANGED <<output, queued, collected>>
  BY DEF Get, Take, mains, Holds
<1>2. /\ input' \in Seq(Jobs \union {Break}) /\ Distinct(input')
      /\ JobsIn(input') = JobsIn(input) \ {Head(input)}
      /\ Head(input) # Break => Head(input) \in JobsIn(input) /\ Head(input) \in Jobs
  BY <1>1, TailJobs DEF PlaceInv, QueueTypes, Single
<1>3. Done' = Done
  BY <1>1 DEF Done, JobsIn
<1>4. QueueTypes' /\ Single'
  BY <1>1, <1>2 DEF PlaceInv, QueueTypes, Single, Distinct
<1>5. CASE Head(input) = Break
  <2>1. Holders' /\ Held' = Held
    BY <1>1, <1>5, HeldHome DEF PlaceInv, Get, Take
  <2> QED
    BY <1>1, <1>2, <1>3, <1>4, <2>1 DEF PlaceInv, Apart, Issued, Done
<1>6. CASE Head(input) # Break
  <2>1. Head(input) \notin Held /\ Head(input) \notin Done
    BY <1>2, <1>6 DEF PlaceInv, Apart
  <2>2. Holders' /\ Held' = Held \union {Head(input)}
    BY <1>1, <1>2, <1>6, <2>1, HeldTake DEF PlaceInv, Get, Take
  <2>3. JobsIn(output') = JobsIn(output) /\ JobsIn(collected') = JobsIn(collected)
    BY <1>1 DEF JobsIn
  <2>4. Apart'
    BY <1>2, <1>3, <1>6, <2>1, <2>2, <2>3 DEF PlaceInv, Apart
  <2>5. Issued'
    BY <1>1, <1>2, <1>3, <1>6, <2>2 DEF PlaceInv, Issued
  <2> QED
    BY <1>3, <1>4, <2>2, <2>4, <2>5 DEF PlaceInv
<1> QED
  BY <1>5, <1>6

LEMMA QueuePlace ==
  ASSUME PlaceInv, QueueJob \/ QueueBreak
  PROVE  PlaceInv' /\ Done' = Done
<1>0. UNCHANGED <<output, collected, pc, job>> /\ queued' = queued + 1 /\ queued \in Nat
  BY DEF QueueJob, QueueBreak, workers, PlaceInv, QueueTypes
<1>1. PICK x \in Jobs \union {Break} :
        input' = Append(input, x) /\ (x # Break => x = queued + 1)
  <2>1. CASE QueueJob
    <3>1. queued + 1 \in Jobs /\ input' = Append(input, queued + 1)
      BY <1>0, <2>1, TestPyAssumption DEF QueueJob, Jobs
    <3> QED
      BY <3>1
  <2>2. CASE QueueBreak
    BY <2>2 DEF QueueBreak
  <2> QED
    BY <2>1, <2>2
<1>2. x # Break => x \notin JobsIn(input) \union Held \union Done
  BY <1>0, <1>1 DEF PlaceInv, Issued
<1>3. x \notin JobsIn(input)
  BY <1>2 DEF JobsIn
<1>4. /\ input' \in Seq(Jobs \union {Break}) /\ Distinct(input')
      /\ JobsIn(input') = JobsIn(input) \union ({x} \ {Break})
  BY <1>1, <1>3, AppendJobs DEF PlaceInv, QueueTypes, Single
<1>5. Holders' /\ Held' = Held
  BY <1>0, HeldRest DEF PlaceInv
<1>6. JobsIn(output') = JobsIn(output) /\ JobsIn(collected') = JobsIn(collected) /\ Done' = Done
  BY <1>0 DEF JobsIn, Done
<1>7. QueueTypes' /\ Single'
  BY <1>0, <1>4 DEF PlaceInv, QueueTypes, Single, Distinct
<1>8. Apart'
  BY <1>2, <1>4, <1>5, <1>6 DEF PlaceInv, Apart
<1>9. Issued'
  <2>1. JobsIn(input) \union Held \union Done \subseteq Nat
    BY PlacesOfJobs, TestPyAssumption DEF PlaceInv, Jobs
  <2>2. \A j \in JobsIn(input) \union Held \union Done : j <= queued + 1
    BY <1>0, <2>1 DEF PlaceInv, Issued
  <2>3. x # Break => x <= queued + 1
    BY <1>0, <1>1
  <2> QED
    BY <1>0, <1>4, <1>5, <1>6, <2>2, <2>3 DEF Issued
<1> QED
  BY <1>5, <1>6, <1>7, <1>8, <1>9 DEF PlaceInv

LEMMA CollectPlace ==
  ASSUME PlaceInv, Collect
  PROVE  /\ PlaceInv' /\ Done' = Done /\ Head(output) \in JobsIn(output)
         /\ Head(output) \in Jobs \ JobsIn(collected)
         /\ JobsIn(collected') = JobsIn(collected) \union {Head(output)}
<1> DEFINE j == Head(output)
<1>1. /\ output # <<>> /\ output' = Tail(output) /\ collected' = Append(collected, j)
      /\ UNCHANGED <<input, pc, job, queued>>
  BY DEF Collect, workers
<1>2. j \in Jobs /\ j # Break /\ output' \in Seq(Jobs) /\ collected' \in Seq(Jobs)
  BY <1>1, NotBreak DEF PlaceInv, QueueTypes
<1> HIDE DEF j
<1>3. /\ Distinct(output') /\ JobsIn(output') = JobsIn(output) \ {j} /\ j \in JobsIn(output)
  BY <1>1, <1>2, TailJobs, PlacesOfJobs DEF PlaceInv, Single, j
<1>4. j \notin JobsIn(collected)
  BY <1>3 DEF PlaceInv, Apart
<1>5. Distinct(collected') /\ JobsIn(collected') = JobsIn(collected) \union ({j} \ {Break})
  BY <1>1, <1>2, <1>4, AppendJobs, PlacesOfJobs DEF PlaceInv, Single
<1>6. Holders' /\ Held' = Held /\ JobsIn(input') = JobsIn(input)
  BY <1>1, HeldRest DEF PlaceInv, JobsIn
<1>7. Done' = Done
  BY <1>2, <1>3, <1>5 DEF Done
<1>8. QueueTypes' /\ Single' /\ Issued'
  BY <1>1, <1>2, <1>3, <1>5, <1>6, <1>7 DEF PlaceInv, QueueTypes, Single, Distinct, Issued
<1>9. Apart'
  BY <1>2, <1>3, <1>4, <1>5, <1>6, <1>7 DEF PlaceInv, Apart
<1> QED
  BY <1>2, <1>3, <1>4, <1>5, <1>6, <1>7, <1>8, <1>9 DEF PlaceInv, j

\* What the steps of the specification do to the places of the jobs: one worker
\* may put the job it has, and nothing else becomes done.
LEMMA WorkerPlace ==
  ASSUME PlaceInv, NEW w \in Workers, Worker(w) \/ Raise(w)
  PROVE  /\ PlaceInv'
         /\ \/ Done' = Done /\ ~Finish(w)
            \/ Check(w) /\ Put(w) /\ Done' = Done \union {job[w]} /\ job[w] \in Jobs \ Done
            \/ Finish(w) /\ Done' = Done \union {job[w]} /\ job[w] \in Jobs \ Done
<1>1. CASE Get(w)
  BY <1>1, GetPlace DEF Get, Finish
<1>2. CASE Check(w)
  <2>1. Holds(w) /\ ~Finish(w) /\ UNCHANGED <<input, job, queued, collected>>
    BY <1>2 DEF Check, Holds, Finish, mains
  <2>2. CASE Put(w)
    BY <1>2, <2>1, <2>2, PutPlace
  <2>3. CASE ~Put(w)
    <3>1. Goto(w, "launch") /\ output' = output
      BY <1>2, <2>3 DEF Check, Proceed
    <3>2. Holders' /\ Held' = Held
      BY <2>1, <3>1, HeldOn DEF PlaceInv
    <3> QED
      BY <2>1, <3>1, <3>2, RestPlace
  <2> QED
    BY <2>2, <2>3
<1>3. CASE Launch(w) \/ Raise(w)
  <2>1. PICK place \in {"running", "raised"} : Goto(w, place)
    BY <1>3 DEF Launch, Raise
  <2>3. /\ Holds(w) /\ UNCHANGED <<input, job, queued, collected, output>>
    BY <1>3 DEF Launch, Raise, Holds, mains, queues
  <2>4. Holders' /\ Held' = Held
    BY <2>1, <2>3, HeldOn DEF PlaceInv
  <2>5. PlaceInv' /\ Done' = Done
    BY <2>3, <2>4, RestPlace
  <2>6. ~Finish(w)
    <3> SUFFICES ASSUME Finish(w) PROVE FALSE
      OBVIOUS
    <3>1. pc'[w] = "get" /\ pc'[w] = place
      BY <2>1, GotoPlace DEF Finish, Put, PlaceInv, Holders
    <3> QED
      BY <3>1
  <2> QED
    BY <2>5, <2>6
<1>4. CASE Finish(w)
  <2>1. Holds(w) /\ Put(w) /\ UNCHANGED <<input, job, queued, collected>>
    BY <1>4 DEF Finish, Holds, mains
  <2> QED
    BY <1>4, <2>1, PutPlace
<1> QED
  BY <1>1, <1>2, <1>3, <1>4 DEF Worker

LEMMA MainPlace ==
  ASSUME PlaceInv, Interrupt \/ Main \/ UNCHANGED vars
  PROVE  PlaceInv' /\ Done' = Done
<1>1. CASE QueueJob \/ QueueBreak
  BY <1>1, QueuePlace
<1>2. CASE Collect
  BY <1>2, CollectPlace
<1>3. CASE Interrupt \/ AllQueued \/ Exit \/ UNCHANGED vars
  <2>1. UNCHANGED <<input, output, collected, queued, pc, job>>
    BY <1>3, Zenon DEF Interrupt, AllQueued, Exit, queues, workers, mains, vars
  <2>2. Holders' /\ Held' = Held
    BY <2>1, HeldRest DEF PlaceInv
  <2> QED
    BY <2>1, <2>2, RestPlace
<1> QED
  BY <1>1, <1>2, <1>3 DEF Main

-----------------------------------------------------------------------------
(* What is known of a job that is done: it was a break, it was skipped, or  *)
(* its child has ended; and nothing of it changes any more.                 *)

Ran(j) ==
  /\ returncode[j] = exitCode[j] \/ (j \in garbled /\ returncode[j] = 1)
  /\ j \notin Examples /\ exitCode[j] \in {0, 1, 2} => tmpFile[j] = "complete"
RanInv ==
  /\ DOMAIN returncode = Jobs /\ DOMAIN tmpFile = Jobs /\ DOMAIN exitCode = Jobs
  /\ garbled \subseteq Done
  /\ \A j \in Done : j \in isBreak \union Skipped \/ Ran(j)

Frozen(j) ==
  /\ returncode'[j] = returncode[j] /\ exitCode'[j] = exitCode[j] /\ tmpFile'[j] = tmpFile[j]
  /\ j \in isBreak' <=> j \in isBreak
  /\ j \in garbled' <=> j \in garbled

LEMMA FinishRan ==
  ASSUME PlaceInv, RanInv, NEW w \in Workers, Finish(w), job[w] \in Jobs \ Done,
         Done' = Done \union {job[w]}
  PROVE  RanInv' /\ \A j \in Done : Frozen(j)
<1>0. PICK j : j = job[w]
  OBVIOUS
<1>1. PICK code \in Codes, undecodable \in BOOLEAN :
        /\ exitCode' = [exitCode EXCEPT ![j] = code]
        /\ garbled' = IF undecodable THEN garbled \cup {j} ELSE garbled
        /\ returncode' = [returncode EXCEPT ![j] = ReturnCode(code, undecodable)]
        /\ \E f \in Leaves(j, code) : tmpFile' = [tmpFile EXCEPT ![j] = f]
  BY <1>0 DEF Finish
<1>2. PICK f \in Leaves(j, code) : tmpFile' = [tmpFile EXCEPT ![j] = f]
  BY <1>1
<1>3. isBreak' = isBreak
  BY DEF Finish
<1>4. j \in Jobs /\ j \notin Done /\ Done' = Done \union {j}
  BY <1>0
<1>5. /\ DOMAIN exitCode' = Jobs /\ DOMAIN returncode' = Jobs /\ DOMAIN tmpFile' = Jobs
      /\ exitCode'[j] = code /\ returncode'[j] = ReturnCode(code, undecodable)
      /\ tmpFile'[j] = f
  BY <1>1, <1>2, <1>4 DEF RanInv
<1>6. ASSUME NEW i \in Done PROVE Frozen(i)
  <2>1. i # j
    BY <1>4
  <2> QED
    BY <1>1, <1>2, <1>3, <2>1 DEF Frozen
<1>7. garbled' \subseteq Done'
  BY <1>1, <1>4 DEF RanInv
<1>8. Ran(j)'
  <2>1. exitCode'[j] = code /\ returncode'[j] = ReturnCode(code, undecodable) /\ tmpFile'[j] = f
    BY <1>5
  <2>2. returncode'[j] = code \/ (j \in garbled' /\ returncode'[j] = 1)
    BY <1>1, <2>1 DEF ReturnCode
  <2>3. j \notin Examples /\ code \in {0, 1, 2} => f = "complete"
    BY <1>2 DEF Leaves
  <2> QED
    BY <2>1, <2>2, <2>3 DEF Ran
<1>9. ASSUME NEW i \in Done' PROVE i \in isBreak' \union Skipped \/ Ran(i)'
  <2>1. CASE i = j
    BY <1>8, <2>1
  <2>2. CASE i \in Done
    <3>1. Frozen(i) /\ (i \in isBreak \union Skipped \/ Ran(i))
      BY <1>6, <2>2 DEF RanInv
    <3> QED
      BY <3>1 DEF Frozen, Ran
  <2> QED
    BY <1>4, <2>1, <2>2
<1> QED
  BY <1>5, <1>6, <1>7, <1>9 DEF RanInv

LEMMA RanNext ==
  ASSUME PlaceInv, RanInv, [Next]_vars
  PROVE  RanInv' /\ \A j \in Done : Frozen(j)
<1>1. CASE Interrupt \/ Main \/ UNCHANGED vars
  <2>1. UNCHANGED <<returncode, exitCode, tmpFile, garbled, isBreak>>
    BY <1>1, Zenon DEF Interrupt, Main, QueueJob, QueueBreak, AllQueued, Collect, Exit, runs, vars
  <2>2. Done' = Done
    BY <1>1, MainPlace
  <2> QED
    BY <2>1, <2>2 DEF RanInv, Ran, Frozen
<1>2. ASSUME NEW w \in Workers, Worker(w) \/ Raise(w)
      PROVE  RanInv' /\ \A j \in Done : Frozen(j)
  <2>1. CASE Finish(w)
    <3>1. Done' = Done \union {job[w]} /\ job[w] \in Jobs \ Done
      BY <1>2, <2>1, WorkerPlace
    <3> QED
      BY <2>1, <3>1, FinishRan
  <2>2. CASE Check(w) /\ ~Finish(w)
    <3>1. UNCHANGED <<returncode, exitCode, tmpFile, garbled>>
      BY <2>2 DEF Check, runs
    <3>2. CASE Put(w) /\ Done' = Done \union {job[w]} /\ job[w] \in Jobs \ Done
      <4>1. job[w] \in isBreak' \union Skipped /\ isBreak' \in {isBreak, isBreak \cup {job[w]}}
        <5>1. pc'[w] = "get"
          BY <3>2, GotoPlace DEF Put, PlaceInv, Holders
        <5>2. ~Goto(w, "launch")
          BY <5>1, GotoPlace DEF PlaceInv, Holders
        <5> QED
          BY <2>2, <5>2 DEF Check, Proceed
      <4>2. \A j \in Done : Frozen(j)
        BY <3>1, <3>2, <4>1 DEF Frozen
      <4>3. ASSUME NEW i \in Done' PROVE i \in isBreak' \union Skipped \/ Ran(i)'
        BY <3>1, <3>2, <4>1 DEF RanInv, Ran
      <4> QED
        BY <3>1, <3>2, <4>2, <4>3 DEF RanInv
    <3>3. CASE Done' = Done
      <4>1. ~Put(w)
        <5> SUFFICES ASSUME Put(w) PROVE FALSE
          OBVIOUS
        <5>1. Holds(w) /\ UNCHANGED <<input, job, queued, collected>>
          BY <2>2 DEF Check, Holds, mains
        <5>2. Done' = Done \union {job[w]} /\ job[w] \notin Done
          BY <5>1, PutPlace
        <5> QED
          BY <3>3, <5>2
      <4>2. isBreak' = isBreak
        BY <2>2, <4>1 DEF Check, Proceed
      <4> QED
        BY <3>1, <3>3, <4>2 DEF RanInv, Ran, Frozen
    <3> QED
      BY <1>2, <2>2, <3>2, <3>3, WorkerPlace
  <2>3. CASE (Get(w) \/ Launch(w) \/ Raise(w)) /\ ~Finish(w)
    <3>1. UNCHANGED <<returncode, exitCode, tmpFile, garbled, isBreak>> /\ ~Put(w)
      <4>1. UNCHANGED <<returncode, exitCode, tmpFile, garbled, isBreak>>
        BY <2>3, Zenon DEF Get, Launch, Raise, runs
      <4>2. PICK place \in {"returned", "check", "running", "raised"} : Goto(w, place)
        BY <2>3 DEF Get, Take, Launch, Raise
      <4>3. ~Put(w)
        BY <4>2, GotoPlace DEF Put, PlaceInv, Holders
      <4> QED
        BY <4>1, <4>3
    <3>2. Done' = Done
      BY <1>2, <2>3, <3>1, WorkerPlace
    <3> QED
      BY <3>1, <3>2 DEF RanInv, Ran, Frozen
  <2> QED
    BY <1>2, <2>1, <2>2, <2>3 DEF Worker
<1> QED
  BY <1>1, <1>2 DEF Next

-----------------------------------------------------------------------------
(* The counters count the jobs collected, each once, as they are: since a   *)
(* job collected is done, what was counted stays what it was.               *)

Passes(j) == j \notin Skipped /\ j \notin isBreak /\ returncode[j] = 0
SkippedJob(j) == j \in Skipped \ isBreak
PassedJobs == {j \in JobsIn(collected) : Passes(j)}
SkippedJobs == {j \in JobsIn(collected) : SkippedJob(j)}
CountInv == passed = Cardinality(PassedJobs) /\ skippedTests = Cardinality(SkippedJobs)

LEMMA FiniteJobs ==
  ASSUME PlaceInv
  PROVE  /\ IsFiniteSet(Jobs) /\ Cardinality(Jobs) = NJobs
         /\ IsFiniteSet(PassedJobs) /\ IsFiniteSet(SkippedJobs)
         /\ PassedJobs \subseteq Jobs /\ SkippedJobs \subseteq Jobs
<1>1. IsFiniteSet(Jobs) /\ Cardinality(Jobs) = NJobs
  <2>1. NJobs \in Nat /\ 1 \in Int
    BY TestPyAssumption
  <2>2. IsFiniteSet(1 .. NJobs) /\ Cardinality(1 .. NJobs) = IF 1 > NJobs THEN 0 ELSE NJobs - 1 + 1
    BY <2>1, FS_Interval
  <2> QED
    BY <2>1, <2>2 DEF Jobs
<1>2. JobsIn(collected) \subseteq Jobs
  BY PlacesOfJobs DEF PlaceInv, Done
<1>3. PassedJobs \subseteq Jobs /\ SkippedJobs \subseteq Jobs
  BY <1>2 DEF PassedJobs, SkippedJobs
<1> QED
  BY <1>1, <1>3, FS_Subset

\* A step that leaves collected and its jobs alone.
LEMMA CountRest ==
  ASSUME CountInv, UNCHANGED <<collected, passed, skippedTests>>, \A j \in Done : Frozen(j)
  PROVE  CountInv'
<1>1. JobsIn(collected') = JobsIn(collected) /\ JobsIn(collected) \subseteq Done
  BY DEF JobsIn, Done
<1>2. \A j \in JobsIn(collected) :
        (Passes(j)' <=> Passes(j)) /\ (SkippedJob(j)' <=> SkippedJob(j))
  BY <1>1 DEF Passes, SkippedJob, Frozen
<1>3. PassedJobs' = PassedJobs /\ SkippedJobs' = SkippedJobs
  BY <1>1, <1>2 DEF PassedJobs, SkippedJobs
<1> QED
  BY <1>3 DEF CountInv

LEMMA CollectCount ==
  ASSUME PlaceInv, CountInv, Collect
  PROVE  CountInv'
<1>0. PICK j : j = Head(output)
  OBVIOUS
<1>1. j \in Jobs \ JobsIn(collected) /\ JobsIn(collected') = JobsIn(collected) \union {j}
  BY <1>0, CollectPlace
<1>2. UNCHANGED <<isBreak, returncode>> /\ Count(j)
  BY <1>0 DEF Collect, runs
<1>3. PassedJobs' = IF Passes(j) THEN PassedJobs \union {j} ELSE PassedJobs
  BY <1>1, <1>2 DEF PassedJobs, Passes
<1>4. SkippedJobs' = IF SkippedJob(j) THEN SkippedJobs \union {j} ELSE SkippedJobs
  BY <1>1, <1>2 DEF SkippedJobs, SkippedJob
<1>5. j \notin PassedJobs /\ j \notin SkippedJobs
  BY <1>1 DEF PassedJobs, SkippedJobs
<1>6. /\ Cardinality(PassedJobs \union {j}) = Cardinality(PassedJobs) + 1
      /\ Cardinality(SkippedJobs \union {j}) = Cardinality(SkippedJobs) + 1
  BY <1>5, FiniteJobs, FS_AddElement
<1>7. /\ passed' = IF Passes(j) THEN passed + 1 ELSE passed
      /\ skippedTests' = IF SkippedJob(j) THEN skippedTests + 1 ELSE skippedTests
  BY <1>2 DEF Count, Passes, SkippedJob
<1> QED
  BY <1>3, <1>4, <1>6, <1>7 DEF CountInv

LEMMA CountNext ==
  ASSUME PlaceInv, RanInv, CountInv, [Next]_vars
  PROVE  CountInv'
<1>1. CASE Collect
  BY <1>1, CollectCount
<1>2. CASE ~Collect
  <2>1. UNCHANGED <<collected, passed, skippedTests>>
    BY <1>2, Zenon DEF Next, Main, Worker, Interrupt, QueueJob, QueueBreak, AllQueued, Exit,
       Get, Check, Launch, Finish, Raise, mains, vars
  <2> QED
    BY <2>1, RanNext, CountRest
<1> QED
  BY <1>1, <1>2

\* If the counts make up all jobs, every job to be run has been collected, its
\* child has ended and returned 0.
LEMMA CountSound ==
  ASSUME PlaceInv, RanInv, CountInv, Success
  PROVE  \A j \in Jobs \ Skipped : exitCode[j] = 0
<1>1. PassedJobs \intersect SkippedJobs = {}
  BY DEF PassedJobs, SkippedJobs, Passes, SkippedJob
<1>2. /\ IsFiniteSet(PassedJobs \union SkippedJobs)
      /\ Cardinality(PassedJobs \union SkippedJobs) = Cardinality(PassedJobs)
           + Cardinality(SkippedJobs) - Cardinality(PassedJobs \intersect SkippedJobs)
  BY FiniteJobs, FS_Union
<1>3. Cardinality(PassedJobs \union SkippedJobs) = Cardinality(Jobs)
  <2>1. Cardinality(PassedJobs \intersect SkippedJobs) = 0
    BY <1>1, FS_EmptySet
  <2>2. Cardinality(PassedJobs) \in Nat /\ Cardinality(SkippedJobs) \in Nat
    BY FiniteJobs, FS_CardinalityType
  <2> QED
    BY <1>2, <2>1, <2>2, FiniteJobs DEF CountInv, Success
<1>4. PassedJobs \union SkippedJobs = Jobs
  BY <1>3, FiniteJobs, FS_Subset
<1> SUFFICES ASSUME NEW j \in Jobs \ Skipped PROVE exitCode[j] = 0
  OBVIOUS
<1>5. j \in Done /\ Passes(j)
  BY <1>4 DEF PassedJobs, SkippedJobs, SkippedJob, Done
<1>6. Ran(j)
  BY <1>5 DEF RanInv, Passes
<1> QED
  BY <1>5, <1>6 DEF Ran, Passes

-----------------------------------------------------------------------------
\* The entries of the results file, and the jobs that may spoil them.
ResultsInv ==
  /\ results \in Seq([job : Jobs, whole : BOOLEAN])
  /\ SpoiltOnlyByGarbledCrash

LEMMA CollectResults ==
  ASSUME PlaceInv, RanInv, ResultsInv, Collect
  PROVE  ResultsInv'
<1>0. PICK j : j = Head(output)
  OBVIOUS
<1>1. j \in JobsIn(output) /\ j \in Jobs /\ j \in Done
  BY <1>0, CollectPlace DEF Done
<1>2. /\ UNCHANGED <<exitCode, garbled>> /\ main = "collect"
      /\ IF j \in isBreak THEN UNCHANGED <<main, results>>
         ELSE IF HasFile(j) /\ tmpFile[j] = "missing"
         THEN main' = "raised" /\ UNCHANGED results
         ELSE /\ results' = Append(results,
                   [job |-> j, whole |-> HasFile(j) => tmpFile[j] = "complete"])
              /\ UNCHANGED main
  BY <1>0 DEF Collect, runs
<1>3. j \notin isBreak /\ HasFile(j) /\ tmpFile[j] # "complete"
        => j \in garbled /\ exitCode[j] \notin {0, 1, 2}
  BY <1>1 DEF HasFile, RanInv, Ran
<1>4. CASE j \in isBreak
  BY <1>2, <1>4 DEF ResultsInv, SpoiltOnlyByGarbledCrash
<1>5. CASE j \notin isBreak /\ HasFile(j) /\ tmpFile[j] = "missing"
  <2>1. j \in garbled' /\ exitCode'[j] \notin {0, 1, 2} /\ results' = results
    BY <1>2, <1>3, <1>5
  <2> QED
    BY <2>1 DEF ResultsInv, SpoiltOnlyByGarbledCrash
<1>6. CASE j \notin isBreak /\ ~(HasFile(j) /\ tmpFile[j] = "missing")
  <2>1. PICK whole \in BOOLEAN : whole = (HasFile(j) => tmpFile[j] = "complete")
    BY Zenon
  <2> DEFINE e == [job |-> j, whole |-> whole]
  <2>2. results' = Append(results, e) /\ main' = main
    BY <1>2, <1>6, <2>1
  <2>3. e \in [job : Jobs, whole : BOOLEAN] /\ e.whole = whole
    BY <1>1
  <2> HIDE DEF e
  <2>4. /\ results' \in Seq([job : Jobs, whole : BOOLEAN])
        /\ \A i \in DOMAIN results' :
             (i \in DOMAIN results /\ results'[i] = results[i]) \/ results'[i] = e
    BY <2>2, <2>3 DEF ResultsInv
  <2>5. CASE whole
    <3>1. (\E i \in DOMAIN results' : ~results'[i].whole)
            => \E i \in DOMAIN results : ~results[i].whole
      BY <2>3, <2>4, <2>5
    <3> QED
      BY <1>2, <2>2, <2>4, <3>1 DEF ResultsInv, SpoiltOnlyByGarbledCrash
  <2>6. CASE ~whole
    <3>1. HasFile(j) /\ tmpFile[j] # "complete"
      BY <2>1, <2>6
    <3>2. j \in garbled' /\ exitCode'[j] \notin {0, 1, 2}
      BY <1>2, <1>3, <1>6, <3>1
    <3> QED
      BY <2>4, <3>2 DEF ResultsInv, SpoiltOnlyByGarbledCrash
  <2> QED
    BY <2>5, <2>6
<1> QED
  BY <1>4, <1>5, <1>6

LEMMA ResultsNext ==
  ASSUME PlaceInv, RanInv, ResultsInv, [Next]_vars
  PROVE  ResultsInv'
<1>1. CASE Collect
  BY <1>1, CollectResults
<1>2. CASE ~Collect
  <2>1. results' = results /\ (main' = "raised" => main = "raised")
    BY <1>2, Zenon DEF Next, Main, Worker, Interrupt, QueueJob, QueueBreak, AllQueued, Exit,
       Get, Check, Launch, Finish, Raise, mains, vars
  <2>2. \A j \in garbled : Frozen(j) /\ j \in garbled
    BY RanNext DEF RanInv
  <2>3. \A j \in garbled : exitCode'[j] = exitCode[j] /\ j \in garbled'
    BY <2>2 DEF Frozen
  <2> QED
    BY <2>1, <2>3 DEF ResultsInv, SpoiltOnlyByGarbledCrash
<1> QED
  BY <1>1, <1>2

-----------------------------------------------------------------------------
JobInv == PlaceInv /\ RanInv /\ CountInv /\ ResultsInv

LEMMA JobInit == Init => JobInv
<1> SUFFICES ASSUME Init PROVE JobInv
  OBVIOUS
<1>1. /\ input = <<>> /\ output = <<>> /\ collected = <<>> /\ results = <<>> /\ queued = 0
      /\ garbled = {} /\ passed = 0 /\ skippedTests = 0 /\ main = "queue"
      /\ pc = [w \in Workers |-> "get"] /\ job = [w \in Workers |-> Break]
      /\ DOMAIN returncode = Jobs /\ DOMAIN tmpFile = Jobs /\ DOMAIN exitCode = Jobs
  BY DEF Init
<1>2. JobsIn(input) = {} /\ JobsIn(output) = {} /\ JobsIn(collected) = {} /\ Held = {} /\ Done = {}
  BY <1>1 DEF JobsIn, Held, Holds, Done
<1>3. PlaceInv
  BY <1>1, <1>2 DEF PlaceInv, QueueTypes, Holders, OneHolder, Holds, Single, Distinct, Apart, Issued
<1>4. RanInv
  BY <1>1, <1>2 DEF RanInv
<1>5. CountInv
  <2>1. PassedJobs = {} /\ SkippedJobs = {}
    BY <1>2 DEF PassedJobs, SkippedJobs
  <2> QED
    BY <1>1, <2>1, FS_EmptySet DEF CountInv
<1>6. ResultsInv
  BY <1>1 DEF ResultsInv, SpoiltOnlyByGarbledCrash
<1> QED
  BY <1>3, <1>4, <1>5, <1>6 DEF JobInv

LEMMA JobNext == JobInv /\ [Next]_vars => JobInv'
<1> SUFFICES ASSUME JobInv, [Next]_vars PROVE JobInv'
  OBVIOUS
<1>1. PlaceInv /\ RanInv /\ CountInv /\ ResultsInv
  BY DEF JobInv
<1>2. PlaceInv'
  BY <1>1, MainPlace, WorkerPlace DEF Next
<1>3. RanInv' /\ CountInv' /\ ResultsInv'
  BY <1>1, RanNext, CountNext, ResultsNext
<1> QED
  BY <1>2, <1>3 DEF JobInv

LEMMA SpecJobInv == Spec => []JobInv
BY JobInit, JobNext, PTL DEF Spec

\* The exit status 0 means that every suite and example not to be skipped ran
\* and its own child returned 0 (the counts of run_tests, whatever worker_thread
\* put back in whatever order).
THEOREM TestPyExitSound == Spec => []ExitSound
<1>1. JobInv => ExitSound
  BY CountSound DEF JobInv, ExitSound
<1> QED
  BY <1>1, SpecJobInv, PTL

\* Only a suite that crashed, its output not to be decoded, spoils the results
\* file or makes run_tests fail on a missing one.
THEOREM TestPySpoiltOnlyByGarbledCrash == Spec => []SpoiltOnlyByGarbledCrash
<1>1. JobInv => SpoiltOnlyByGarbledCrash
  BY DEF JobInv, ResultsInv
<1> QED
  BY <1>1, SpecJobInv, PTL
=============================================================================
