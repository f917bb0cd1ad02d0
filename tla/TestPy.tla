------------------------------- MODULE TestPy -------------------------------
(***************************************************************************)
(* The test runner, test.py: the main thread hands jobs to worker threads  *)
(* over an input queue, collects them from an output queue, writes the     *)
(* results file and exits with the verdict.  A job is a test suite, which  *)
(* writes its results to a temporary file, or an example, which does not.  *)
(* SIGINT sets a flag the workers read.  The children end as they like.    *)
(***************************************************************************)
EXTENDS Naturals, Sequences, FiniteSets, SequencesExt

CONSTANTS
  Workers,    \* the worker threads, one per processor
  NJobs,      \* the jobs are 1 .. NJobs, in the order they are queued
  Examples,   \* the jobs that are examples
  Skipped,    \* the jobs to be skipped
  Codes,      \* the exit codes of the children, 139 for a crash
  Break,      \* a job with is_break, queued by the main thread
  MayRaise    \* TRUE if launching a child may raise an exception

Jobs == 1 .. NJobs

ASSUME TestPyAssumption ==
  /\ IsFiniteSet(Workers) /\ Workers # {}
  /\ NJobs \in Nat /\ Examples \subseteq Jobs /\ Skipped \subseteq Jobs
  /\ Codes \subseteq Nat /\ Break \notin Jobs /\ MayRaise \in BOOLEAN

VARIABLES
  input, output,   \* input_queue, output_queue
  exiting,         \* thread_exit
  pc, job,         \* of each worker: where it is, the job it has
  isBreak,         \* jobs a worker has set is_break of
  returncode,      \* of each job
  tmpFile,         \* of each job: its temporary results file
  main,            \* where the main thread is
  queued,          \* jobs and breaks the main thread has put so far
  collected,       \* jobs it has got, in order
  passed, skippedTests,   \* passed_tests, skipped_tests
  results,         \* the results file: the entries of the jobs, in order
  \* history
  exitCode,        \* of each job: the exit code of its child
  garbled,         \* jobs whose output could not be decoded
  late             \* of each worker: children launched after the interrupt

queues == <<input, output>>
workers == <<pc, job>>
mains == <<main, queued, collected, passed, skippedTests, results>>
runs == <<returncode, tmpFile, exitCode, garbled>>
vars == <<queues, exiting, workers, isBreak, runs, mains, late>>

Init ==
  /\ input = <<>> /\ output = <<>> /\ exiting = FALSE
  /\ pc = [w \in Workers |-> "get"] /\ job = [w \in Workers |-> Break]
  /\ isBreak = {}
  /\ returncode = [j \in Jobs |-> 0] /\ tmpFile = [j \in Jobs |-> "missing"]
  /\ main = "queue" /\ queued = 0 /\ collected = <<>>
  /\ passed = 0 /\ skippedTests = 0 /\ results = <<>>
  /\ exitCode = [j \in Jobs |-> 999] /\ garbled = {}
  /\ late = [w \in Workers |-> 0]

\* sigint_hook.
Interrupt ==
  /\ ~exiting /\ main \notin {"exited", "raised"}
  /\ exiting' = TRUE
  /\ UNCHANGED <<queues, workers, isBreak, runs, mains, late>>

-----------------------------------------------------------------------------
(* worker_thread. *)

Goto(w, place) == pc' = [pc EXCEPT ![w] = place]

\* Mutant: a queue whose last item is the first out.
TakeLast(q, w) ==
  /\ q # <<>>
  /\ job' = [job EXCEPT ![w] = q[Len(q)]]
  /\ input' = SubSeq(q, 1, Len(q) - 1)
  /\ Goto(w, IF q[Len(q)] = Break THEN "returned" ELSE "check")

Take(q, w) ==
  /\ q # <<>>
  /\ job' = [job EXCEPT ![w] = Head(q)]
  /\ input' = Tail(q)
  /\ Goto(w, IF Head(q) = Break THEN "returned" ELSE "check")

\* input_queue.get (), and the end of the thread on a break.
Get(w) ==
  /\ pc[w] = "get"
  /\ Take(input, w)
  /\ UNCHANGED <<output, exiting, isBreak, runs, mains, late>>

\* output_queue.put (job), and on to the next.
Put(w) == output' = Append(output, job[w]) /\ Goto(w, "get")

\* Mutant: the flag is not read.
ProceedHeedless(w) ==
  \/ job[w] \in Skipped /\ Put(w) /\ UNCHANGED isBreak
  \/ job[w] \notin Skipped /\ Goto(w, "launch") /\ UNCHANGED <<isBreak, output>>

\* Interrupted, the job goes back as a break; a job to skip goes back as it is.
Proceed(w) ==
  \/ /\ exiting
     /\ isBreak' = isBreak \cup {job[w]} /\ Put(w)
  \/ /\ ~exiting /\ job[w] \in Skipped
     /\ Put(w) /\ UNCHANGED isBreak
  \/ /\ ~exiting /\ job[w] \notin Skipped
     /\ Goto(w, "launch") /\ UNCHANGED <<isBreak, output>>

Check(w) ==
  /\ pc[w] = "check"
  /\ Proceed(w)
  /\ UNCHANGED <<input, exiting, job, runs, mains, late>>

\* subprocess.Popen: by now there may have been an interrupt.
Launch(w) ==
  /\ pc[w] = "launch"
  /\ Goto(w, "running")
  /\ late' = [late EXCEPT ![w] = IF exiting THEN @ + 1 ELSE @]
  /\ UNCHANGED <<queues, exiting, job, isBreak, runs, mains>>

\* An exception in run_job_synchronously ends the thread; the job is lost.
Raise(w) ==
  /\ MayRaise
  /\ pc[w] \in {"launch", "running"}
  /\ Goto(w, "raised")
  /\ UNCHANGED <<queues, exiting, job, isBreak, runs, mains, late>>

\* The return code: 1 when stdout or stderr cannot be decoded.
ReturnCode(code, undecodable) == IF undecodable THEN 1 ELSE code

\* What a suite leaves behind: complete unless it crashed.
Leaves(j, code) ==
  IF j \in Examples THEN {"missing"}
  ELSE IF code \in {0, 1, 2} THEN {"complete"} ELSE {"partial", "missing"}

\* The child ends, and the job is put in the output queue.
Finish(w) ==
  /\ pc[w] = "running"
  /\ \E code \in Codes, undecodable \in BOOLEAN :
       /\ exitCode' = [exitCode EXCEPT ![job[w]] = code]
       /\ garbled' = IF undecodable THEN garbled \cup {job[w]} ELSE garbled
       /\ returncode' = [returncode EXCEPT ![job[w]] = ReturnCode(code, undecodable)]
       /\ \E f \in Leaves(job[w], code) : tmpFile' = [tmpFile EXCEPT ![job[w]] = f]
  /\ Put(w)
  /\ UNCHANGED <<input, exiting, job, isBreak, mains, late>>

-----------------------------------------------------------------------------
(* run_tests, the main thread. *)

QueueJob ==
  /\ main = "queue" /\ queued < NJobs
  /\ input' = Append(input, queued + 1)
  /\ queued' = queued + 1
  /\ UNCHANGED <<output, exiting, workers, isBreak, runs, main, collected, passed,
                 skippedTests, results, late>>

\* Mutant: one break too few.
BreaksFew == Cardinality(Workers) - 1

Breaks == Cardinality(Workers)

QueueBreak ==
  /\ main = "queue" /\ queued >= NJobs /\ queued < NJobs + Breaks
  /\ input' = Append(input, Break)
  /\ queued' = queued + 1
  /\ UNCHANGED <<output, exiting, workers, isBreak, runs, main, collected, passed,
                 skippedTests, results, late>>

AllQueued ==
  /\ main = "queue" /\ queued = NJobs + Breaks
  /\ main' = "collect"
  /\ UNCHANGED <<queues, exiting, workers, isBreak, runs, queued, collected, passed,
                 skippedTests, results, late>>

\* Mutant: a job that comes back as a break is counted as skipped.
CountBreaks(j) ==
  /\ passed' = IF j \notin Skipped /\ j \notin isBreak /\ returncode[j] = 0
               THEN passed + 1 ELSE passed
  /\ skippedTests' = IF j \in Skipped \cup isBreak THEN skippedTests + 1 ELSE skippedTests

\* The counters that decide the verdict.
Count(j) ==
  /\ passed' = IF j \notin Skipped /\ j \notin isBreak /\ returncode[j] = 0
               THEN passed + 1 ELSE passed
  /\ skippedTests' = IF j \in Skipped \ isBreak THEN skippedTests + 1 ELSE skippedTests

\* Mutant: the file of a suite is taken whatever its return code.
HasFileAlways(j) == j \notin Examples \cup Skipped

\* The results of a suite are read from its file when it returned 0, 1 or 2.
HasFile(j) == j \notin Examples \cup Skipped /\ returncode[j] \in {0, 1, 2}

Collect ==
  /\ main = "collect" /\ Len(collected) < NJobs /\ output # <<>>
  /\ LET j == Head(output)
     IN  /\ collected' = Append(collected, j)
         /\ output' = Tail(output)
         /\ Count(j)
         /\ IF j \in isBreak THEN UNCHANGED <<main, results>>
            ELSE IF HasFile(j) /\ tmpFile[j] = "missing"
            THEN main' = "raised" /\ UNCHANGED results
            ELSE /\ results' = Append(results,
                      [job |-> j, whole |-> HasFile(j) => tmpFile[j] = "complete"])
                 /\ UNCHANGED main
  /\ UNCHANGED <<input, exiting, workers, isBreak, runs, queued, late>>

\* The threads are joined, and the verdict given.
Exit ==
  /\ main = "collect" /\ Len(collected) = NJobs
  /\ \A w \in Workers : pc[w] \in {"returned", "raised"}
  /\ main' = "exited"
  /\ UNCHANGED <<queues, exiting, workers, isBreak, runs, queued, collected, passed,
                 skippedTests, results, late>>

Success == passed + skippedTests = NJobs

-----------------------------------------------------------------------------
Main == QueueJob \/ QueueBreak \/ AllQueued \/ Collect \/ Exit
Worker(w) == Get(w) \/ Check(w) \/ Launch(w) \/ Finish(w)

Next ==
  \/ Interrupt
  \/ Main
  \/ \E w \in Workers : Worker(w) \/ Raise(w)

Spec == Init /\ [][Next]_vars

\* The threads are scheduled, and every child ends.
FairSpec == Spec /\ WF_vars(Main) /\ \A w \in Workers : WF_vars(Worker(w))

-----------------------------------------------------------------------------
\* The exit status 0 means what it says: every suite and example that is not
\* to be skipped ran, and its own child returned 0, whatever was interrupted,
\* skipped, raised or collected in whatever order.
ExitSound ==
  main = "exited" /\ Success => \A j \in Jobs \ Skipped : exitCode[j] = 0

\* A worker goes home only when no job is left, though jobs are still being
\* queued when the workers start.
NoJobLeftBehind ==
  (\E w \in Workers : pc[w] = "returned") => \A i \in DOMAIN input : input[i] = Break

\* After an interrupt a worker launches at most the one child it was about to
\* launch.
StopsAfterInterrupt == \A w \in Workers : late[w] <= 1

\* "If the return code is 0, 1, or 2, we have a valid xml file": the results
\* file is spoilt, or the main thread fails on a missing file, only when a
\* suite crashed and its output could not be decoded.
SpoiltOnlyByGarbledCrash ==
  main = "raised" \/ (\E i \in DOMAIN results : ~results[i].whole) =>
    \E j \in garbled : exitCode[j] \notin {0, 1, 2}

\* The run ends; the main thread waits for ever only for a job that was lost
\* with its worker.
Ended == main = "raised" \/ (main = "exited" /\ \A w \in Workers : pc[w] # "get")
RunEnds == <>(Ended \/ \E w \in Workers : pc[w] = "raised")
=============================================================================
