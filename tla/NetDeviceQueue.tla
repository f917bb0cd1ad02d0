--------------------------- MODULE NetDeviceQueue ---------------------------
(***************************************************************************)
(* ns3::NetDeviceQueue (net-device-queue-interface.h and .cc) and          *)
(* ns3::DynamicQueueLimits (dynamic-queue-limits.cc): the flow control     *)
(* between a device's transmission queue and its queue disc.               *)
(*                                                                         *)
(* The state of the interface is a record: byDevice and byLimits are       *)
(* m_stoppedByDevice and m_stoppedByQueueLimits, wakes counts the Run      *)
(* events scheduled in the current event, and dql is the state of the byte *)
(* queue limits.  Byte counters do not wrap here (they do, at 2^32 bytes). *)
(***************************************************************************)
EXTENDS Integers

CONSTANTS
  HasLimits,           \* byte queue limits are configured
  MinLimit, MaxLimit,  \* m_minLimit, m_maxLimit
  Unset                \* m_lowestSlack before a slack is seen (UINTMAX)

-----------------------------------------------------------------------------
(* DynamicQueueLimits. *)

Bigger(a, b) == IF a >= b THEN a ELSE b
Smaller(a, b) == IF a <= b THEN a ELSE b
Posdiff(a, b) == Bigger(a - b, 0)

\* Reset leaves m_adjLimit as it finds it.
ResetLimits(adj) ==
  [limit |-> 0, numQueued |-> 0, numCompleted |-> 0, lastObjCnt |-> 0,
   prevNumQueued |-> 0, prevLastObjCnt |-> 0, prevOvlimit |-> 0,
   lowestSlack |-> Unset, adjLimit |-> adj]

Available(d) == d.adjLimit - d.numQueued

\* Mutant: only the last count is kept.
QueuedLast(d, count) ==
  [d EXCEPT !.lastObjCnt = count, !.numQueued = count]

Queued(d, count) ==
  [d EXCEPT !.lastObjCnt = count, !.numQueued = @ + count]

Clamp(limit) == Smaller(Bigger(limit, MinLimit), MaxLimit)

\* holdOver: the slack hold time has elapsed.
Completed(d, count, holdOver) ==
  LET completed        == d.numCompleted + count
      over             == Posdiff(d.numQueued - d.numCompleted, d.limit)
      inProgress       == d.numQueued - completed
      prevInProgress   == d.prevNumQueued - d.numCompleted
      allPrevCompleted == completed >= d.prevNumQueued
      starved == \/ over > 0 /\ inProgress = 0
                 \/ d.prevOvlimit > 0 /\ allPrevCompleted
      busy    == inProgress # 0 /\ prevInProgress # 0 /\ ~allPrevCompleted
      slack   == Bigger(Posdiff(d.limit + d.prevOvlimit, 2 * count),
                        IF d.prevOvlimit > 0
                        THEN Posdiff(d.prevLastObjCnt, d.prevOvlimit) ELSE 0)
      lowest  == Smaller(slack, d.lowestSlack)
      raw     == IF starved
                 THEN d.limit + Posdiff(completed, d.prevNumQueued) + d.prevOvlimit
                 ELSE IF busy /\ holdOver THEN Posdiff(d.limit, lowest)
                 ELSE d.limit
      limit   == Clamp(raw)
  IN  [limit |-> limit, numQueued |-> d.numQueued, numCompleted |-> completed,
       lastObjCnt |-> d.lastObjCnt, prevNumQueued |-> d.numQueued,
       prevLastObjCnt |-> d.lastObjCnt,
       prevOvlimit |-> IF limit # d.limit THEN 0 ELSE over,
       lowestSlack |-> IF starved \/ (busy /\ holdOver) THEN Unset
                       ELSE IF busy THEN lowest ELSE d.lowestSlack,
       adjLimit |-> limit + completed]

-----------------------------------------------------------------------------
(* NetDeviceQueue. *)

IsStopped(f) == f.byDevice \/ f.byLimits

Stop(f) == [f EXCEPT !.byDevice = TRUE]

Wake(f) ==
  [f EXCEPT !.byDevice = FALSE, !.wakes = IF f.byDevice THEN @ + 1 ELSE @]

NotifyQueuedBytes(f, bytes) ==
  IF ~HasLimits THEN f
  ELSE LET d == Queued(f.dql, bytes)
       IN  [f EXCEPT !.dql = d, !.byLimits = @ \/ Available(d) < 0]

NotifyTransmittedBytes(f, bytes, holdOver) ==
  IF ~HasLimits THEN f
  ELSE LET d == Completed(f.dql, bytes, holdOver)
       IN  IF Available(d) < 0 THEN [f EXCEPT !.dql = d]
           ELSE [f EXCEPT !.dql = d, !.byLimits = FALSE,
                          !.wakes = IF f.byLimits THEN @ + 1 ELSE @]

\* The callbacks of the device queue's traces; room says whether the queue
\* has room for one more packet of the size of the MTU.
PacketEnqueued(f, bytes, room) ==
  LET g == NotifyQueuedBytes(f, bytes) IN IF room THEN g ELSE Stop(g)

\* Mutant: the queue disc is not woken when there is room again.
PacketDequeuedNoWake(f, bytes, room, holdOver) ==
  NotifyTransmittedBytes(f, bytes, holdOver)

PacketDequeued(f, bytes, room, holdOver) ==
  LET g == NotifyTransmittedBytes(f, bytes, holdOver)
  IN  IF room THEN Wake(g) ELSE g

PacketDiscarded(f) == Stop(f)
=============================================================================
