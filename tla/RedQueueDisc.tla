---------------------------- MODULE RedQueueDisc ----------------------------
(***************************************************************************)
(* ns3::RedQueueDisc (src/src/traffic-control/model/red-queue-disc.cc):    *)
(* random early detection with ECN, marking the arriving packet or, with   *)
(* UseRandomPeek, a random packet of the queue.                            *)
(***************************************************************************)
EXTENDS RedAlgorithm

CONSTANT UseRandomPeek   \* m_useRandomPeek

ASSUME PeekAssumption == UseRandomPeek \in BOOLEAN

MarkArriving(item) == CountMark /\ InternalEnqueue(q, Marked(item))

ForcedRefuse(item) ==
  /\ Refuse(item) /\ UNCHANGED nMarked
  /\ count' = IF IsNs1Compat THEN 0 ELSE CountUp

ForcedTail(item) ==
  \/ CanForceMark(item) /\ MarkArriving(item) /\ count' = CountUp
  \/ ~CanForceMark(item) /\ ForcedRefuse(item)

\* Mutant: the packet picked may be marked already.
ForcedRandomBlind(item) ==
  \E i \in DOMAIN q :
    /\ CanForceMark(q[i]) /\ CountMark /\ count' = CountUp
    /\ InternalEnqueue([q EXCEPT ![i] = Marked(@)], item)

\* Mutant: nothing is marked when the packet picked is marked already.
ForcedRandomOnce(item) ==
  \E i \in DOMAIN q :
    \/ /\ BeMarked(q[i]) /\ count' = CountUp
       /\ UNCHANGED nMarked /\ InternalEnqueue(q, item)
    \/ /\ ~BeMarked(q[i]) /\ CanForceMark(q[i])
       /\ CountMark /\ count' = CountUp
       /\ InternalEnqueue([q EXCEPT ![i] = Marked(@)], item)

\* UseRandomPeek: mark a random packet of the queue; when the one picked is
\* marked already, mark the arriving one.
ForcedRandom(item) ==
  \E i \in DOMAIN q :
    \/ BeMarked(q[i]) /\ ForcedTail(item)
    \/ /\ ~BeMarked(q[i]) /\ CanForceMark(q[i])
       /\ CountMark /\ count' = CountUp
       /\ InternalEnqueue([q EXCEPT ![i] = Marked(@)], item)
    \/ ~BeMarked(q[i]) /\ ~CanForceMark(q[i]) /\ ForcedRefuse(item)

\* DoEnqueue with each verdict of the algorithm.
EnqueuePlain(item) ==
  /\ InternalEnqueue(q, item) /\ UNCHANGED nMarked

EnqueueUnforced(item) ==
  \/ UseEcn /\ Markable(item) /\ MarkArriving(item)
  \/ ~(UseEcn /\ Markable(item)) /\ Refuse(item) /\ UNCHANGED nMarked

EnqueueForced(item) ==
  IF UseRandomPeek THEN ForcedRandom(item) ELSE ForcedTail(item)

\* TrafficControlLayer::Send: DoEnqueue, then Run.
Enqueue(item) ==
  /\ Arrive(item)
  /\ \E avg \in Estimator(CurrentSize(q)) :
       \/ Decide(avg, CurrentSize(q), "none") /\ EnqueuePlain(item)
       \/ Decide(avg, CurrentSize(q), "unforced") /\ EnqueueUnforced(item)
       \/ Decide(avg, CurrentSize(q), "forced") /\ EnqueueForced(item)

\* Restart, when DequeuePacket calls DoDequeue.
DequeueEmpty ==
  /\ MayDequeue /\ q = <<>>
  /\ RestartNothing
  /\ idle' = TRUE
  /\ UNCHANGED <<q, nPackets, enqueueStats, nDequeued, nDroppedAfter, nMarked>>
  /\ UNCHANGED <<dropped, qAvg, count, old, decisionVars>>

Dequeue ==
  /\ MayDequeue /\ q # <<>>
  /\ q' = Tail(q) /\ PacketDequeued(peeked)
  /\ RestartWith(Head(q))
  /\ idle' = FALSE
  /\ UNCHANGED <<nMarked, qAvg, count, old, decisionVars>>

Next ==
  \/ \E item \in Item : Enqueue(item)
  \/ Dequeue
  \/ DequeueEmpty
  \/ BaseNext /\ UNCHANGED redVars

Spec == Init /\ [][Next]_vars

-----------------------------------------------------------------------------

\* An arrival that finds the average at MaxTh (2 * MaxTh when gentle) sends
\* one congestion signal: one more packet of the queue disc is marked, even
\* when the random peek picks a packet that is marked already.
ForcedArrivalSignals ==
  [][nReceived' > nReceived /\ Forced(qAvg', CurrentSize(q)) =>
       MarkedIn(q') + MarkedIn(dropped') = MarkedIn(q) + MarkedIn(dropped) + 1]_vars
=============================================================================
