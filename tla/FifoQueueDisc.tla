--------------------------- MODULE FifoQueueDisc ---------------------------
(***************************************************************************)
(* ns3::FifoQueueDisc (src/src/traffic-control/model/fifo-queue-disc.cc),  *)
(* the simplest queue disc: a first-in first-out queue that refuses what   *)
(* does not fit.                                                           *)
(***************************************************************************)
EXTENDS QueueDisc

\* TrafficControlLayer::Send: DoEnqueue, then Run.
Enqueue(item) ==
  /\ Arrive(item)
  /\ IF Fits(q, item) THEN InternalEnqueue(q, item) ELSE Refuse(item)
  /\ UNCHANGED nMarked

\* Restart, when DequeuePacket calls DoDequeue.
Dequeue ==
  /\ MayDequeue /\ q # <<>>
  /\ q' = Tail(q) /\ PacketDequeued(peeked)
  /\ RestartWith(Head(q))
  /\ UNCHANGED nMarked

DequeueEmpty ==
  /\ MayDequeue /\ q = <<>>
  /\ RestartNothing
  /\ UNCHANGED <<q, nPackets, enqueueStats, nDequeued, nDroppedAfter, nMarked>>
  /\ UNCHANGED dropped

FifoNext ==
  \/ \E item \in Item : Enqueue(item)
  \/ Dequeue
  \/ DequeueEmpty
  \/ BaseNext

FifoSpec == QueueDiscInit /\ [][FifoNext]_baseVars
=============================================================================
