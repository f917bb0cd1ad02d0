--------------------------- MODULE RedDepartures ---------------------------
(***************************************************************************)
(* What ns3::RedQueueFrontDisc and ns3::RedQueueMMDisc share: arrivals are *)
(* just enqueued, and the algorithm runs on each departure, on the queue   *)
(* as it is before the packet leaves.                                      *)
(***************************************************************************)
EXTENDS RedAlgorithm

\* DoEnqueue, then Run.
EnqueueOnly(item) ==
  /\ Arrive(item)
  /\ IF Fits(q, item) THEN InternalEnqueue(q, item) ELSE Refuse(item)
  /\ UNCHANGED <<redVars, nMarked>>

\* DoDequeue with an empty queue.
DepartureEmpty ==
  /\ MayDequeue /\ q = <<>>
  /\ qAvg' \in Estimator(0)
  /\ idle' = TRUE
  /\ RestartNothing
  /\ UNCHANGED <<q, nPackets, enqueueStats, nDequeued, nDroppedAfter, nMarked>>
  /\ UNCHANGED <<dropped, count, old, decisionVars>>

\* Dequeue from the internal queue, leaving rest behind.
Pop(rest) == q' = rest /\ PacketDequeued(peeked)

\* The packet is sent, as it is or marked.
Send(item) == RestartWith(item)

\* The packet is dropped; no packet is returned, which ends the Run.
DropDequeued(item) ==
  /\ DropAfterDequeue(item)
  /\ RestartNothing
  /\ UNCHANGED <<enqueueStats, nMarked>>

DeparturePlain ==
  /\ Pop(Tail(q)) /\ Send(Head(q)) /\ UNCHANGED nMarked

DepartureUnforced ==
  LET item == Head(q)
  IN  /\ Pop(Tail(q))
      /\ IF UseEcn /\ Markable(item)
         THEN CountMark /\ Send(Marked(item))
         ELSE DropDequeued(item)

\* After a forced drop, m_count is reset for compatibility with ns-1.
ForcedCount(lost) ==
  count' = IF lost /\ IsNs1Compat THEN 0 ELSE CountUp
=============================================================================
