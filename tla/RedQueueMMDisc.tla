--------------------------- MODULE RedQueueMMDisc ---------------------------
(***************************************************************************)
(* ns3::RedQueueMMDisc (red-queue-mm-disc.cc): RED on departures that      *)
(* marks a random packet of the queue while the congestion is moderate and *)
(* the departing packet above a second threshold; when the packet chosen   *)
(* carries a mark already, it marks the tail of the queue.                 *)
(***************************************************************************)
EXTENDS RedDepartures

CONSTANT FrontTh   \* t * m_maxTh, rounded up: where front marking begins

ASSUME MMAssumption == FrontTh \in Nat

\* Mutant: the packet sent stays in the queue.
MarkBehindPeeked(i) ==
  /\ ForcedCount(FALSE)
  /\ q' = [q EXCEPT ![i + 1] = Marked(@)] /\ PacketDequeued(peeked)
  /\ CountMark /\ Send(Head(q))

\* The rest of the queue with a mark on packet i, and the departing packet
\* sent; or the departing packet dropped, as if it had not been enqueued.
MarkBehind(i) ==
  LET rest == Tail(q)
      ok == CanForceMark(rest[i])
  IN  /\ ForcedCount(~ok)
      /\ IF ok
         THEN /\ Pop([rest EXCEPT ![i] = Marked(@)])
              /\ CountMark /\ Send(Head(q))
         ELSE /\ Pop(rest)
              /\ DropBeforeEnqueue(Head(q)) /\ RestartNothing
              /\ UNCHANGED <<nReceived, nEnqueued, nDroppedAfter, nMarked>>

\* With a size in bytes, "nQueued > 1" does not mean that a packet remains
\* behind the departing one.  DoDequeue then reads one that does not exist,
\* here and in MarkRandom, and the program ends: there is no step.
MarkTail == Len(q) > 1 /\ MarkBehind(Len(q) - 1)

MarkRandom ==
  \E i \in 1..Len(q) - 1 :
    IF BeMarked(Tail(q)[i]) THEN MarkTail ELSE MarkBehind(i)

MarkFront ==
  LET item == Head(q)
      ok == CanForceMark(item)
  IN  \/ BeMarked(item) /\ MarkTail
      \/ /\ ~BeMarked(item)
         /\ Pop(Tail(q))
         /\ IF ok THEN CountMark /\ Send(Marked(item)) ELSE DropDequeued(item)
         /\ ForcedCount(~ok)

MMForced(avg) == IF avg < FrontTh THEN MarkRandom ELSE MarkFront

\* Restart with a packet in the queue.
MMDequeue ==
  /\ MayDequeue /\ q # <<>>
  /\ \E avg \in Estimator(CurrentSize(q)) :
       \/ Decide(avg, CurrentSize(q), "none") /\ DeparturePlain
       \/ Decide(avg, CurrentSize(q), "unforced") /\ DepartureUnforced
       \/ Decide(avg, CurrentSize(q), "forced") /\ MMForced(avg)

MMNext ==
  \/ \E item \in Item : EnqueueOnly(item)
  \/ MMDequeue
  \/ DepartureEmpty
  \/ BaseNext /\ UNCHANGED redVars

MMSpec == Init /\ [][MMNext]_vars
=============================================================================
