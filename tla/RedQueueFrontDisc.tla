-------------------------- MODULE RedQueueFrontDisc -------------------------
(***************************************************************************)
(* ns3::RedQueueFrontDisc (red-queue-front-disc.cc): RED that marks the    *)
(* packet that leaves, so that the sender hears of the congestion without  *)
(* the delay of the queue.                                                 *)
(***************************************************************************)
EXTENDS RedDepartures

FrontForced ==
  LET item == Head(q)
      ok == CanForceMark(item)
  IN  /\ Pop(Tail(q))
      /\ IF ok THEN CountMark /\ Send(Marked(item)) ELSE DropDequeued(item)
      /\ ForcedCount(~ok)

\* Restart with a packet in the queue.
FrontDequeue ==
  /\ MayDequeue /\ q # <<>>
  /\ \E avg \in Estimator(CurrentSize(q)) :
       \/ Decide(avg, CurrentSize(q), "none") /\ DeparturePlain
       \/ Decide(avg, CurrentSize(q), "unforced") /\ DepartureUnforced
       \/ Decide(avg, CurrentSize(q), "forced") /\ FrontForced

FrontNext ==
  \/ \E item \in Item : EnqueueOnly(item)
  \/ FrontDequeue
  \/ DepartureEmpty
  \/ BaseNext /\ UNCHANGED redVars

FrontSpec == Init /\ [][FrontNext]_vars
=============================================================================
