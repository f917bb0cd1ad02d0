----------------------------- MODULE EventQueue -----------------------------
(***************************************************************************)
(* What a simulator promises whatever scheduler it uses: every event       *)
(* scheduled or handed over waits until it runs or is withdrawn, one that  *)
(* is asked for is never lost; the event that runs next is the earliest of *)
(* those that wait, and among the events of one time the first scheduled;  *)
(* none is scheduled in the past.                                          *)
(***************************************************************************)
EXTENDS Naturals, Sequences, ListScheduler

CONSTANT Delays  \* the delays of the events scheduled

VARIABLES
  queue,      \* the events that wait
  last,       \* the event that ran last
  nextUid,    \* the number of the next event
  given,      \* the delays of the events handed over and not yet taken in
  withdrawn   \* the uids of the events removed or cancelled

qvars == <<last, nextUid, given, withdrawn, queue>>

\* The uids 0 to 3 are kept for other purposes.
Init ==
  /\ queue = {} /\ last = [ts |-> 0, uid |-> 0] /\ nextUid = 4
  /\ given = <<>> /\ withdrawn = {}

Numbered(delays) ==
  {[ts |-> last.ts + delays[k], uid |-> nextUid + k - 1] : k \in DOMAIN delays}

\* Every event asked for waits, at the present time or later, behind the others.
Arrive(delays) ==
  /\ nextUid' = nextUid + Len(delays)
  /\ UNCHANGED <<last, withdrawn>>
  /\ queue' = queue \cup Numbered(delays)

Schedule(d) == UNCHANGED given /\ Arrive(<<d>>)

HandOver(d) == given' = Append(given, d) /\ UNCHANGED <<last, nextUid, withdrawn, queue>>

TakeIn == given' = <<>> /\ Arrive(given)

Take ==
  /\ UNCHANGED <<nextUid, given, withdrawn>>
  /\ queue # {}
  /\ last' = Earliest(queue)
  /\ queue' = queue \ {Earliest(queue)}

\* A cancelled event keeps its place, a removed one leaves, and no other does.
Withdraw(e) ==
  /\ e.uid \notin withdrawn
  /\ withdrawn' = withdrawn \cup {e.uid}
  /\ UNCHANGED <<last, nextUid, given>>
  /\ queue' \in {queue, queue \ {e}}

Next ==
  \/ Take
  \/ TakeIn
  \/ \E d \in Delays : Schedule(d) \/ HandOver(d)
  \/ \E e \in queue : Withdraw(e)

Spec == Init /\ [][Next]_qvars
=============================================================================
