------------------------------ MODULE AqmQueue ------------------------------
(***************************************************************************)
(* What a queue disc promises to the packets that cross it: they leave in  *)
(* the order they came, each at most once; a packet that does not leave is *)
(* lost, on arrival or when its turn comes; and while it waits an ECN      *)
(* capable packet may have its codepoint set to CE, for good.              *)
(***************************************************************************)
EXTENDS Naturals, Sequences, FiniteSets

CONSTANT Senders   \* the ECN codepoints packets arrive with

VARIABLES
  waiting,     \* packets in the queue, the next to leave first
  delivered,   \* packets that left, in order
  lost         \* the packets that were lost

avars == <<waiting, delivered, lost>>

Init == waiting = <<>> /\ delivered = <<>> /\ lost = {}

Ids(s) == {s[i].id : i \in DOMAIN s}
Offered == Ids(waiting) \cup Ids(delivered) \cup lost

\* The queue with the capable packets among those at S marked.
Remarked(s, S) ==
  [i \in DOMAIN s |-> IF i \in S /\ s[i].ecn = "ECT"
                      THEN [s[i] EXCEPT !.ecn = "CE"] ELSE s[i]]

Mark == \E S \in SUBSET DOMAIN waiting : waiting' = Remarked(waiting, S)

\* A new packet joins, or is lost; any packet present may be marked.
Join(p) ==
  /\ \E S \in SUBSET (1..Len(waiting) + 1) :
       waiting' = Remarked(Append(waiting, p), S)
  /\ UNCHANGED <<delivered, lost>>

Refuse(p) ==
  /\ Mark
  /\ lost' = lost \cup {p.id}
  /\ UNCHANGED delivered

\* The head leaves, or is lost, when its turn comes.
Leave ==
  /\ waiting # <<>>
  /\ \E S \in SUBSET DOMAIN waiting :
       LET w == Remarked(waiting, S)
       IN  waiting' = Tail(w) /\ delivered' = Append(delivered, Head(w))
  /\ UNCHANGED lost

Discard ==
  /\ waiting # <<>>
  /\ \E S \in SUBSET DOMAIN waiting : waiting' = Tail(Remarked(waiting, S))
  /\ lost' = lost \cup {Head(waiting).id}
  /\ UNCHANGED delivered

\* Packets are numbered as they arrive; some that wait may be marked, as when
\* the head is marked and then finds the queue of the device stopped.
Next ==
  \/ \E e \in Senders :
       LET p == [id |-> Cardinality(Offered) + 1, ecn |-> e]
       IN  Join(p) \/ Refuse(p)
  \/ Leave
  \/ Discard
  \/ Mark /\ UNCHANGED <<delivered, lost>>

Spec == Init /\ [][Next]_avars
=============================================================================
