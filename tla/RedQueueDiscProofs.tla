------------------------- MODULE RedQueueDiscProofs -------------------------
(***************************************************************************)
(* Proofs about RedQueueDisc and its variants, for every value of their    *)
(* constants: types, the identities of the statistics, that no Run leaves  *)
(* a packet behind, what becomes of marks and of packets that can be       *)
(* marked, how often an arrival signals, and that each implements          *)
(* AqmQueue.  The variants, which run the algorithm on departures, come    *)
(* last.                                                                   *)
(***************************************************************************)
EXTENDS RedQueueDisc, RedQueueFrontDisc, RedQueueMMDisc, QueueDiscProofs

-----------------------------------------------------------------------------
(* The invariant of RED and one lemma for each of its actions. *)

IInv == TypeOK /\ BaseInv

\* The count since the last early mark stays within its bound.
LEMMA CountUpType ==
  ASSUME TypeOK
  PROVE  CountUp \in 0..MaxCount
BY RedAssumption DEF TypeOK, CountUp

\* The variables of the algorithm keep their types, the count being set by
\* the forced cases themselves.
LEMMA DecideType ==
  ASSUME TypeOK, NEW avg \in Estimator(CurrentSize(q)),
         NEW type \in {"none", "unforced", "forced"},
         Decide(avg, CurrentSize(q), type)
  PROVE  /\ qAvg' \in Nat /\ old' \in BOOLEAN /\ idle' \in BOOLEAN /\ HistoryOK'
         /\ type # "forced" => count' \in 0..MaxCount
<1>1. CurrentSize(q) \in Nat
  BY SizeNat DEF TypeOK, BaseTypeOK
<1>2. avg \in Nat
  BY <1>1 DEF Estimator, TypeOK
<1>3. 0 \in 0..MaxCount /\ 1 \in 0..MaxCount /\ CountUp \in 0..MaxCount
  BY CountUpType, RedAssumption
<1>4. HistoryOK'
  <2>1. decisions \in Nat /\ early \subseteq 1..decisions
    BY DEF TypeOK, HistoryOK
  <2>2. decisions' = decisions + 1 /\ early' \subseteq early \cup {decisions + 1}
    BY DEF Decide
  <2> QED
    BY <2>1, <2>2 DEF HistoryOK
<1> QED
  BY <1>2, <1>3, <1>4 DEF Decide, CountAfter, TypeOK

\* A packet refused by a forced drop is dropped and reported.
LEMMA ForcedRefuseFate ==
  ASSUME TypeOK, NEW item \in Item, ForcedRefuse(item)
  PROVE  Fate /\ count' \in 0..MaxCount
<1>1. nMarked' \in Nat /\ Refuse(item)
  BY DEF ForcedRefuse, TypeOK, BaseTypeOK
<1>2. count' \in 0..MaxCount
  BY CountUpType, RedAssumption DEF ForcedRefuse
<1> QED
  BY <1>1, <1>2, RefuseFate DEF TypeOK

\* An arrival that is marked is then enqueued, or finds the queue full.
LEMMA MarkArrivingFate ==
  ASSUME BaseTypeOK, NEW item \in Item, MarkArriving(item)
  PROVE  Fate
<1>1. nMarked' \in Nat /\ InternalEnqueue(q, Marked(item))
  BY DEF MarkArriving, CountMark, BaseTypeOK
<1>2. Marked(item) \in Item /\ q \in Seq(Item)
  BY ItemUpdates DEF BaseTypeOK
<1> QED
  BY <1>1, <1>2, InternalEnqueueFate

\* A forced signal on the arrival: it is marked or dropped.
LEMMA ForcedTailFate ==
  ASSUME TypeOK, NEW item \in Item, ForcedTail(item)
  PROVE  Fate /\ count' \in 0..MaxCount
<1>1. CASE CanForceMark(item) /\ MarkArriving(item) /\ count' = CountUp
  BY <1>1, MarkArrivingFate, CountUpType DEF TypeOK
<1>2. CASE ForcedRefuse(item)
  BY <1>2, ForcedRefuseFate
<1> QED
  BY <1>1, <1>2 DEF ForcedTail

\* A forced signal on a random packet: the queue keeps its length, whatever is
\* marked in it, and the arrival is enqueued or dropped.
LEMMA ForcedRandomFate ==
  ASSUME TypeOK, NEW item \in Item, ForcedRandom(item)
  PROVE  Fate /\ count' \in 0..MaxCount
<1>1. PICK i \in DOMAIN q :
        \/ ForcedTail(item)
        \/ /\ CountMark /\ count' = CountUp
           /\ InternalEnqueue([q EXCEPT ![i] = Marked(@)], item)
        \/ ForcedRefuse(item)
  BY DEF ForcedRandom
<1>2. ASSUME CountMark, count' = CountUp,
             InternalEnqueue([q EXCEPT ![i] = Marked(@)], item)
      PROVE  Fate /\ count' \in 0..MaxCount
  <2>1. q \in Seq(Item) /\ q[i] \in Item
    BY DEF TypeOK, BaseTypeOK
  <2>2. Marked(q[i]) \in Item
    BY <2>1, ItemUpdates
  <2>3. /\ [q EXCEPT ![i] = Marked(@)] \in Seq(Item)
        /\ Len([q EXCEPT ![i] = Marked(@)]) = Len(q)
    BY <2>1, <2>2
  <2>4. nMarked' \in Nat
    BY <1>2 DEF CountMark, TypeOK, BaseTypeOK
  <2> QED
    BY <1>2, <2>3, <2>4, InternalEnqueueFate, CountUpType DEF TypeOK
<1> QED
  BY <1>1, <1>2, ForcedTailFate, ForcedRefuseFate

\* An arrival preserves the invariant, and starts a Run.
LEMMA EnqueueInv ==
  ASSUME IInv, NEW item \in Item, Enqueue(item)
  PROVE  IInv'
<1>1. PICK avg \in Estimator(CurrentSize(q)) :
        \/ Decide(avg, CurrentSize(q), "none") /\ EnqueuePlain(item)
        \/ Decide(avg, CurrentSize(q), "unforced") /\ EnqueueUnforced(item)
        \/ Decide(avg, CurrentSize(q), "forced") /\ EnqueueForced(item)
  BY DEF Enqueue
<1>2. TypeOK /\ BaseTypeOK /\ Counters /\ Arrive(item)
  BY DEF IInv, TypeOK, BaseInv, Enqueue
<1>3. q \in Seq(Item) /\ nMarked \in Nat
  BY <1>2 DEF BaseTypeOK
<1>4. /\ qAvg' \in Nat /\ old' \in BOOLEAN /\ idle' \in BOOLEAN /\ HistoryOK'
      /\ count' \in 0..MaxCount /\ Fate
  <2>1. CASE Decide(avg, CurrentSize(q), "none") /\ EnqueuePlain(item)
    BY <1>2, <1>3, <2>1, DecideType, InternalEnqueueFate DEF EnqueuePlain
  <2>2. CASE Decide(avg, CurrentSize(q), "unforced") /\ EnqueueUnforced(item)
    BY <1>2, <1>3, <2>2, DecideType, MarkArrivingFate, RefuseFate DEF EnqueueUnforced
  <2>3. CASE Decide(avg, CurrentSize(q), "forced") /\ EnqueueForced(item)
    BY <1>2, <2>3, DecideType, ForcedTailFate, ForcedRandomFate DEF EnqueueForced
  <2> QED
    BY <1>1, <2>1, <2>2, <2>3
<1>5. BaseInv'
  BY <1>2, <1>4, ArrivalInv DEF IInv
<1> QED
  BY <1>4, <1>5 DEF IInv, TypeOK, BaseInv

\* A departure preserves the invariant.
LEMMA DequeueInv ==
  ASSUME IInv, Dequeue
  PROVE  IInv'
<1>1. q \in Seq(Item) /\ q # <<>> /\ nMarked \in Nat
  BY DEF IInv, TypeOK, BaseTypeOK, Dequeue
<1>2. Head(q) \in Item /\ Tail(q) \in Seq(Item) /\ Len(Tail(q)) = Len(q) - 1
  BY <1>1
<1>3. /\ MayDequeue /\ q' = Tail(q) /\ PacketDequeued(peeked)
      /\ RestartWith(Head(q)) /\ idle' = FALSE
      /\ nMarked' = nMarked /\ qAvg' = qAvg /\ count' = count /\ old' = old
      /\ decisions' = decisions /\ early' = early
  BY DEF Dequeue, decisionVars
<1>4. BaseInv'
  BY <1>1, <1>2, <1>3, DepartureInv DEF IInv
<1> QED
  BY <1>3, <1>4 DEF IInv, TypeOK, HistoryOK, BaseInv

\* So does a Run that finds the queue empty.
LEMMA DequeueEmptyInv ==
  ASSUME IInv, DequeueEmpty
  PROVE  IInv'
<1>1. BaseInv'
  BY EmptyInv DEF IInv, DequeueEmpty
<1> QED
  BY <1>1 DEF IInv, TypeOK, HistoryOK, BaseInv, DequeueEmpty, decisionVars

-----------------------------------------------------------------------------
(* The theorems. *)

\* The invariant holds initially,
LEMMA IInvInitial == Init => IInv
<1> SUFFICES ASSUME Init PROVE IInv
  OBVIOUS
<1>1. BaseInv
  BY BaseInitial DEF Init
<1>2. qAvg \in Nat /\ count \in 0..MaxCount /\ old \in BOOLEAN /\ idle \in BOOLEAN
  <2>1. qAvg = 0 /\ count = 0 /\ old = FALSE /\ idle = TRUE
    BY DEF Init
  <2>2. qAvg \in Nat /\ count \in 0..MaxCount
    BY <2>1, RedAssumption
  <2> QED
    BY <2>1, <2>2, Zenon
<1>3. HistoryOK
  BY DEF Init, HistoryOK
<1> QED
  BY <1>1, <1>2, <1>3 DEF IInv, TypeOK, BaseInv

\* and every step preserves it.
LEMMA IInvInductive == IInv /\ [Next]_vars => IInv'
<1> SUFFICES ASSUME IInv, [Next]_vars PROVE IInv'
  OBVIOUS
<1>1. ASSUME NEW item \in Item, Enqueue(item) PROVE IInv'
  BY <1>1, EnqueueInv
<1>2. CASE Dequeue
  BY <1>2, DequeueInv
<1>3. CASE DequeueEmpty
  BY <1>3, DequeueEmptyInv
<1>4. CASE BaseNext /\ UNCHANGED redVars
  <2>1. BaseInv'
    BY <1>4, BaseNextInv DEF IInv
  <2> QED
    BY <1>4, <2>1 DEF IInv, TypeOK, HistoryOK, BaseInv, redVars, decisionVars
<1>5. CASE UNCHANGED vars
  <2>1. BaseInv'
    BY <1>5, BaseStutter DEF IInv, vars
  <2> QED
    BY <1>5, <2>1 DEF IInv, TypeOK, HistoryOK, BaseInv, vars, redVars, decisionVars
<1> QED
  BY <1>1, <1>2, <1>3, <1>4, <1>5 DEF Next

\* Every reachable state of the RED queue disc is well typed, whatever its
\* thresholds, marking policy, capacity, quota and number of device queues.
THEOREM RedTypeOK == Spec => []TypeOK
<1>1. IInv => TypeOK
  BY DEF IInv
<1> QED
  BY <1>1, IInvInitial, IInvInductive, PTL DEF Spec

\* The statistics of RedQueueDisc::DoEnqueue and of the internal queue agree
\* with each other and with the packets in the queue, on every path.
THEOREM RedStatisticsAgree == Spec => []StatisticsAgree
<1>1. IInv => StatisticsAgree
  BY DEF IInv, BaseInv, Counters
<1> QED
  BY <1>1, IInvInitial, IInvInductive, PTL DEF Spec

\* nTotalSentPackets of GetStats is the number of packets sent, at any point
\* of a Run and while a packet is requeued.
THEOREM RedSentCounterExact == Spec => []SentCounterExact
<1>1. IInv => SentCounterExact
  BY DEF IInv, BaseInv, Counters
<1> QED
  BY <1>1, IInvInitial, IInvInductive, PTL DEF Spec

\* Run leaves no packet of a RED queue disc behind: nothing is left without a
\* stopped device queue or a scheduled Run, unless the quota ran out.
THEOREM RedNoStall == Spec => []NoStall
<1>1. IInv => NoStall
  BY DEF IInv, BaseInv
<1> QED
  BY <1>1, IInvInitial, IInvInductive, PTL DEF Spec

-----------------------------------------------------------------------------
(* The marks: how many a queue carries after each operation on it. *)

Weight(item) == IF BeMarked(item) THEN 1 ELSE 0

\* The marked packets of a queue are finitely many; an empty one has none.
LEMMA MarkedNat ==
  ASSUME NEW s \in Seq(Item)
  PROVE  /\ IsFiniteSet({i \in DOMAIN s : BeMarked(s[i])})
         /\ MarkedIn(s) \in Nat
         /\ s = <<>> => MarkedIn(s) = 0
<1>1. DOMAIN s = 1..Len(s) /\ Len(s) \in Nat
  OBVIOUS
<1>2. IsFiniteSet(1..Len(s))
  BY <1>1, FS_Interval
<1>3. IsFiniteSet({i \in DOMAIN s : BeMarked(s[i])})
  BY <1>1, <1>2, FS_Subset
<1>4. s = <<>> => {i \in DOMAIN s : BeMarked(s[i])} = {}
  BY <1>1
<1> QED
  BY <1>3, <1>4, FS_CardinalityType, FS_EmptySet DEF MarkedIn

\* A packet appended brings its mark.
LEMMA MarkedAppend ==
  ASSUME NEW s \in Seq(Item), NEW item \in Item
  PROVE  MarkedIn(Append(s, item)) = MarkedIn(s) + Weight(item)
<1> DEFINE A == {i \in DOMAIN s : BeMarked(s[i])}
           t == Append(s, item)
           B == {i \in DOMAIN t : BeMarked(t[i])}
           n == Len(s) + 1
<1>1. /\ DOMAIN s = 1..Len(s) /\ Len(s) \in Nat
      /\ DOMAIN t = 1..n /\ t[n] = item /\ \A i \in 1..Len(s) : t[i] = s[i]
  OBVIOUS
<1>2. B = IF BeMarked(item) THEN A \cup {n} ELSE A
  BY <1>1
<1>3. n \notin A /\ IsFiniteSet(A) /\ Cardinality(A) \in Nat
  <2>1. n \notin A
    BY <1>1
  <2> QED
    BY <2>1, MarkedNat DEF MarkedIn
<1>4. Cardinality(A \cup {n}) = Cardinality(A) + 1
  BY <1>3, FS_AddElement
<1>5. MarkedIn(s) = Cardinality(A) /\ MarkedIn(Append(s, item)) = Cardinality(B)
  BY DEF MarkedIn
<1> HIDE DEF A, B, t, n
<1> QED
  BY <1>2, <1>3, <1>4, <1>5 DEF Weight

\* A packet marked where it waits adds one mark.
LEMMA MarkedExcept ==
  ASSUME NEW s \in Seq(Item), NEW k \in DOMAIN s, ~BeMarked(s[k])
  PROVE  /\ [s EXCEPT ![k] = Marked(@)] \in Seq(Item)
         /\ MarkedIn([s EXCEPT ![k] = Marked(@)]) = MarkedIn(s) + 1
<1> DEFINE A == {i \in DOMAIN s : BeMarked(s[i])}
           t == [s EXCEPT ![k] = Marked(@)]
           B == {i \in DOMAIN t : BeMarked(t[i])}
<1>1. DOMAIN s = 1..Len(s) /\ Len(s) \in Nat /\ s[k] \in Item
  OBVIOUS
<1>2. Marked(s[k]) \in Item /\ BeMarked(Marked(s[k]))
  BY <1>1, ItemUpdates DEF Marked, BeMarked, Item
<1>3. /\ t \in Seq(Item) /\ DOMAIN t = DOMAIN s /\ t[k] = Marked(s[k])
      /\ \A i \in DOMAIN s : i # k => t[i] = s[i]
  BY <1>2
<1>4. B = A \cup {k} /\ k \notin A
  BY <1>2, <1>3
<1>5. IsFiniteSet(A)
  BY MarkedNat
<1>6. Cardinality(A \cup {k}) = Cardinality(A) + 1
  BY <1>4, <1>5, FS_AddElement
<1>7. MarkedIn(s) = Cardinality(A) /\ MarkedIn(t) = Cardinality(B)
  BY DEF MarkedIn
<1> HIDE DEF A, B
<1> QED
  BY <1>3, <1>4, <1>6, <1>7

\* The head that leaves takes its mark with it.
LEMMA MarkedTail ==
  ASSUME NEW s \in Seq(Item), s # <<>>
  PROVE  MarkedIn(s) = MarkedIn(Tail(s)) + Weight(Head(s))
<1> DEFINE A == {i \in DOMAIN s : BeMarked(s[i])}
           t == Tail(s)
           B == {i \in DOMAIN t : BeMarked(t[i])}
           f == [i \in B |-> i + 1]
<1>1. /\ DOMAIN s = 1..Len(s) /\ Len(s) \in Nat \ {0} /\ Head(s) = s[1]
      /\ t \in Seq(Item) /\ DOMAIN t = 1..(Len(s) - 1)
      /\ \A i \in 1..(Len(s) - 1) : t[i] = s[i + 1]
  OBVIOUS
<1>2. IsFiniteSet(A) /\ IsFiniteSet(B) /\ Cardinality(A) \in Nat /\ Cardinality(B) \in Nat
  BY <1>1, MarkedNat DEF MarkedIn
<1>3. f \in [B -> A \ {1}]
  BY <1>1
<1>4. \A x, y \in B : f[x] = f[y] => x = y
  BY <1>1
<1>5. \A y \in A \ {1} : y - 1 \in B /\ f[y - 1] = y
  BY <1>1
<1>6. ExistsBijection(B, A \ {1})
  <2> HIDE DEF A, B, f
  <2>1. f \in Injection(B, A \ {1})
    BY <1>3, <1>4 DEF Injection, IsInjective
  <2>2. f \in Surjection(B, A \ {1})
    BY <1>3, <1>5 DEF Surjection
  <2> QED
    BY <2>1, <2>2 DEF ExistsBijection, Bijection
<1>7. Cardinality(A \ {1}) = Cardinality(B)
  BY <1>2, <1>6, FS_Bijection
<1>8. Cardinality(A \ {1}) = IF 1 \in A THEN Cardinality(A) - 1 ELSE Cardinality(A)
  BY <1>2, FS_RemoveElement
<1>9. 1 \in A <=> BeMarked(Head(s))
  BY <1>1
<1>10. MarkedIn(s) = Cardinality(A) /\ MarkedIn(t) = Cardinality(B)
  BY DEF MarkedIn
<1> HIDE DEF A, B, f
<1> QED
  BY <1>2, <1>7, <1>8, <1>9, <1>10 DEF Weight

-----------------------------------------------------------------------------
(* The ways an arrival ends, and what each does to the marks. *)

\* DoEnqueue marks nothing, or the arrival, or one unmarked packet of the queue.
PlainOutcome(item) ==
  (InternalEnqueue(q, item) \/ Refuse(item)) /\ UNCHANGED nMarked
ArrivalMarked(item) == MarkArriving(item) /\ Markable(item)
WaitingMarked(item) ==
  \E i \in DOMAIN q :
    /\ ~BeMarked(q[i]) /\ Markable(q[i])
    /\ CountMark /\ InternalEnqueue([q EXCEPT ![i] = Marked(@)], item)
Outcome(item) == PlainOutcome(item) \/ ArrivalMarked(item) \/ WaitingMarked(item)

\* These are all the ways.
LEMMA EnqueueOutcome ==
  ASSUME NEW item \in Item, Enqueue(item)
  PROVE  Outcome(item)
<1>1. CASE EnqueuePlain(item)
  BY <1>1 DEF EnqueuePlain, Outcome, PlainOutcome
<1>2. CASE EnqueueUnforced(item)
  BY <1>2 DEF EnqueueUnforced, Outcome, PlainOutcome, ArrivalMarked
<1>3. ASSUME ForcedTail(item) PROVE Outcome(item)
  BY <1>3 DEF ForcedTail, CanForceMark, ForcedRefuse, Outcome, PlainOutcome, ArrivalMarked
<1>4. CASE ForcedRandom(item)
  <2>1. PICK i \in DOMAIN q :
          \/ ForcedTail(item)
          \/ /\ ~BeMarked(q[i]) /\ CanForceMark(q[i])
             /\ CountMark /\ InternalEnqueue([q EXCEPT ![i] = Marked(@)], item)
          \/ ForcedRefuse(item)
    BY <1>4 DEF ForcedRandom
  <2>2. CASE ForcedRefuse(item)
    BY <2>2 DEF ForcedRefuse, Outcome, PlainOutcome
  <2> QED
    BY <1>3, <2>1, <2>2 DEF CanForceMark, Outcome, WaitingMarked
<1> QED
  BY <1>1, <1>2, <1>3, <1>4 DEF Enqueue, EnqueueForced

\* The internal queue keeps the marks: a packet it drops is reported with its.
LEMMA InternalEnqueueMarks ==
  ASSUME BaseTypeOK, NEW item \in Item, NEW s \in Seq(Item), InternalEnqueue(s, item)
  PROVE  MarkedIn(q') + MarkedIn(dropped') = MarkedIn(s) + MarkedIn(dropped) + Weight(item)
<1>1. dropped \in Seq(Item)
  BY DEF BaseTypeOK
<1>2. MarkedIn(s) \in Nat /\ MarkedIn(dropped) \in Nat /\ Weight(item) \in Nat
  BY <1>1, MarkedNat DEF Weight
<1>3. \/ q' = Append(s, item) /\ dropped' = dropped
      \/ q' = s /\ dropped' = Append(dropped, item)
  BY DEF InternalEnqueue, DropBeforeEnqueue
<1>4. /\ MarkedIn(Append(s, item)) = MarkedIn(s) + Weight(item)
      /\ MarkedIn(Append(dropped, item)) = MarkedIn(dropped) + Weight(item)
  BY <1>1, MarkedAppend
<1>5. \/ MarkedIn(q') = MarkedIn(s) + Weight(item) /\ MarkedIn(dropped') = MarkedIn(dropped)
      \/ MarkedIn(q') = MarkedIn(s) /\ MarkedIn(dropped') = MarkedIn(dropped) + Weight(item)
  BY <1>3, <1>4, Zenon
<1> QED
  BY <1>2, <1>5

\* So the marks of the queue and of the packets dropped grow by those counted
\* and by the one the packet came with.
LEMMA OutcomeMarks ==
  ASSUME BaseTypeOK, NEW item \in Item, Outcome(item), ~BeMarked(item)
  PROVE  /\ MarkedIn(q') + MarkedIn(dropped')
              = MarkedIn(q) + MarkedIn(dropped) + (nMarked' - nMarked)
         /\ nMarked' = nMarked <=> PlainOutcome(item)
         /\ nMarked' = nMarked \/ nMarked' = nMarked + 1
<1>1. q \in Seq(Item) /\ dropped \in Seq(Item) /\ nMarked \in Nat
  BY DEF BaseTypeOK
<1>2. MarkedIn(q) \in Nat /\ MarkedIn(dropped) \in Nat /\ Weight(item) = 0
  BY <1>1, MarkedNat DEF Weight
<1>3. CASE PlainOutcome(item)
  <2>1. CASE InternalEnqueue(q, item)
    <3>1. MarkedIn(q') + MarkedIn(dropped') = MarkedIn(q) + MarkedIn(dropped) + Weight(item)
      BY <1>1, <2>1, InternalEnqueueMarks
    <3> QED
      BY <1>1, <1>2, <1>3, <3>1 DEF PlainOutcome
  <2>2. CASE Refuse(item)
    <3>1. q' = q /\ dropped' = Append(dropped, item)
      BY <2>2 DEF Refuse, DropBeforeEnqueue
    <3>2. MarkedIn(dropped') = MarkedIn(dropped) + Weight(item)
      BY <1>1, <3>1, MarkedAppend
    <3> QED
      BY <1>1, <1>2, <1>3, <3>1, <3>2 DEF PlainOutcome
  <2> QED
    BY <1>3, <2>1, <2>2 DEF PlainOutcome
<1>4. CASE ArrivalMarked(item)
  <2>1. Marked(item) \in Item /\ Weight(Marked(item)) = 1
    BY ItemUpdates DEF Weight, BeMarked, Marked, Item
  <2>2. InternalEnqueue(q, Marked(item)) /\ nMarked' = nMarked + 1
    BY <1>4 DEF ArrivalMarked, MarkArriving, CountMark
  <2>3. MarkedIn(q') + MarkedIn(dropped')
          = MarkedIn(q) + MarkedIn(dropped) + Weight(Marked(item))
    BY <1>1, <2>1, <2>2, InternalEnqueueMarks
  <2> QED
    BY <1>1, <1>2, <2>1, <2>2, <2>3 DEF PlainOutcome
<1>5. CASE WaitingMarked(item)
  <2>1. PICK i \in DOMAIN q :
          /\ ~BeMarked(q[i]) /\ nMarked' = nMarked + 1
          /\ InternalEnqueue([q EXCEPT ![i] = Marked(@)], item)
    BY <1>5 DEF WaitingMarked, CountMark
  <2>2. /\ [q EXCEPT ![i] = Marked(@)] \in Seq(Item)
        /\ MarkedIn([q EXCEPT ![i] = Marked(@)]) = MarkedIn(q) + 1
    BY <1>1, <2>1, MarkedExcept
  <2>3. MarkedIn(q') + MarkedIn(dropped')
          = MarkedIn([q EXCEPT ![i] = Marked(@)]) + MarkedIn(dropped) + Weight(item)
    BY <2>1, <2>2, InternalEnqueueMarks
  <2> QED
    BY <1>1, <1>2, <2>1, <2>2, <2>3 DEF PlainOutcome
<1> QED
  BY <1>3, <1>4, <1>5 DEF Outcome

\* Transmit gives the packet, with its mark, to the device or to m_requeued.
LEMMA TransmitMarks ==
  ASSUME BaseTypeOK, NEW item \in Item, NEW left, Transmit(item, left)
  PROVE  MarkedIn(sent') + MarkedIn(held') = MarkedIn(sent) + Weight(item)
<1>1. sent \in Seq(Item) /\ <<>> \in Seq(Item) /\ Append(<<>>, item) = <<item>>
  BY DEF BaseTypeOK
<1>2. MarkedIn(sent) \in Nat /\ MarkedIn(<<>>) = 0 /\ Weight(item) \in Nat
  BY <1>1, MarkedNat DEF Weight
<1>3. \/ held' = Append(<<>>, item) /\ sent' = sent
      \/ held' = <<>> /\ sent' = Append(sent, item)
  BY <1>1 DEF Transmit
<1>4. /\ MarkedIn(Append(<<>>, item)) = MarkedIn(<<>>) + Weight(item)
      /\ MarkedIn(Append(sent, item)) = MarkedIn(sent) + Weight(item)
  BY <1>1, MarkedAppend
<1>5. \/ /\ MarkedIn(held') = MarkedIn(<<>>) + Weight(item)
         /\ MarkedIn(sent') = MarkedIn(sent)
      \/ /\ MarkedIn(held') = MarkedIn(<<>>)
         /\ MarkedIn(sent') = MarkedIn(sent) + Weight(item)
  BY <1>3, <1>4, Zenon
<1> QED
  BY <1>2, <1>5

-----------------------------------------------------------------------------
(* The packets of the queue are as they came, but for their mark: the header *)
(* that closes Markable is added when a packet leaves.                       *)

FreshItem(item) == ~item.header /\ item.ecn \in Ecns \cup {"CE"}
Fresh(s) == \A i \in DOMAIN s : FreshItem(s[i])

\* The internal queue adds one packet at the end, or none.
LEMMA InternalEnqueueFresh ==
  ASSUME NEW s \in Seq(Item), NEW item \in Item, InternalEnqueue(s, item),
         Fresh(s), FreshItem(item)
  PROVE  Fresh(q)'
<1>1. DOMAIN s = 1..Len(s) /\ Len(s) \in Nat
  OBVIOUS
<1>2. CASE q' = s
  BY <1>2 DEF Fresh, FreshItem
<1>3. CASE q' = Append(s, item)
  <2>1. /\ DOMAIN q' = 1..(Len(s) + 1) /\ q'[Len(s) + 1] = item
        /\ \A i \in 1..Len(s) : q'[i] = s[i]
    BY <1>1, <1>3
  <2>2. \A i \in DOMAIN q' : i = Len(s) + 1 \/ i \in DOMAIN s
    BY <1>1, <2>1
  <2> QED
    BY <1>1, <2>1, <2>2 DEF Fresh, FreshItem
<1> QED
  BY <1>2, <1>3 DEF InternalEnqueue

\* An arrival is fresh, and every way it ends leaves the queue fresh.
LEMMA EnqueueFresh ==
  ASSUME BaseTypeOK, Fresh(q), NEW item \in Item, Enqueue(item)
  PROVE  Fresh(q)' /\ FreshItem(item) /\ (BeMarked(item) => "CE" \in Ecns)
<1>1. q \in Seq(Item) /\ FreshItem(item) /\ (BeMarked(item) => "CE" \in Ecns)
  BY DEF BaseTypeOK, Enqueue, Arrive, FreshItem, BeMarked
<1>2. Outcome(item)
  BY EnqueueOutcome
<1>3. CASE PlainOutcome(item)
  <2>1. CASE Refuse(item)
    <3>1. q' = q
      BY <2>1 DEF Refuse
    <3> QED
      BY <1>1, <3>1 DEF Fresh, FreshItem
  <2> QED
    BY <1>1, <1>3, <2>1, InternalEnqueueFresh DEF PlainOutcome
<1>4. CASE ArrivalMarked(item)
  <2>1. Marked(item) \in Item /\ FreshItem(Marked(item))
    BY <1>1, ItemUpdates DEF FreshItem, Marked, Item
  <2> QED
    BY <1>1, <1>4, <2>1, InternalEnqueueFresh DEF ArrivalMarked, MarkArriving
<1>5. CASE WaitingMarked(item)
  <2>1. PICK i \in DOMAIN q :
          ~BeMarked(q[i]) /\ InternalEnqueue([q EXCEPT ![i] = Marked(@)], item)
    BY <1>5 DEF WaitingMarked
  <2>2. q[i] \in Item /\ FreshItem(q[i])
    BY <1>1 DEF Fresh
  <2>3. FreshItem(Marked(q[i])) /\ Marked(q[i]) \in Item
    BY <2>2, ItemUpdates DEF FreshItem, Marked, Item
  <2>4. Fresh([q EXCEPT ![i] = Marked(@)])
    BY <1>1, <2>3 DEF Fresh
  <2>5. [q EXCEPT ![i] = Marked(@)] \in Seq(Item)
    BY <1>1, <2>3
  <2> QED
    BY <1>1, <2>1, <2>4, <2>5, InternalEnqueueFresh
<1> QED
  BY <1>1, <1>2, <1>3, <1>4, <1>5 DEF Outcome

\* The invariant of the marks.
MarkInv == IInv /\ Fresh(q)

\* The packets of the queue stay fresh.
LEMMA MarkInvInductive == MarkInv /\ [Next]_vars => MarkInv'
<1> SUFFICES ASSUME MarkInv, [Next]_vars PROVE Fresh(q)'
  BY IInvInductive DEF MarkInv
<1>1. BaseTypeOK /\ q \in Seq(Item) /\ Fresh(q)
  BY DEF MarkInv, IInv, BaseInv, BaseTypeOK
<1>2. ASSUME NEW item \in Item, Enqueue(item) PROVE Fresh(q)'
  BY <1>1, <1>2, EnqueueFresh
<1>3. CASE Dequeue
  <2>1. q # <<>> /\ q' = Tail(q)
    BY <1>3 DEF Dequeue
  <2>2. /\ DOMAIN q' = 1..(Len(q) - 1) /\ DOMAIN q = 1..Len(q)
        /\ \A i \in 1..(Len(q) - 1) : q'[i] = q[i + 1]
    BY <1>1, <2>1
  <2>3. \A i \in DOMAIN q' : q'[i] = q[i + 1] /\ i + 1 \in DOMAIN q
    BY <1>1, <2>2
  <2> QED
    BY <1>1, <2>3 DEF Fresh, FreshItem
<1>4. CASE q' = q
  BY <1>1, <1>4 DEF Fresh, FreshItem
<1>5. DequeueEmpty \/ BaseNext \/ UNCHANGED vars => q' = q
  BY DEF DequeueEmpty, BaseNext, RestartHeld, RestartBlocked, DeviceStop, DeviceWake,
         RunEvent, vars, baseVars
<1> QED
  BY <1>2, <1>3, <1>4, <1>5 DEF Next

LEMMA MarkInvInitial == Init => MarkInv
BY IInvInitial DEF MarkInv, Init, QueueDiscInit, Fresh

-----------------------------------------------------------------------------
(* EachMarkCountedOnce. *)

\* Packets in transit keep their mark: a packet given to the device has the
\* mark it had in the queue.
LEMMA HeaderKeepsMark ==
  ASSUME NEW item \in Item
  PROVE  Weight([item EXCEPT !.header = TRUE]) = Weight(item)
BY DEF Weight, BeMarked, Item

\* What is counted, and what is marked, before a step.
LEMMA MarksNat ==
  ASSUME BaseTypeOK
  PROVE  /\ MarkedIn(q) \in Nat /\ MarkedIn(held) \in Nat
         /\ MarkedIn(sent) \in Nat /\ MarkedIn(dropped) \in Nat /\ nMarked \in Nat
BY MarkedNat DEF BaseTypeOK

\* An arrival adds the marks it counts.
LEMMA ArrivalMarks ==
  ASSUME BaseTypeOK, BaseTypeOK', EachMarkCountedOnce,
         NEW item \in Item, Arrive(item), Outcome(item), ~BeMarked(item)
  PROVE  EachMarkCountedOnce'
<1>1. nMarked = MarkedIn(sent) + MarkedIn(held) + MarkedIn(q) + MarkedIn(dropped)
  BY DEF EachMarkCountedOnce
<1> SUFFICES nMarked' = MarkedIn(sent') + MarkedIn(held') + MarkedIn(q') + MarkedIn(dropped')
  BY DEF EachMarkCountedOnce, MarkedIn
<1>2. /\ MarkedIn(q') + MarkedIn(dropped')
            = MarkedIn(q) + MarkedIn(dropped) + (nMarked' - nMarked)
      /\ nMarked' = nMarked \/ nMarked' = nMarked + 1
  BY OutcomeMarks
<1>3. MarkedIn(sent') = MarkedIn(sent) /\ MarkedIn(held') = MarkedIn(held)
  BY DEF Arrive
<1>4. q' \in Seq(Item) /\ dropped' \in Seq(Item)
  BY DEF BaseTypeOK
<1>5. MarkedIn(q') \in Nat /\ MarkedIn(dropped') \in Nat
  BY <1>4, MarkedNat
<1>6. nMarked' = MarkedIn(sent) + MarkedIn(held) + MarkedIn(q') + MarkedIn(dropped')
  <2> DEFINE A == MarkedIn(sent)  B == MarkedIn(held)
             C == MarkedIn(q)     D == MarkedIn(dropped)
             c == MarkedIn(q')    d == MarkedIn(dropped')
             n == nMarked         m == nMarked'
  <2>1. /\ n \in Nat /\ A \in Nat /\ B \in Nat /\ C \in Nat /\ D \in Nat /\ c \in Nat /\ d \in Nat
        /\ n = A + B + C + D /\ c + d = C + D + (m - n)
        /\ m = n \/ m = n + 1
    BY <1>1, <1>2, <1>5, MarksNat
  <2> HIDE DEF A, B, C, D, c, d, n, m
  <2>2. m = A + B + c + d
    BY <2>1
  <2> QED
    BY <2>2 DEF A, B, c, d, m
<1> QED
  BY <1>3, <1>6

\* The head that leaves as item adds the mark it leaves with, if any, which
\* is counted when it did not have it before.
LEMMA LeavingMarks ==
  ASSUME BaseTypeOK, EachMarkCountedOnce, held = <<>>, q # <<>>, NEW item \in Item,
         q' = Tail(q), NEW left, Transmit([item EXCEPT !.header = TRUE], left),
         dropped' = dropped, nMarked' + Weight(Head(q)) = nMarked + Weight(item),
         nMarked' \in Nat
  PROVE  EachMarkCountedOnce'
<1>1. q \in Seq(Item) /\ held \in Seq(Item) /\ Head(q) \in Item /\ Tail(q) \in Seq(Item)
  BY DEF BaseTypeOK
<1>2. nMarked = MarkedIn(sent) + MarkedIn(held) + MarkedIn(q) + MarkedIn(dropped)
  BY DEF EachMarkCountedOnce
<1> SUFFICES nMarked' = MarkedIn(sent') + MarkedIn(held') + MarkedIn(q') + MarkedIn(dropped')
  BY DEF EachMarkCountedOnce, MarkedIn
<1>3. MarkedIn(q) = MarkedIn(Tail(q)) + Weight(Head(q)) /\ MarkedIn(Tail(q)) \in Nat
  BY <1>1, MarkedTail, MarkedNat
<1>4. MarkedIn(sent') + MarkedIn(held') = MarkedIn(sent) + Weight(item)
  BY ItemUpdates, TransmitMarks, HeaderKeepsMark
<1>5. MarkedIn(held) = 0
  BY <1>1, MarkedNat
<1>6. MarkedIn(q') = MarkedIn(Tail(q)) /\ MarkedIn(dropped') = MarkedIn(dropped)
  OBVIOUS
<1>7. Weight(item) \in Nat /\ Weight(Head(q)) \in Nat
  BY DEF Weight
<1> DEFINE A == MarkedIn(sent)  D == MarkedIn(dropped)  C == MarkedIn(Tail(q))
           a == MarkedIn(sent') + MarkedIn(held')
           v == Weight(Head(q))  w == Weight(item)
           n == nMarked          m == nMarked'
<1>8. /\ n \in Nat /\ m \in Nat /\ A \in Nat /\ D \in Nat /\ C \in Nat /\ v \in Nat /\ w \in Nat
      /\ n = A + (C + v) + D /\ a = A + w /\ m + v = n + w
  BY <1>2, <1>3, <1>4, <1>5, <1>7, MarksNat
<1> HIDE DEF A, C, D, a, v, w, n, m
<1>9. m = a + C + D
  <2>1. a \in Nat /\ C \in Nat /\ D \in Nat /\ v \in Nat /\ m \in Nat
    BY <1>8
  <2>2. n + w = A + w + C + D + v
    BY <1>8
  <2>3. m + v = A + w + C + D + v
    BY <1>8, <2>2
  <2>4. m + v = a + C + D + v
    BY <1>8, <2>3
  <2>5. a + C + D \in Nat
    BY <2>1
  <2> QED
    BY <2>1, <2>4, <2>5
<1> QED
  BY <1>6, <1>9 DEF m, a, C, D

\* The steps of the base class carry the marks along.
LEMMA BaseNextMarks ==
  ASSUME BaseTypeOK, EachMarkCountedOnce, BaseNext \/ UNCHANGED baseVars
  PROVE  EachMarkCountedOnce'
<1>1. nMarked = MarkedIn(sent) + MarkedIn(held) + MarkedIn(q) + MarkedIn(dropped)
  BY DEF EachMarkCountedOnce
<1> SUFFICES nMarked' = MarkedIn(sent') + MarkedIn(held') + MarkedIn(q') + MarkedIn(dropped')
  BY DEF EachMarkCountedOnce, MarkedIn
<1>2. CASE RestartHeld
  <2>1. /\ held # <<>> /\ q' = q /\ dropped' = dropped /\ nMarked' = nMarked
        /\ Transmit(held[1], nPackets')
    BY <1>2 DEF RestartHeld
  <2>2. held[1] \in Item
    BY <2>1, HeldOne
  <2>3. held = <<held[1]>>
    BY <2>1, HeldOne
  <2>4. Append(<<>>, held[1]) = <<held[1]>> /\ <<>> \in Seq(Item)
    BY <2>2
  <2>5. MarkedIn(held) = Weight(held[1])
    <3>1. MarkedIn(<<>>) = 0
      BY <2>4, MarkedNat
    <3>2. MarkedIn(Append(<<>>, held[1])) = MarkedIn(<<>>) + Weight(held[1])
      BY <2>2, <2>4, MarkedAppend
    <3>3. MarkedIn(held) = MarkedIn(Append(<<>>, held[1]))
      BY <2>3, <2>4
    <3> QED
      BY <3>1, <3>2, <3>3 DEF Weight
  <2>6. MarkedIn(sent') + MarkedIn(held') = MarkedIn(sent) + Weight(held[1])
    BY <2>1, <2>2, TransmitMarks
  <2>7. MarkedIn(q') = MarkedIn(q) /\ MarkedIn(dropped') = MarkedIn(dropped)
    BY <2>1
  <2> QED
    BY <1>1, <2>1, <2>5, <2>6, <2>7, MarksNat DEF Weight
<1>3. CASE UNCHANGED <<q, held, sent, dropped, nMarked>>
  BY <1>1, <1>3
<1>4. RestartBlocked \/ RunEvent \/ UNCHANGED baseVars
        => UNCHANGED <<q, held, sent, dropped, nMarked>>
  BY DEF RestartBlocked, RunEvent, statVars, baseVars
<1>5. ASSUME NEW t \in TxQueues, DeviceStop(t) \/ DeviceWake(t)
      PROVE  UNCHANGED <<q, held, sent, dropped, nMarked>>
  BY <1>5 DEF DeviceStop, DeviceWake, statVars
<1> QED
  BY <1>2, <1>3, <1>4, <1>5 DEF BaseNext

\* A Run that finds the queue empty moves nothing.
LEMMA NothingMarks ==
  ASSUME EachMarkCountedOnce, RestartNothing, UNCHANGED <<q, dropped, nMarked>>
  PROVE  EachMarkCountedOnce'
BY DEF EachMarkCountedOnce, RestartNothing, MarkedIn

\* Every step keeps nTotalMarkedPackets and the marks together.
LEMMA MarksInductive ==
  ASSUME MarkInv, EachMarkCountedOnce, "CE" \notin Ecns, [Next]_vars
  PROVE  EachMarkCountedOnce'
<1>1. BaseTypeOK /\ Fresh(q) /\ nMarked \in Nat
  BY DEF MarkInv, IInv, BaseInv, BaseTypeOK
<1>2. ASSUME NEW item \in Item, Enqueue(item) PROVE EachMarkCountedOnce'
  <2>1. Outcome(item) /\ ~BeMarked(item) /\ Arrive(item)
    BY <1>1, <1>2, EnqueueFresh, EnqueueOutcome DEF Enqueue
  <2>2. BaseTypeOK'
    BY <1>2, EnqueueInv DEF MarkInv, IInv, BaseInv
  <2> QED
    BY <1>1, <2>1, <2>2, ArrivalMarks
<1>3. CASE Dequeue
  <2>1. /\ q # <<>> /\ q' = Tail(q) /\ held = <<>> /\ dropped' = dropped
        /\ nMarked' = nMarked
        /\ Transmit([Head(q) EXCEPT !.header = TRUE], nPackets')
    BY <1>3 DEF Dequeue, MayDequeue, RestartWith
  <2>2. Head(q) \in Item
    BY <1>1, <2>1 DEF BaseTypeOK
  <2> QED
    BY <1>1, <2>1, <2>2, LeavingMarks
<1>4. CASE DequeueEmpty
  BY <1>4, NothingMarks DEF DequeueEmpty
<1>5. CASE BaseNext \/ UNCHANGED vars
  BY <1>1, <1>5, BaseNextMarks DEF vars
<1> QED
  BY <1>2, <1>3, <1>4, <1>5 DEF Next

\* nTotalMarkedPackets counts each packet that carries a mark exactly once,
\* wherever the packet is and whichever of the ways to mark was taken, when
\* the senders send no packet that is marked already.
THEOREM RedEachMarkCountedOnce ==
  ASSUME "CE" \notin Ecns
  PROVE  Spec => []EachMarkCountedOnce
<1>1. Init => EachMarkCountedOnce
  <2> SUFFICES ASSUME Init PROVE EachMarkCountedOnce
    OBVIOUS
  <2>1. /\ q = <<>> /\ held = <<>> /\ sent = <<>> /\ dropped = <<>> /\ nMarked = 0
        /\ <<>> \in Seq(Item)
    BY DEF Init, QueueDiscInit
  <2>2. MarkedIn(<<>>) = 0
    BY <2>1, MarkedNat
  <2> QED
    BY <2>1, <2>2 DEF EachMarkCountedOnce
<1>2. MarkInv /\ EachMarkCountedOnce /\ [Next]_vars => EachMarkCountedOnce'
  BY MarksInductive
<1> QED
  BY <1>1, <1>2, MarkInvInitial, MarkInvInductive, PTL DEF Spec

-----------------------------------------------------------------------------
(* CapableLostOnlyWhenFull. *)

\* The arrival is offered to the internal queue, whatever is marked before.
Offer(item) ==
  \E s \in Seq(Item), p \in Item :
    SameSizes(s, q) /\ InternalEnqueue(s, p)

\* With marking in the place of drops, an arrival that is refused before the
\* internal queue is asked is not capable.  A random peek could refuse it for
\* a packet of the queue that is not: hence the hypothesis on the senders.
LEMMA CapableOffered ==
  ASSUME UseEcn, ~UseHardDrop, ~UseRandomPeek \/ "NotECT" \notin Ecns,
         BaseTypeOK, Fresh(q), NEW item \in Item, Enqueue(item)
  PROVE  Offer(item) \/ (Refuse(item) /\ item.ecn = "NotECT")
<1>1. /\ q \in Seq(Item) /\ SameSizes(q, q) /\ ~item.header
      /\ Marked(item) \in Item
  BY ItemUpdates DEF BaseTypeOK, SameSizes, Enqueue, Arrive
<1>2. CASE EnqueuePlain(item)
  BY <1>1, <1>2 DEF EnqueuePlain, Offer
<1>3. ASSUME MarkArriving(item) PROVE Offer(item)
  BY <1>1, <1>3 DEF MarkArriving, Offer
<1>4. CASE EnqueueUnforced(item)
  BY <1>1, <1>3, <1>4 DEF EnqueueUnforced, Markable
<1>5. ASSUME ForcedTail(item)
      PROVE  Offer(item) \/ (Refuse(item) /\ item.ecn = "NotECT")
  BY <1>1, <1>3, <1>5 DEF ForcedTail, ForcedRefuse, CanForceMark, Markable
<1>6. CASE UseRandomPeek /\ ForcedRandom(item)
  <2>1. PICK i \in DOMAIN q :
          \/ ForcedTail(item)
          \/ InternalEnqueue([q EXCEPT ![i] = Marked(@)], item)
          \/ ~BeMarked(q[i]) /\ ~CanForceMark(q[i])
    BY <1>6 DEF ForcedRandom
  <2>2. q[i] \in Item /\ FreshItem(q[i])
    BY <1>1 DEF Fresh
  <2>3. BeMarked(q[i]) \/ CanForceMark(q[i])
    BY <1>6, <2>2 DEF FreshItem, BeMarked, CanForceMark, Markable
  <2>4. CASE InternalEnqueue([q EXCEPT ![i] = Marked(@)], item)
    <3>1. Marked(q[i]) \in Item /\ Marked(q[i]).size = q[i].size
      BY <2>2, ItemUpdates DEF Marked, Item
    <3>2. /\ [q EXCEPT ![i] = Marked(@)] \in Seq(Item)
          /\ SameSizes([q EXCEPT ![i] = Marked(@)], q)
      BY <1>1, <3>1 DEF SameSizes
    <3> QED
      BY <2>4, <3>2 DEF Offer
  <2> QED
    BY <1>5, <2>1, <2>3, <2>4
<1> QED
  BY <1>2, <1>4, <1>5, <1>6 DEF Enqueue, EnqueueForced

\* A packet that the internal queue drops did not fit in the queue as it was.
LEMMA OfferDrops ==
  ASSUME BaseTypeOK, NEW item \in Item, Offer(item),
         NEW i \in DOMAIN dropped' \ DOMAIN dropped
  PROVE  ~Fits(q, dropped'[i])
<1>1. q \in Seq(Item) /\ dropped \in Seq(Item)
  BY DEF BaseTypeOK
<1>2. PICK s \in Seq(Item), p \in Item : SameSizes(s, q) /\ InternalEnqueue(s, p)
  BY DEF Offer
<1>3. ~Fits(s, p) /\ dropped' = Append(dropped, p)
  BY <1>2 DEF InternalEnqueue, DropBeforeEnqueue
<1>4. dropped'[i] = p
  BY <1>1, <1>3
<1>5. Fits(s, p) = Fits(q, p)
  BY <1>1, <1>2, SizeSame
<1> QED
  BY <1>3, <1>4, <1>5

\* "True to use ECN (packets are marked instead of being dropped)": a capable
\* packet is lost only on arrival, to a full queue, whatever the thresholds;
\* with a random peek this needs senders that are all capable.
THEOREM RedCapableLostOnlyWhenFull ==
  ASSUME UseEcn, ~UseHardDrop, ~UseRandomPeek \/ "NotECT" \notin Ecns
  PROVE  Spec => CapableLostOnlyWhenFull
<1>1. ASSUME MarkInv, [Next]_vars
      PROVE  [\A i \in DOMAIN dropped' \ DOMAIN dropped :
                dropped'[i].ecn # "NotECT" =>
                  nReceived' > nReceived /\ ~Fits(q, dropped'[i])]_vars
  <2>1. /\ BaseTypeOK /\ Fresh(q) /\ dropped \in Seq(Item) /\ nReceived \in Nat
    BY <1>1 DEF MarkInv, IInv, BaseInv, BaseTypeOK
  <2>2. ASSUME NEW item \in Item, Enqueue(item), NEW i \in DOMAIN dropped' \ DOMAIN dropped,
               dropped'[i].ecn # "NotECT"
        PROVE  nReceived' > nReceived /\ ~Fits(q, dropped'[i])
    <3>1. nReceived' > nReceived
      BY <2>1, <2>2 DEF Enqueue, Arrive
    <3>2. Offer(item) \/ (Refuse(item) /\ item.ecn = "NotECT")
      BY <2>1, <2>2, CapableOffered
    <3>3. ~(Refuse(item) /\ item.ecn = "NotECT")
      BY <2>1, <2>2 DEF Refuse, DropBeforeEnqueue
    <3> QED
      BY <2>1, <2>2, <3>1, <3>2, <3>3, OfferDrops
  <2>3. Dequeue \/ DequeueEmpty \/ BaseNext \/ UNCHANGED vars => dropped' = dropped
    BY DEF Dequeue, RestartWith, DequeueEmpty, BaseNext, RestartHeld, RestartBlocked,
           DeviceStop, DeviceWake, RunEvent, vars, baseVars
  <2> QED
    BY <1>1, <2>2, <2>3 DEF Next
<1> QED
  BY <1>1, MarkInvInitial, MarkInvInductive, PTL DEF Spec, CapableLostOnlyWhenFull

-----------------------------------------------------------------------------
(* ForcedArrivalSignals. *)

\* When every sender is capable, a forced verdict marks the arrival or the
\* unmarked packet that was picked.
LEMMA ForcedMarks ==
  ASSUME UseEcn, ~UseHardDrop, Ecns \subseteq {"ECT"},
         BaseTypeOK, Fresh(q), NEW item \in Item, FreshItem(item), EnqueueForced(item)
  PROVE  nMarked' = nMarked + 1
<1>1. \A x : ~x.header /\ x.ecn # "NotECT" => CanForceMark(x)
  BY DEF CanForceMark, Markable
<1>2. CanForceMark(item)
  BY <1>1 DEF FreshItem
<1>3. ForcedTail(item) => nMarked' = nMarked + 1
  BY <1>2 DEF ForcedTail, MarkArriving, CountMark
<1>4. \A i \in DOMAIN q : CanForceMark(q[i])
  BY <1>1 DEF Fresh, FreshItem
<1> QED
  BY <1>3, <1>4 DEF EnqueueForced, ForcedRandom, CountMark

\* The verdict on an arrival that finds the average at the forced threshold.
LEMMA ForcedVerdict ==
  ASSUME TypeOK, NEW avg \in Nat, NEW type, Forced(avg, CurrentSize(q)),
         Decide(avg, CurrentSize(q), type)
  PROVE  type = "forced"
<1>1. CurrentSize(q) \in Nat /\ ForcedTh \in Nat
  BY SizeNat, RedAssumption DEF TypeOK, BaseTypeOK, ForcedTh
<1> DEFINE n == CurrentSize(q)
<1> HIDE DEF n
<1>2. n \in Nat
  BY <1>1 DEF n
<1>3. avg >= MinTh /\ n > 1 /\ avg >= ForcedTh
  BY DEF Forced, n
<1>4. ~(avg < MinTh \/ n <= 1) /\ ~(avg < ForcedTh)
  BY <1>1, <1>2, <1>3, RedAssumption
<1>5. Decide(avg, n, type)
  BY DEF n
<1> QED
  BY <1>4, <1>5 DEF Decide

\* Every arrival that finds the average at MaxTh sends one congestion signal,
\* whatever the thresholds and the capacity, when every sender is capable.
THEOREM RedForcedArrivalSignals ==
  ASSUME UseEcn, ~UseHardDrop, Ecns \subseteq {"ECT"}
  PROVE  Spec => ForcedArrivalSignals
<1>1. ASSUME MarkInv, [Next]_vars
      PROVE  [nReceived' > nReceived /\ Forced(qAvg', CurrentSize(q)) =>
                MarkedIn(q') + MarkedIn(dropped')
                  = MarkedIn(q) + MarkedIn(dropped) + 1]_vars
  <2>1. /\ TypeOK /\ BaseTypeOK /\ Fresh(q) /\ nReceived \in Nat /\ nMarked \in Nat
        /\ q \in Seq(Item) /\ dropped \in Seq(Item)
    BY <1>1 DEF MarkInv, IInv, TypeOK, BaseTypeOK
  <2>2. ASSUME NEW item \in Item, Enqueue(item), Forced(qAvg', CurrentSize(q))
        PROVE  MarkedIn(q') + MarkedIn(dropped') = MarkedIn(q) + MarkedIn(dropped) + 1
    <3>1. PICK avg \in Estimator(CurrentSize(q)) :
            \/ Decide(avg, CurrentSize(q), "none")
            \/ Decide(avg, CurrentSize(q), "unforced")
            \/ Decide(avg, CurrentSize(q), "forced") /\ EnqueueForced(item)
      BY <2>2 DEF Enqueue
    <3>2. CurrentSize(q) \in Nat
      BY <2>1, SizeNat
    <3>3. avg \in Nat /\ qAvg' = avg
      BY <2>1, <3>1, <3>2 DEF Estimator, TypeOK, Decide
    <3>4. EnqueueForced(item)
      BY <2>1, <2>2, <3>1, <3>3, ForcedVerdict
    <3>5. FreshItem(item) /\ ~BeMarked(item) /\ Outcome(item)
      BY <2>1, <2>2, EnqueueFresh, EnqueueOutcome
    <3>6. nMarked' = nMarked + 1
      BY <2>1, <3>4, <3>5, ForcedMarks
    <3>7. MarkedIn(q') + MarkedIn(dropped')
            = MarkedIn(q) + MarkedIn(dropped) + (nMarked' - nMarked)
      BY <2>1, <3>5, OutcomeMarks
    <3> QED
      BY <2>1, <3>6, <3>7
  <2>3. Dequeue \/ DequeueEmpty \/ BaseNext \/ UNCHANGED vars => nReceived' = nReceived
    BY DEF Dequeue, RestartWith, DequeueEmpty, BaseNext, RestartHeld, RestartBlocked,
           DeviceStop, DeviceWake, RunEvent, enqueueStats, statVars, vars, baseVars
  <2>4. nReceived' = nReceived => ~(nReceived' > nReceived)
    BY <2>1
  <2> QED
    BY <1>1, <2>2, <2>3, <2>4 DEF Next
<1> QED
  BY <1>1, MarkInvInitial, MarkInvInductive, PTL DEF Spec, ForcedArrivalSignals

-----------------------------------------------------------------------------
(* EarlySignalsSpaced. *)

\* Products keep the order of their factors.
LEMMA ProductOrder ==
  ASSUME NEW a \in Nat, NEW b \in Nat, NEW c \in Nat, NEW d \in Nat, a <= b, c <= d
  PROVE  a * c <= b * d
<1>1. PICK x \in Nat : b = a + x
  BY SMT
<1>2. PICK y \in Nat : d = c + y
  BY SMT
<1>3. b * d = a * c + (a * y + x * c + x * y)
  BY <1>1, <1>2, SMT
<1>4. a * y \in Nat /\ x * c \in Nat /\ x * y \in Nat /\ a * c \in Nat
  BY <1>1, <1>2, SMT
<1> QED
  BY <1>3, <1>4, SMT

\* The arithmetic of ModifyP: with n packets since the last mark, excess the
\* average over MinTh and range the distance of the thresholds, a mark needs
\* n * excess >= range * LInterm, and the excess is less than the range.
LEMMA SpacingArithmetic ==
  ASSUME NEW n \in Nat, NEW excess \in Nat, NEW range \in Nat, excess < range,
         NEW inv \in Nat \ {0}, NEW top \in Nat \ {0},
         n * (excess * top) >= range * inv * top
  PROVE  n > inv
<1> SUFFICES ASSUME n <= inv PROVE FALSE
  OBVIOUS
<1>1. n * excess <= inv * excess
  BY ProductOrder
<1>2. (excess + 1) * inv <= range * inv
  BY ProductOrder
<1>3. /\ (excess + 1) * inv = inv * excess + inv /\ inv * excess \in Nat
      /\ range * inv = inv * range /\ inv * range \in Nat
  BY SMT
<1>4. n * excess < inv * range /\ n * excess \in Nat
  BY <1>1, <1>2, <1>3, SMT
<1> DEFINE a == n * excess
           b == inv * range
<1>5. a \in Nat /\ b \in Nat /\ a + 1 <= b
  BY <1>3, <1>4
<1>6. n * (excess * top) = a * top /\ range * inv * top = b * top
  BY SMT
<1> HIDE DEF a, b
<1>7. (a + 1) * top <= b * top
  BY <1>5, ProductOrder
<1>8. (a + 1) * top = a * top + top /\ a * top \in Nat /\ b * top \in Nat
  BY <1>5, SMT
<1>9. a * top < b * top
  BY <1>7, <1>8
<1> QED
  BY <1>6, <1>8, <1>9

\* An early signal while the average is between the thresholds takes more than
\* LInterm packets since the last one.
LEMMA EarlyMarkWaits ==
  ASSUME IsWait, InstantQueue, ~ByteMode, ~IsGentle, NEW avg \in Nat, NEW n \in Nat,
         MinTh <= avg, avg < ForcedTh, TRUE \in DropEarly(avg, n)
  PROVE  n > LInterm
<1> DEFINE p == CalculatePNew(avg)
           excess == avg - MinTh
<1>1. /\ MinTh \in Nat /\ MaxTh \in Nat \ {0} /\ LInterm \in Nat \ {0}
      /\ avg < MaxTh /\ ThDiff = MaxTh - MinTh
  BY RedAssumption DEF ForcedTh, ThDiff
<1>2. excess \in Nat /\ ThDiff \in Nat /\ excess < ThDiff
  BY <1>1
<1>3. p = Capped(excess * MaxTh)
  BY <1>1 DEF CalculatePNew
<1> HIDE DEF excess
<1>4. /\ excess * MaxTh \in Nat /\ ProbDen \in Nat
      /\ ProbDen = ThDiff * LInterm * MaxTh
  BY <1>1, <1>2, SMT DEF ProbDen
<1>5. p \in Nat /\ p <= excess * MaxTh
  BY <1>3, <1>4 DEF Capped
<1>6. ~(n * p < ProbDen)
  BY DEF DropEarly
<1> HIDE DEF p
<1>7. n * p <= n * (excess * MaxTh)
  BY <1>4, <1>5, ProductOrder
<1>8. n * p \in Nat /\ n * (excess * MaxTh) \in Nat
  BY <1>4, <1>5, SMT
<1>9. n * (excess * MaxTh) >= ThDiff * LInterm * MaxTh
  BY <1>4, <1>6, <1>7, <1>8
<1> QED
  BY <1>1, <1>2, <1>9, SpacingArithmetic

\* The count is no more than the decisions since the last early signal; the
\* first ones after an idle time start it anew, and so does a forced drop for
\* compatibility with ns-1.
SinceEarly == \A i \in early \cup {0} : i + count <= decisions

SpacingInv == SinceEarly /\ EarlySignalsSpaced

\* An early signal starts the count anew, but only after it has passed LInterm.
LEMMA SignalSpaced ==
  ASSUME TypeOK, SpacingInv, CountUp > LInterm,
         count' = 0, decisions' = decisions + 1, early' = early \cup {decisions + 1}
  PROVE  SpacingInv'
<1>1. count \in Nat /\ decisions \in Nat /\ early \subseteq 1..decisions /\ LInterm \in Nat
  BY RedAssumption DEF TypeOK, HistoryOK
<1>2. CountUp \in Nat /\ CountUp <= count + 1
  BY <1>1, RedAssumption DEF CountUp, TypeOK
<1>3. SinceEarly'
  BY <1>1 DEF SinceEarly
<1>4. ASSUME NEW i \in early' \cup {0}, NEW j \in early', i < j
      PROVE  j - i > LInterm
  <2>1. CASE j \in early
    <3>1. i \in early \cup {0}
      BY <1>1, <1>4, <2>1
    <3> QED
      BY <1>4, <2>1, <3>1 DEF SpacingInv, EarlySignalsSpaced
  <2>2. CASE j = decisions + 1
    <3>1. i \in early \cup {0} /\ i \in Nat
      BY <1>1, <1>4, <2>2
    <3>2. i + count <= decisions
      BY <3>1 DEF SpacingInv, SinceEarly
    <3> QED
      BY <1>1, <1>2, <2>2, <3>1, <3>2
  <2> QED
    BY <2>1, <2>2
<1> QED
  BY <1>3, <1>4 DEF SpacingInv, EarlySignalsSpaced

\* A count that grows by one at most stays behind the decisions.
LEMMA CountStep ==
  \A i, c, d, n \in Nat : i + c <= d /\ n <= c + 1 => i + n <= d + 1
OBVIOUS

\* A decision without an early signal counts at most one packet more.
LEMMA NoSignalSpaced ==
  ASSUME TypeOK, SpacingInv, count' \in Nat, count' <= count + 1,
         decisions' = decisions + 1, early' = early
  PROVE  SpacingInv'
<1>1. count \in Nat /\ decisions \in Nat /\ early \subseteq 1..decisions
  BY RedAssumption DEF TypeOK, HistoryOK
<1>2. SinceEarly'
  <2>1. \A i \in early \cup {0} : i \in Nat /\ i + count <= decisions
    BY <1>1 DEF SpacingInv, SinceEarly
  <2>2. ASSUME NEW i \in early' \cup {0}
        PROVE  i + count' <= decisions'
    <3>1. i \in early \cup {0}
      OBVIOUS
    <3>2. i \in Nat /\ i + count <= decisions
      BY <2>1, <3>1
    <3> QED
      BY <1>1, <3>2, CountStep, Zenon
  <2> QED
    BY <2>2 DEF SinceEarly
<1> QED
  BY <1>2 DEF SpacingInv, EarlySignalsSpaced

\* Whatever the algorithm decides keeps the signals spaced.
LEMMA DecideSpaced ==
  ASSUME IsWait, InstantQueue, ~ByteMode, ~IsGentle, TypeOK, SpacingInv,
         NEW avg \in Estimator(CurrentSize(q)),
         NEW type \in {"none", "unforced", "forced"},
         Decide(avg, CurrentSize(q), type), type = "forced" => count' \in {0, CountUp}
  PROVE  SpacingInv'
<1>1. q \in Seq(Item) /\ count \in Nat
  BY RedAssumption DEF TypeOK, BaseTypeOK
<1>2. CountUp \in Nat /\ CountUp <= count + 1
  BY <1>1, RedAssumption DEF CountUp, TypeOK
<1>3. CurrentSize(q) \in Nat
  BY <1>1, SizeNat
<1>4. avg \in Nat
  BY <1>1, <1>3 DEF Estimator, TypeOK
<1>5. decisions' = decisions + 1
  BY DEF Decide
<1>6. CASE type = "unforced"
  <2>1. /\ avg >= MinTh /\ avg < ForcedTh /\ TRUE \in DropEarly(avg, CountUp)
        /\ count' = 0
    <3>1. PICK signal \in DropEarly(avg, CountUp) :
            /\ type = IF signal THEN "unforced" ELSE "none"
            /\ count' = CountAfter(signal)
            /\ avg >= MinTh /\ avg < ForcedTh
      BY <1>6 DEF Decide
    <3>2. signal \in BOOLEAN
      BY DEF DropEarly
    <3>3. signal = TRUE
      BY <1>6, <3>1, <3>2
    <3> QED
      BY <3>1, <3>3 DEF CountAfter
  <2>2. CountUp > LInterm
    BY <1>2, <1>4, <2>1, RedAssumption, EarlyMarkWaits
  <2>3. early' = early \cup {decisions + 1}
    BY <1>6 DEF Decide
  <2> QED
    BY <1>5, <2>1, <2>2, <2>3, SignalSpaced
<1>7. CASE type # "unforced"
  <2>1. early' = early
    BY <1>7 DEF Decide
  <2>2. count' \in {0, 1, CountUp}
    BY <1>7 DEF Decide, CountAfter
  <2>3. count' \in Nat /\ count' <= count + 1
    BY <1>1, <1>2, <2>2
  <2> QED
    BY <1>5, <2>1, <2>3, NoSignalSpaced
<1> QED
  BY <1>6, <1>7

\* Nothing has been signalled at first.
LEMMA InitialSpaced == Init => SpacingInv
BY DEF Init, SpacingInv, SinceEarly, EarlySignalsSpaced

\* A step that decides nothing changes nothing of this.
LEMMA QuietSpaced ==
  ASSUME SpacingInv, UNCHANGED <<count, decisions, early>>
  PROVE  SpacingInv'
BY DEF SpacingInv, SinceEarly, EarlySignalsSpaced

\* After an early signal of RedQueueDisc more than LInterm packets arrive before
\* the next, whatever the thresholds and whatever is marked or dropped between,
\* when early signals are waited for and the average is the queue, in packets,
\* as in the data-centre scenarios.
THEOREM RedEarlySignalsSpaced ==
  ASSUME IsWait, InstantQueue, ~ByteMode, ~IsGentle
  PROVE  Spec => []EarlySignalsSpaced
<1>1. ASSUME IInv, SpacingInv, [Next]_vars
      PROVE  SpacingInv'
  <2>1. TypeOK
    BY <1>1 DEF IInv
  <2>2. ASSUME NEW item \in Item, Enqueue(item)
        PROVE  SpacingInv'
    <3>1. ASSUME EnqueueForced(item) PROVE count' \in {0, CountUp}
      <4>1. ForcedTail(item) => count' \in {0, CountUp}
        BY DEF ForcedTail, ForcedRefuse
      <4> QED
        BY <3>1, <4>1 DEF EnqueueForced, ForcedRandom, ForcedRefuse
    <3>2. PICK avg \in Estimator(CurrentSize(q)), type \in {"none", "unforced", "forced"} :
            /\ Decide(avg, CurrentSize(q), type)
            /\ type = "forced" => EnqueueForced(item)
      BY <2>2 DEF Enqueue
    <3> QED
      BY <1>1, <2>1, <3>1, <3>2, DecideSpaced
  <2>3. CASE Dequeue \/ DequeueEmpty \/ (BaseNext /\ UNCHANGED redVars) \/ UNCHANGED vars
    <3>1. UNCHANGED <<count, decisions, early>>
      BY <2>3 DEF Dequeue, DequeueEmpty, redVars, vars, decisionVars
    <3> QED
      BY <1>1, <3>1, QuietSpaced
  <2> QED
    BY <1>1, <2>2, <2>3 DEF Next
<1>2. SpacingInv => EarlySignalsSpaced
  BY DEF SpacingInv
<1> QED
  BY <1>1, <1>2, IInvInitial, IInvInductive, InitialSpaced, PTL DEF Spec

-----------------------------------------------------------------------------
(* ImplementsAqmQueue. *)

\* Marking a packet whose codepoint is capable is the mark of AqmQueue, and
\* marking one that is CE already changes nothing.
LEMMA MarkableMarked ==
  ASSUME NEW item \in Item, Markable(item)
  PROVE  Marked(item) \in Item /\ MarkedItem(item, Marked(item))
BY ItemUpdates DEF Markable, Marked, MarkedItem, Item

\* Every way DoEnqueue ends is one of those of QueueDisc.
LEMMA OutcomeArrives ==
  ASSUME BaseTypeOK, NEW item \in Item, Outcome(item)
  PROVE  ArrivalEnds(item)
<1>1. q \in Seq(Item) /\ MarkedUp(q, q) /\ MarkedItem(item, item)
  BY DEF BaseTypeOK, MarkedUp, MarkedItem
<1>2. ASSUME NEW s \in Seq(Item), NEW p \in Item, InternalEnqueue(s, p)
      PROVE  Joins(s, p) \/ Dropped(s, p)
  BY <1>2 DEF InternalEnqueue, DropBeforeEnqueue, Joins, Dropped
<1>3. CASE PlainOutcome(item)
  <2>1. Joins(q, item) \/ Dropped(q, item)
    BY <1>1, <1>2, <1>3 DEF PlainOutcome, Refuse, DropBeforeEnqueue, Dropped
  <2> QED
    BY <1>1, <2>1 DEF ArrivalEnds
<1>4. CASE ArrivalMarked(item)
  <2>1. Marked(item) \in Item /\ MarkedItem(item, Marked(item))
    BY <1>4, MarkableMarked DEF ArrivalMarked
  <2>2. Joins(q, Marked(item)) \/ Dropped(q, Marked(item))
    BY <1>1, <1>2, <1>4, <2>1 DEF ArrivalMarked, MarkArriving
  <2> QED
    BY <1>1, <2>1, <2>2 DEF ArrivalEnds
<1>5. CASE WaitingMarked(item)
  <2>1. PICK i \in DOMAIN q :
          Markable(q[i]) /\ InternalEnqueue([q EXCEPT ![i] = Marked(@)], item)
    BY <1>5 DEF WaitingMarked
  <2>2. q[i] \in Item
    BY <1>1
  <2>3. Marked(q[i]) \in Item /\ MarkedItem(q[i], Marked(q[i]))
    BY <2>1, <2>2, MarkableMarked
  <2> DEFINE s == [q EXCEPT ![i] = Marked(@)]
  <2>4. /\ s \in Seq(Item) /\ Len(s) = Len(q)
        /\ \A j \in 1..Len(q) : s[j] = IF j = i THEN Marked(q[i]) ELSE q[j]
    BY <1>1, <2>3
  <2>5. InternalEnqueue(s, item)
    BY <2>1
  <2> HIDE DEF s
  <2>6. MarkedUp(q, s)
    BY <2>3, <2>4 DEF MarkedUp, MarkedItem
  <2>7. Joins(s, item) \/ Dropped(s, item)
    BY <1>2, <2>4, <2>5
  <2> QED
    BY <1>1, <2>4, <2>6, <2>7 DEF ArrivalEnds
<1> QED
  BY <1>3, <1>4, <1>5 DEF Outcome

\* Every step of RedQueueDisc is a step of AqmQueue, or is not visible.
LEMMA NextRefines ==
  ASSUME IInv, IdsInv, [Next]_vars
  PROVE  [Abstract!Next]_(Abstract!avars) /\ IdsInv'
<1>1. BaseTypeOK
  BY DEF IInv, BaseInv
<1>2. ASSUME NEW item \in Item, Enqueue(item)
      PROVE  Abstract!Next /\ IdsInv'
  BY <1>1, <1>2, EnqueueOutcome, OutcomeArrives, ArrivalRefines DEF Enqueue
<1>3. CASE Dequeue
  <2>1. /\ held = <<>> /\ q # <<>> /\ q' = Tail(q)
        /\ Transmit([Head(q) EXCEPT !.header = TRUE], nPackets')
        /\ UNCHANGED <<nReceived, dropped>>
    BY <1>3 DEF Dequeue, MayDequeue, RestartWith, enqueueStats
  <2>2. q \in Seq(Item) /\ MarkedUp(q, q)
    BY <1>1, MarkedUpSelf DEF BaseTypeOK
  <2> QED
    BY <1>1, <2>1, <2>2, DepartureRefines
<1>4. CASE DequeueEmpty
  BY <1>4, StillRefines DEF DequeueEmpty, RestartNothing, enqueueStats
<1>5. CASE BaseNext \/ UNCHANGED vars
  BY <1>1, <1>5, BaseNextRefines DEF vars
<1> QED
  BY <1>2, <1>3, <1>4, <1>5 DEF Next

\* Packets leave a RED queue disc in the order they came and at most once,
\* across requeues; each that does not leave is dropped; only a capable packet
\* is marked, while it waits, and a mark is never taken back: for every value
\* of the constants, RedQueueDisc implements AqmQueue.
THEOREM RedImplementsAqmQueue == Spec => ImplementsAqmQueue
<1>1. Init => Abstract!Init /\ IdsInv
  BY InitialRefines DEF Init
<1>2. IInv /\ IdsInv /\ [Next]_vars => [Abstract!Next]_(Abstract!avars) /\ IdsInv'
  BY NextRefines
<1> QED
  BY <1>1, <1>2, IInvInitial, IInvInductive, PTL
     DEF Spec, ImplementsAqmQueue, Abstract!Spec

-----------------------------------------------------------------------------
(* The departures of the variants.  A packet leaves with what marks made of  *)
(* the queue, t, or is dropped after it was dequeued; the queue stays fresh. *)

DepartureSent ==
  \E t \in Seq(Item) :
    /\ MarkedUp(q, t) /\ (Fresh(q) => Fresh(t))
    /\ Pop(Tail(t)) /\ Send(Head(t)) /\ nMarked' \in Nat
DepartureDropped == Pop(Tail(q)) /\ DropDequeued(Head(q))

\* NoStall is left out: a packet dropped after it was dequeued ends the Run,
\* and the packets behind it wait for another arrival.
DepartureIInv == TypeOK /\ CountInv

\* The packet leaves as it is.
LEMMA PlainSent ==
  ASSUME BaseTypeOK, DeparturePlain
  PROVE  DepartureSent
<1>1. q \in Seq(Item) /\ MarkedUp(q, q) /\ nMarked' \in Nat
  BY MarkedUpSelf DEF BaseTypeOK, DeparturePlain
<1> QED
  BY <1>1 DEF DeparturePlain, DepartureSent

\* A packet marked where it waits, and the others as they are.
LEMMA MarkedWhere ==
  ASSUME NEW s \in Seq(Item), NEW k \in DOMAIN s
  PROVE  /\ [s EXCEPT ![k] = Marked(@)] \in Seq(Item)
         /\ Len([s EXCEPT ![k] = Marked(@)]) = Len(s)
         /\ \A j \in 1..Len(s) :
              [s EXCEPT ![k] = Marked(@)][j] = IF j = k THEN Marked(s[k]) ELSE s[j]
<1>1. s[k] \in Item
  OBVIOUS
<1>2. Marked(s[k]) \in Item
  BY <1>1, ItemUpdates
<1> QED
  BY <1>1, <1>2

\* One packet of the queue is marked, and the head leaves.
LEMMA MarkedSent ==
  ASSUME BaseTypeOK, q # <<>>, NEW k \in DOMAIN q, Markable(q[k]), NEW t,
         t = [q EXCEPT ![k] = Marked(@)], Pop(Tail(t)), CountMark, Send(Head(t))
  PROVE  DepartureSent
<1>1. q \in Seq(Item) /\ nMarked' \in Nat /\ q[k] \in Item
  BY DEF BaseTypeOK, CountMark
<1>2. Marked(q[k]) \in Item /\ MarkedItem(q[k], Marked(q[k]))
  BY <1>1, MarkableMarked
<1>3. /\ t \in Seq(Item) /\ Len(t) = Len(q) /\ DOMAIN t = DOMAIN q
      /\ \A j \in 1..Len(q) : t[j] = IF j = k THEN Marked(q[k]) ELSE q[j]
  BY <1>1, <1>2
<1>4. MarkedUp(q, t)
  BY <1>2, <1>3 DEF MarkedUp, MarkedItem
<1>5. FreshItem(q[k]) => FreshItem(Marked(q[k]))
  BY <1>1 DEF FreshItem, Marked, Item
<1>6. Fresh(q) => Fresh(t)
  BY <1>1, <1>3, <1>5 DEF Fresh
<1> QED
  BY <1>1, <1>3, <1>4, <1>6 DEF DepartureSent

\* The head is marked as it leaves.
LEMMA MarkedHeadSent ==
  ASSUME BaseTypeOK, q # <<>>, Markable(Head(q)),
         Pop(Tail(q)), CountMark, Send(Marked(Head(q)))
  PROVE  DepartureSent
<1> DEFINE t == [q EXCEPT ![1] = Marked(@)]
<1>1. q \in Seq(Item) /\ Len(q) \in Nat /\ Len(q) # 0 /\ 1 \in DOMAIN q /\ Head(q) = q[1]
  BY DEF BaseTypeOK
<1>2. Marked(q[1]) \in Item
  <2>1. q[1] \in Item
    BY <1>1
  <2> QED
    BY <2>1, ItemUpdates
<1>3. t \in Seq(Item) /\ Len(t) = Len(q) /\ Head(t) = Marked(Head(q))
  BY <1>1, <1>2
<1>4. Tail(t) = Tail(q)
  <2>1. /\ Tail(t) \in Seq(Item) /\ Tail(q) \in Seq(Item)
        /\ Len(Tail(t)) = Len(q) - 1 /\ Len(Tail(q)) = Len(q) - 1
        /\ \A i \in 1..(Len(q) - 1) : Tail(t)[i] = t[i + 1] /\ Tail(q)[i] = q[i + 1]
    BY <1>1, <1>3
  <2>2. \A i \in 1..(Len(q) - 1) : t[i + 1] = q[i + 1]
    BY <1>1
  <2> QED
    BY <2>1, <2>2, SeqEqual
<1>5. t = [q EXCEPT ![1] = Marked(@)]
  OBVIOUS
<1> HIDE DEF t
<1>6. Pop(Tail(t)) /\ Send(Head(t))
  BY <1>3, <1>4
<1>7. Markable(q[1])
  BY <1>1
<1> QED
  BY <1>1, <1>5, <1>6, <1>7, MarkedSent, Zenon

\* An early mark: the head is marked, or dropped when that cannot be.
LEMMA UnforcedDeparts ==
  ASSUME BaseTypeOK, q # <<>>, DepartureUnforced
  PROVE  DepartureSent \/ (DepartureDropped /\ ~(UseEcn /\ Markable(Head(q))))
<1>1. CASE UseEcn /\ Markable(Head(q))
  BY <1>1, MarkedHeadSent DEF DepartureUnforced
<1>2. CASE ~(UseEcn /\ Markable(Head(q)))
  BY <1>2 DEF DepartureUnforced, DepartureDropped
<1> QED
  BY <1>1, <1>2

\* The count after a forced verdict.
LEMMA ForcedCountType ==
  ASSUME TypeOK, NEW lost, ForcedCount(lost)
  PROVE  count' \in 0..MaxCount
BY CountUpType, RedAssumption DEF ForcedCount

-----------------------------------------------------------------------------
(* What the steps of the variants preserve. *)

\* An arrival is enqueued, or dropped when the queue is full.
LEMMA EnqueueOnlyEnds ==
  ASSUME BaseTypeOK, NEW item \in Item, EnqueueOnly(item)
  PROVE  /\ Fate /\ Outcome(item)
         /\ Fresh(q) => Fresh(q)'
<1>1. q \in Seq(Item) /\ nMarked' = nMarked /\ nMarked \in Nat
  BY DEF BaseTypeOK, EnqueueOnly
<1>2. CASE InternalEnqueue(q, item)
  <2>1. Fate
    BY <1>1, <1>2, InternalEnqueueFate
  <2>2. FreshItem(item)
    BY DEF EnqueueOnly, Arrive, FreshItem
  <2>3. Fresh(q) => Fresh(q)'
    BY <1>1, <1>2, <2>2, InternalEnqueueFresh
  <2> QED
    BY <1>1, <1>2, <2>1, <2>3 DEF Outcome, PlainOutcome
<1>3. CASE Refuse(item)
  <2>1. Fate
    BY <1>1, <1>3, RefuseFate
  <2>2. q' = q
    BY <1>3 DEF Refuse
  <2> QED
    BY <1>1, <1>3, <2>1, <2>2 DEF Outcome, PlainOutcome, Fresh, FreshItem
<1> QED
  BY <1>2, <1>3 DEF EnqueueOnly

LEMMA EnqueueOnlyInv ==
  ASSUME DepartureIInv, NEW item \in Item, EnqueueOnly(item)
  PROVE  /\ DepartureIInv'
         /\ NoStall => NoStall'
         /\ Fresh(q) => Fresh(q)'
<1>1. TypeOK /\ BaseTypeOK /\ CountInv /\ Arrive(item) /\ UNCHANGED redVars
  BY DEF DepartureIInv, TypeOK, EnqueueOnly
<1>2. Fate /\ (Fresh(q) => Fresh(q)')
  BY <1>1, EnqueueOnlyEnds
<1>3. CountInv'
  BY <1>1, <1>2, ArrivalCounts
<1>4. TypeOK'
  BY <1>1, <1>3 DEF TypeOK, HistoryOK, CountInv, redVars, decisionVars
<1>5. NoStall => NoStall'
  BY <1>1 DEF Arrive, RunBegin, NoStall
<1> QED
  BY <1>2, <1>3, <1>4, <1>5 DEF DepartureIInv

\* What is left of a fresh queue is fresh.
LEMMA FreshTail ==
  ASSUME NEW s \in Seq(Item), s # <<>>, Fresh(s)
  PROVE  Fresh(Tail(s))
<1>1. /\ DOMAIN Tail(s) = 1..(Len(s) - 1) /\ DOMAIN s = 1..Len(s) /\ Len(s) \in Nat
      /\ \A i \in 1..(Len(s) - 1) : Tail(s)[i] = s[i + 1]
  OBVIOUS
<1>2. \A i \in DOMAIN Tail(s) : Tail(s)[i] = s[i + 1] /\ i + 1 \in DOMAIN s
  BY <1>1
<1> QED
  BY <1>2 DEF Fresh

\* A packet that leaves keeps all of the invariant; that Run is in progress
\* gives NoStall before the step.
LEMMA SentInv ==
  ASSUME CountInv, MayDequeue, q # <<>>, DepartureSent
  PROVE  BaseInv' /\ (Fresh(q) => Fresh(q)')
<1>1. PICK t \in Seq(Item) :
        /\ MarkedUp(q, t) /\ (Fresh(q) => Fresh(t))
        /\ Pop(Tail(t)) /\ Send(Head(t)) /\ nMarked' \in Nat
  BY DEF DepartureSent
<1>2. q \in Seq(Item) /\ Len(q) # 0
  <2>1. q \in Seq(Item)
    BY DEF CountInv, BaseTypeOK
  <2> QED
    BY <2>1
<1>3. t # <<>> /\ Head(t) \in Item /\ Tail(t) \in Seq(Item) /\ Len(Tail(t)) = Len(q) - 1
  <2>1. Len(t) = Len(q) /\ Len(t) # 0
    BY <1>1, <1>2 DEF MarkedUp
  <2> QED
    BY <2>1
<1>4. BaseInv
  BY RunningInv DEF MayDequeue
<1>5. q' = Tail(t) /\ PacketDequeued(peeked) /\ RestartWith(Head(t))
  BY <1>1 DEF Pop, Send
<1>6. BaseInv'
  BY <1>1, <1>3, <1>4, <1>5, DepartureInv
<1>7. Fresh(q) => Fresh(q)'
  <2>1. Fresh(q) => Fresh(Tail(t))
    BY <1>1, <1>3, FreshTail
  <2> QED
    BY <1>5, <2>1 DEF Fresh, FreshItem
<1> QED
  BY <1>6, <1>7

\* A packet dropped after it was dequeued keeps the counters.
LEMMA DroppedInv ==
  ASSUME CountInv, MayDequeue, q # <<>>, DepartureDropped
  PROVE  CountInv' /\ (Fresh(q) => Fresh(q)')
<1>1. q \in Seq(Item) /\ Head(q) \in Item /\ q' = Tail(q)
  BY DEF CountInv, BaseTypeOK, DepartureDropped, Pop
<1>2. CountInv'
  BY <1>1, DropAfterCounts DEF DepartureDropped, Pop, DropDequeued
<1>3. Fresh(q) => Fresh(Tail(q))
  BY <1>1, FreshTail
<1> QED
  BY <1>1, <1>2, <1>3 DEF Fresh, FreshItem

\* So does a Run that finds the queue empty.
LEMMA DepartureEmptyInv ==
  ASSUME DepartureIInv, DepartureEmpty
  PROVE  /\ DepartureIInv' /\ NoStall'
         /\ Fresh(q) => Fresh(q)'
<1>1. BaseInv'
  BY RunningInv, EmptyInv DEF DepartureIInv, DepartureEmpty, MayDequeue
<1>2. qAvg' \in Nat
  <2>1. qAvg' \in Estimator(0) /\ qAvg \in Nat
    BY DEF DepartureEmpty, DepartureIInv, TypeOK
  <2> QED
    BY <2>1 DEF Estimator
<1>3. idle' \in BOOLEAN /\ count' = count /\ old' = old /\ UNCHANGED <<decisions, early>>
  BY DEF DepartureEmpty, decisionVars
<1>4. q' = q
  BY DEF DepartureEmpty
<1> QED
  BY <1>1, <1>2, <1>3, <1>4
     DEF DepartureIInv, TypeOK, HistoryOK, BaseInv, CountInv, Fresh, FreshItem

\* And so do the steps of the base class, and stuttering.
LEMMA DepartureBaseInv ==
  ASSUME DepartureIInv, (BaseNext /\ UNCHANGED redVars) \/ UNCHANGED vars
  PROVE  /\ DepartureIInv'
         /\ NoStall => NoStall'
         /\ Fresh(q) => Fresh(q)'
<1>1. CountInv /\ UNCHANGED redVars
  BY DEF DepartureIInv, vars, redVars
<1>2. NoStall => BaseInv
  BY <1>1 DEF CountInv, BaseInv
<1>3. q' = q
  BY DEF BaseNext, RestartHeld, RestartBlocked, DeviceStop, DeviceWake, RunEvent, vars, baseVars
<1>4. Fresh(q) => Fresh(q)'
  BY <1>3 DEF Fresh, FreshItem
<1>5. CASE BaseNext
  <2>1. CountInv' /\ (NoStall => NoStall')
    BY <1>1, <1>2, <1>5, BaseNextCounts, BaseNextInv DEF BaseInv
  <2> QED
    BY <1>1, <1>4, <2>1
       DEF DepartureIInv, TypeOK, HistoryOK, CountInv, redVars, decisionVars
<1>6. CASE UNCHANGED vars
  <2>1. NoStall => NoStall'
    BY <1>6 DEF vars, baseVars, runVars, NoStall
  <2>2. CountInv'
    <3>1. /\ UNCHANGED <<q, held, peeked, statVars, sent, dropped>>
          /\ running' = running /\ quota' = quota /\ runEvents' = runEvents
          /\ stopped' = stopped
      BY <1>6 DEF vars, baseVars, runVars
    <3> QED
      BY <1>1, <3>1, QuietStep DEF CountInv, BaseTypeOK
  <2> QED
    BY <1>1, <1>4, <2>1, <2>2
       DEF DepartureIInv, TypeOK, HistoryOK, CountInv, redVars, decisionVars
<1> QED
  BY <1>5, <1>6

-----------------------------------------------------------------------------
(* Marking the front. *)

\* The packet leaves, marked or not, or is dropped when it cannot be marked.
LEMMA FrontDequeueEnds ==
  ASSUME TypeOK, FrontDequeue
  PROVE  /\ MayDequeue /\ q # <<>>
         /\ DepartureSent \/ (DepartureDropped /\ ~CanForceMark(Head(q)))
         /\ qAvg' \in Nat /\ count' \in 0..MaxCount /\ old' \in BOOLEAN /\ idle' \in BOOLEAN
         /\ HistoryOK'
<1>1. BaseTypeOK /\ MayDequeue /\ q # <<>>
  BY DEF TypeOK, FrontDequeue
<1>2. PICK avg \in Estimator(CurrentSize(q)) :
        \/ Decide(avg, CurrentSize(q), "none") /\ DeparturePlain
        \/ Decide(avg, CurrentSize(q), "unforced") /\ DepartureUnforced
        \/ Decide(avg, CurrentSize(q), "forced") /\ FrontForced
  BY DEF FrontDequeue
<1>3. CASE Decide(avg, CurrentSize(q), "none") /\ DeparturePlain
  BY <1>1, <1>3, DecideType, PlainSent
<1>4. CASE Decide(avg, CurrentSize(q), "unforced") /\ DepartureUnforced
  BY <1>1, <1>4, DecideType, UnforcedDeparts DEF CanForceMark
<1>5. CASE Decide(avg, CurrentSize(q), "forced") /\ FrontForced
  <2>1. count' \in 0..MaxCount
    BY <1>5, ForcedCountType DEF FrontForced
  <2>2. CASE CanForceMark(Head(q))
    <3>1. Pop(Tail(q)) /\ CountMark /\ Send(Marked(Head(q))) /\ Markable(Head(q))
      BY <1>5, <2>2 DEF FrontForced, CanForceMark
    <3> QED
      BY <1>1, <1>5, <2>1, <3>1, DecideType, MarkedHeadSent
  <2>3. CASE ~CanForceMark(Head(q))
    <3>1. DepartureDropped
      BY <1>5, <2>3 DEF FrontForced, DepartureDropped
    <3> QED
      BY <1>1, <1>5, <2>1, <2>3, <3>1, DecideType
  <2> QED
    BY <2>2, <2>3
<1> QED
  BY <1>2, <1>3, <1>4, <1>5

\* The invariant of the departures holds initially,
LEMMA DepartureInitial == Init => DepartureIInv /\ NoStall /\ Fresh(q) /\ IdsInv
<1> SUFFICES ASSUME Init PROVE DepartureIInv /\ NoStall /\ Fresh(q) /\ IdsInv
  OBVIOUS
<1>1. IInv /\ Fresh(q)
  BY MarkInvInitial DEF MarkInv
<1>2. IdsInv
  BY InitialRefines DEF Init
<1> QED
  BY <1>1, <1>2 DEF IInv, BaseInv, DepartureIInv, CountInv

\* and every step preserves it.
LEMMA FrontInductive ==
  ASSUME DepartureIInv, [FrontNext]_vars
  PROVE  DepartureIInv' /\ (Fresh(q) => Fresh(q)')
<1>1. ASSUME NEW item \in Item, EnqueueOnly(item)
      PROVE  DepartureIInv' /\ (Fresh(q) => Fresh(q)')
  BY <1>1, EnqueueOnlyInv
<1>2. CASE FrontDequeue
  <2>1. /\ MayDequeue /\ q # <<>> /\ CountInv
        /\ DepartureSent \/ DepartureDropped
        /\ qAvg' \in Nat /\ count' \in 0..MaxCount /\ old' \in BOOLEAN /\ idle' \in BOOLEAN
        /\ HistoryOK'
    BY <1>2, FrontDequeueEnds DEF DepartureIInv
  <2>2. CountInv' /\ (Fresh(q) => Fresh(q)')
    BY <2>1, SentInv, DroppedInv DEF BaseInv, CountInv
  <2> QED
    BY <2>1, <2>2 DEF DepartureIInv, TypeOK, CountInv
<1>3. CASE DepartureEmpty
  BY <1>3, DepartureEmptyInv
<1>4. CASE (BaseNext /\ UNCHANGED redVars) \/ UNCHANGED vars
  BY <1>4, DepartureBaseInv
<1> QED
  BY <1>1, <1>2, <1>3, <1>4 DEF FrontNext

\* Every reachable state of RedQueueFrontDisc is well typed, whatever its
\* constants.
THEOREM FrontTypeOK == FrontSpec => []TypeOK
<1>1. DepartureIInv /\ [FrontNext]_vars => DepartureIInv'
  BY FrontInductive
<1>2. DepartureIInv => TypeOK
  BY DEF DepartureIInv
<1> QED
  BY <1>1, <1>2, DepartureInitial, PTL DEF FrontSpec

\* The statistics agree although packets are also dropped after they were
\* dequeued, when DoDequeue of RedQueueFrontDisc cannot mark them.
THEOREM FrontStatisticsAgree == FrontSpec => []StatisticsAgree
<1>1. DepartureIInv /\ [FrontNext]_vars => DepartureIInv'
  BY FrontInductive
<1>2. DepartureIInv => StatisticsAgree
  BY DEF DepartureIInv, CountInv, Counters
<1> QED
  BY <1>1, <1>2, DepartureInitial, PTL DEF FrontSpec

\* nTotalSentPackets of GetStats subtracts those drops: it is the number of
\* packets that RedQueueFrontDisc has sent.
THEOREM FrontSentCounterExact == FrontSpec => []SentCounterExact
<1>1. DepartureIInv /\ [FrontNext]_vars => DepartureIInv'
  BY FrontInductive
<1>2. DepartureIInv => SentCounterExact
  BY DEF DepartureIInv, CountInv, Counters
<1> QED
  BY <1>1, <1>2, DepartureInitial, PTL DEF FrontSpec

\* With marking in the place of drops and capable senders, a packet of a fresh
\* queue can be marked.
LEMMA FreshMarkable ==
  ASSUME UseEcn, ~UseHardDrop, "NotECT" \notin Ecns, BaseTypeOK, Fresh(q)
  PROVE  \A i \in DOMAIN q : CanForceMark(q[i]) /\ Markable(q[i])
BY DEF Fresh, FreshItem, CanForceMark, Markable

\* Run leaves no packet of RedQueueFrontDisc behind when every packet can be
\* marked; a packet that cannot be is dropped after it was dequeued, which
\* ends the Run with the packets behind it in the queue.
THEOREM FrontNoStall ==
  ASSUME UseEcn, ~UseHardDrop, "NotECT" \notin Ecns
  PROVE  FrontSpec => []NoStall
<1> DEFINE Inv == DepartureIInv /\ NoStall /\ Fresh(q)
<1>1. ASSUME Inv, [FrontNext]_vars PROVE Inv'
  <2>1. DepartureIInv' /\ Fresh(q)'
    BY <1>1, FrontInductive
  <2>2. ASSUME NEW item \in Item, EnqueueOnly(item) PROVE NoStall'
    BY <1>1, <2>2, EnqueueOnlyInv
  <2>3. ASSUME FrontDequeue PROVE NoStall'
    <3>1. TypeOK /\ BaseTypeOK /\ CountInv /\ Fresh(q)
      BY <1>1 DEF DepartureIInv, TypeOK
    <3>2. /\ MayDequeue /\ q # <<>>
          /\ DepartureSent \/ (DepartureDropped /\ ~CanForceMark(Head(q)))
      BY <2>3, <3>1, FrontDequeueEnds
    <3>3. CanForceMark(Head(q))
      <4>1. q \in Seq(Item) /\ 1 \in DOMAIN q /\ Head(q) = q[1]
        BY <3>1, <3>2 DEF BaseTypeOK
      <4>2. \A i \in DOMAIN q : CanForceMark(q[i])
        BY <3>1, FreshMarkable
      <4> QED
        BY <4>1, <4>2
    <3> QED
      BY <3>1, <3>2, <3>3, SentInv DEF BaseInv
  <2>4. CASE DepartureEmpty
    BY <1>1, <2>4, DepartureEmptyInv
  <2>5. CASE (BaseNext /\ UNCHANGED redVars) \/ UNCHANGED vars
    BY <1>1, <2>5, DepartureBaseInv
  <2> QED
    BY <1>1, <2>1, <2>2, <2>3, <2>4, <2>5 DEF FrontNext
<1>2. Init => Inv
  BY DepartureInitial
<1>3. Inv => NoStall
  OBVIOUS
<1> QED
  BY <1>1, <1>2, <1>3, PTL DEF FrontSpec

\* A departure is a step of AqmQueue: the packet leaves or is held, or is lost.
LEMMA DepartureEndRefines ==
  ASSUME BaseTypeOK, IdsInv, MayDequeue, q # <<>>, DepartureSent \/ DepartureDropped
  PROVE  Abstract!Next /\ IdsInv'
<1>1. held = <<>>
  BY DEF MayDequeue
<1>2. CASE DepartureSent
  <2>1. PICK t \in Seq(Item) : MarkedUp(q, t) /\ Pop(Tail(t)) /\ Send(Head(t))
    BY <1>2 DEF DepartureSent
  <2>2. /\ q' = Tail(t) /\ Transmit([Head(t) EXCEPT !.header = TRUE], nPackets')
        /\ UNCHANGED <<nReceived, dropped>>
    BY <2>1 DEF Pop, Send, RestartWith, enqueueStats
  <2> QED
    BY <1>1, <2>1, <2>2, DepartureRefines
<1>3. CASE DepartureDropped
  <2>1. /\ q' = Tail(q) /\ held' = held /\ dropped' = Append(dropped, Head(q))
        /\ UNCHANGED <<nReceived, sent>>
    BY <1>3 DEF DepartureDropped, Pop, DropDequeued, DropAfterDequeue, RestartNothing, enqueueStats
  <2> QED
    BY <1>1, <2>1, DiscardRefines
<1> QED
  BY <1>2, <1>3

\* The steps that the variants share.
LEMMA DepartureStepRefines ==
  ASSUME BaseTypeOK, IdsInv,
         \/ \E item \in Item : EnqueueOnly(item)
         \/ DepartureEmpty
         \/ BaseNext
         \/ UNCHANGED vars
  PROVE  [Abstract!Next]_(Abstract!avars) /\ IdsInv'
<1>1. ASSUME NEW item \in Item, EnqueueOnly(item)
      PROVE  Abstract!Next /\ IdsInv'
  BY <1>1, EnqueueOnlyEnds, OutcomeArrives, ArrivalRefines DEF EnqueueOnly
<1>2. CASE DepartureEmpty
  BY <1>2, StillRefines DEF DepartureEmpty, RestartNothing, enqueueStats
<1>3. CASE BaseNext \/ UNCHANGED vars
  BY <1>3, BaseNextRefines DEF vars
<1> QED
  BY <1>1, <1>2, <1>3

\* Marking the packets that leave keeps what a queue disc promises, for every
\* value of the constants: RedQueueFrontDisc implements AqmQueue, where the
\* packets lost when their turn comes are those it cannot mark.
THEOREM FrontImplementsAqmQueue == FrontSpec => ImplementsAqmQueue
<1>1. Init => Abstract!Init /\ IdsInv
  BY InitialRefines DEF Init
<1>2. ASSUME DepartureIInv, IdsInv, [FrontNext]_vars
      PROVE  [Abstract!Next]_(Abstract!avars) /\ IdsInv'
  <2>1. TypeOK /\ BaseTypeOK
    BY <1>2 DEF DepartureIInv, TypeOK
  <2>2. CASE FrontDequeue
    BY <1>2, <2>1, <2>2, FrontDequeueEnds, DepartureEndRefines
  <2> QED
    BY <1>2, <2>1, <2>2, DepartureStepRefines DEF FrontNext
<1>3. DepartureIInv /\ [FrontNext]_vars => DepartureIInv'
  BY FrontInductive
<1> QED
  BY <1>1, <1>2, <1>3, DepartureInitial, PTL
     DEF FrontSpec, ImplementsAqmQueue, Abstract!Spec

-----------------------------------------------------------------------------
(* Marking while the congestion is moderate.  When the packet it chose cannot *)
(* be marked, RedQueueMMDisc drops the departing one as if it had not been    *)
(* enqueued, and counts it twice: the order of the packets survives that, and *)
(* the statistics need senders whose packets can all be marked, like the      *)
(* DCTCP senders the queue disc was written for.                              *)

\* A packet behind the head is marked, and the head leaves.
LEMMA MarkBehindSent ==
  ASSUME BaseTypeOK, q # <<>>, NEW i \in 1..Len(q) - 1,
         CanForceMark(Tail(q)[i]), MarkBehind(i)
  PROVE  DepartureSent
<1> DEFINE t == [q EXCEPT ![i + 1] = Marked(@)]
<1>1. q \in Seq(Item) /\ Len(q) \in Nat
  BY DEF BaseTypeOK
<1>2. /\ i + 1 \in DOMAIN q /\ i + 1 # 1 /\ i \in DOMAIN Tail(q)
      /\ Tail(q)[i] = q[i + 1] /\ Head(q) = q[1]
  BY <1>1
<1>3. Markable(q[i + 1])
  BY <1>2 DEF CanForceMark
<1>4. Pop([Tail(q) EXCEPT ![i] = Marked(@)]) /\ CountMark /\ Send(Head(q))
  BY DEF MarkBehind
<1>5. Marked(q[i + 1]) \in Item
  <2>1. q[i + 1] \in Item
    BY <1>1, <1>2
  <2> QED
    BY <2>1, ItemUpdates
<1>6. t \in Seq(Item) /\ Len(t) = Len(q) /\ t # <<>> /\ Head(t) = Head(q)
  BY <1>1, <1>2, <1>5
<1>7. Tail(t) = [Tail(q) EXCEPT ![i] = Marked(@)]
  <2> DEFINE r == [Tail(q) EXCEPT ![i] = Marked(@)]
             n == Len(q) - 1
  <2>1. /\ Tail(t) \in Seq(Item) /\ Len(Tail(t)) = n
        /\ \A j \in 1..n : Tail(t)[j] = t[j + 1]
    BY <1>1, <1>6
  <2>2. /\ Tail(q) \in Seq(Item) /\ Len(Tail(q)) = n /\ i \in 1..n
        /\ \A j \in 1..n : Tail(q)[j] = q[j + 1]
    BY <1>1
  <2>3. /\ r \in Seq(Item) /\ Len(r) = n
        /\ \A j \in 1..n : r[j] = IF j = i THEN Marked(q[i + 1]) ELSE q[j + 1]
    <3>1. /\ r \in Seq(Item) /\ Len(r) = Len(Tail(q))
          /\ \A j \in 1..Len(Tail(q)) : r[j] = IF j = i THEN Marked(Tail(q)[i]) ELSE Tail(q)[j]
      BY <1>2, <1>5, <2>2, MarkedWhere
    <3> QED
      BY <1>2, <2>2, <3>1
  <2>4. \A j \in 1..n : t[j + 1] = IF j = i THEN Marked(q[i + 1]) ELSE q[j + 1]
    BY <1>1, <1>2
  <2>5. \A j \in 1..n : Tail(t)[j] = r[j]
    BY <2>1, <2>3, <2>4
  <2> HIDE DEF n, r
  <2>6. Tail(t) = r
    BY <2>1, <2>3, <2>5, SeqEqual
  <2> QED
    BY <2>6 DEF r
<1>8. t = [q EXCEPT ![i + 1] = Marked(@)]
  OBVIOUS
<1> HIDE DEF t
<1>9. Pop(Tail(t)) /\ Send(Head(t))
  BY <1>4, <1>6, <1>7
<1> QED
  BY <1>1, <1>2, <1>3, <1>4, <1>8, <1>9, MarkedSent, Zenon

\* The departing packet is lost when the one chosen cannot be marked.
DepartureLost ==
  /\ Pop(Tail(q)) /\ DropBeforeEnqueue(Head(q)) /\ RestartNothing
  /\ UNCHANGED <<nReceived, nEnqueued, nDroppedAfter, nMarked>>

LEMMA MarkBehindEnds ==
  ASSUME TypeOK, q # <<>>, NEW i \in 1..Len(q) - 1, MarkBehind(i)
  PROVE  /\ \/ DepartureSent
            \/ DepartureLost /\ \E k \in DOMAIN q : ~CanForceMark(q[k])
         /\ count' \in 0..MaxCount
<1>1. BaseTypeOK /\ q \in Seq(Item)
  BY DEF TypeOK, BaseTypeOK
<1>2. count' \in 0..MaxCount
  BY ForcedCountType DEF MarkBehind
<1>3. CASE CanForceMark(Tail(q)[i])
  BY <1>1, <1>2, <1>3, MarkBehindSent
<1>4. CASE ~CanForceMark(Tail(q)[i])
  <2>1. DepartureLost
    BY <1>4 DEF MarkBehind, DepartureLost
  <2>2. i + 1 \in DOMAIN q /\ Tail(q)[i] = q[i + 1]
    BY <1>1
  <2> QED
    BY <1>2, <1>4, <2>1, <2>2
<1> QED
  BY <1>3, <1>4

\* Every departure sends a packet, or loses one because some packet of the
\* queue cannot be marked.
LEMMA MMDequeueCases ==
  ASSUME TypeOK, MMDequeue
  PROVE  /\ MayDequeue /\ q # <<>>
         /\ \/ DepartureSent
            \/ (DepartureDropped \/ DepartureLost) /\ \E k \in DOMAIN q : ~CanForceMark(q[k])
         /\ qAvg' \in Nat /\ count' \in 0..MaxCount /\ old' \in BOOLEAN /\ idle' \in BOOLEAN
         /\ HistoryOK'
<1> DEFINE Lost == /\ DepartureDropped \/ DepartureLost
                   /\ \E k \in DOMAIN q : ~CanForceMark(q[k])
<1>1. BaseTypeOK /\ MayDequeue /\ q # <<>>
  BY DEF TypeOK, MMDequeue
<1>2. PICK avg \in Estimator(CurrentSize(q)) :
        \/ Decide(avg, CurrentSize(q), "none") /\ DeparturePlain
        \/ Decide(avg, CurrentSize(q), "unforced") /\ DepartureUnforced
        \/ Decide(avg, CurrentSize(q), "forced") /\ MMForced(avg)
  BY DEF MMDequeue
<1>3. q \in Seq(Item) /\ Len(q) \in Nat /\ 1 \in DOMAIN q /\ Head(q) = q[1]
  BY <1>1 DEF BaseTypeOK
<1>4. CASE Decide(avg, CurrentSize(q), "none") /\ DeparturePlain
  BY <1>1, <1>4, DecideType, PlainSent
<1>5. CASE Decide(avg, CurrentSize(q), "unforced") /\ DepartureUnforced
  <2>1. DepartureSent \/ Lost
    BY <1>1, <1>3, <1>5, UnforcedDeparts DEF CanForceMark
  <2> QED
    BY <1>1, <1>5, <2>1, DecideType
<1>6. CASE Decide(avg, CurrentSize(q), "forced") /\ MMForced(avg)
  <2>1. qAvg' \in Nat /\ old' \in BOOLEAN /\ idle' \in BOOLEAN /\ HistoryOK'
    BY <1>6, DecideType
  <2>2. ASSUME MarkTail PROVE (DepartureSent \/ Lost) /\ count' \in 0..MaxCount
    <3>1. Len(q) - 1 \in 1..Len(q) - 1 /\ MarkBehind(Len(q) - 1)
      BY <1>3, <2>2 DEF MarkTail
    <3> QED
      BY <1>1, <3>1, MarkBehindEnds
  <2>3. ASSUME MarkRandom PROVE (DepartureSent \/ Lost) /\ count' \in 0..MaxCount
    <3>1. MarkTail \/ \E i \in 1..Len(q) - 1 : MarkBehind(i)
      BY <2>3 DEF MarkRandom
    <3> QED
      BY <1>1, <2>2, <3>1, MarkBehindEnds
  <2>4. ASSUME MarkFront PROVE (DepartureSent \/ Lost) /\ count' \in 0..MaxCount
    <3>1. CASE MarkTail
      BY <2>2, <3>1
    <3>2. CASE ~MarkTail
      <4>1. count' \in 0..MaxCount /\ Pop(Tail(q))
        BY <2>4, <3>2, ForcedCountType DEF MarkFront
      <4>2. CASE CanForceMark(Head(q))
        <5>1. CountMark /\ Send(Marked(Head(q))) /\ Markable(Head(q))
          BY <2>4, <3>2, <4>2 DEF MarkFront, CanForceMark
        <5> QED
          BY <1>1, <4>1, <5>1, MarkedHeadSent
      <4>3. CASE ~CanForceMark(Head(q))
        <5>1. DepartureDropped
          BY <2>4, <3>2, <4>3 DEF MarkFront, DepartureDropped
        <5> QED
          BY <1>3, <4>1, <4>3, <5>1
      <4> QED
        BY <4>2, <4>3
    <3> QED
      BY <3>1, <3>2
  <2> QED
    BY <1>1, <1>6, <2>1, <2>3, <2>4 DEF MMForced
<1> QED
  BY <1>2, <1>4, <1>5, <1>6

\* When every packet can be marked, every departure sends one.
LEMMA MMDequeueEnds ==
  ASSUME UseEcn, ~UseHardDrop, "NotECT" \notin Ecns, TypeOK, Fresh(q), MMDequeue
  PROVE  /\ MayDequeue /\ q # <<>> /\ DepartureSent
         /\ qAvg' \in Nat /\ count' \in 0..MaxCount /\ old' \in BOOLEAN /\ idle' \in BOOLEAN
         /\ HistoryOK'
<1>1. \A k \in DOMAIN q : CanForceMark(q[k])
  BY FreshMarkable DEF TypeOK
<1> QED
  BY <1>1, MMDequeueCases

\* The invariant with what the senders are assumed to send.
MMInv == DepartureIInv /\ NoStall /\ Fresh(q)

LEMMA MMInductive ==
  ASSUME UseEcn, ~UseHardDrop, "NotECT" \notin Ecns, MMInv, [MMNext]_vars
  PROVE  MMInv'
<1>1. TypeOK /\ CountInv /\ DepartureIInv /\ NoStall /\ Fresh(q)
  BY DEF MMInv, DepartureIInv
<1>2. ASSUME NEW item \in Item, EnqueueOnly(item) PROVE MMInv'
  BY <1>1, <1>2, EnqueueOnlyInv DEF MMInv
<1>3. CASE MMDequeue
  <2>1. /\ MayDequeue /\ q # <<>> /\ DepartureSent
        /\ qAvg' \in Nat /\ count' \in 0..MaxCount /\ old' \in BOOLEAN /\ idle' \in BOOLEAN
        /\ HistoryOK'
    BY <1>1, <1>3, MMDequeueEnds
  <2>2. BaseInv' /\ Fresh(q)'
    BY <1>1, <2>1, SentInv
  <2> QED
    BY <2>1, <2>2 DEF MMInv, DepartureIInv, TypeOK, BaseInv, CountInv
<1>4. CASE DepartureEmpty
  BY <1>1, <1>4, DepartureEmptyInv DEF MMInv
<1>5. CASE (BaseNext /\ UNCHANGED redVars) \/ UNCHANGED vars
  BY <1>1, <1>5, DepartureBaseInv DEF MMInv
<1> QED
  BY <1>2, <1>3, <1>4, <1>5 DEF MMNext

\* With packets that can be marked, the statistics of RedQueueMMDisc agree
\* whichever packet is marked, for every capacity and every threshold.
THEOREM MMStatisticsAgree ==
  ASSUME UseEcn, ~UseHardDrop, "NotECT" \notin Ecns
  PROVE  MMSpec => []StatisticsAgree
<1>1. MMInv /\ [MMNext]_vars => MMInv'
  BY MMInductive
<1>2. Init => MMInv
  BY DepartureInitial DEF MMInv
<1>3. MMInv => StatisticsAgree
  BY DEF MMInv, DepartureIInv, CountInv, Counters
<1> QED
  BY <1>1, <1>2, <1>3, PTL DEF MMSpec

\* nTotalSentPackets of GetStats is then the number of packets that
\* RedQueueMMDisc has sent.
THEOREM MMSentCounterExact ==
  ASSUME UseEcn, ~UseHardDrop, "NotECT" \notin Ecns
  PROVE  MMSpec => []SentCounterExact
<1>1. MMInv /\ [MMNext]_vars => MMInv'
  BY MMInductive
<1>2. Init => MMInv
  BY DepartureInitial DEF MMInv
<1>3. MMInv => SentCounterExact
  BY DEF MMInv, DepartureIInv, CountInv, Counters
<1> QED
  BY <1>1, <1>2, <1>3, PTL DEF MMSpec

\* Run leaves no packet of RedQueueMMDisc behind: every DoDequeue on packets
\* that can be marked returns one.
THEOREM MMNoStall ==
  ASSUME UseEcn, ~UseHardDrop, "NotECT" \notin Ecns
  PROVE  MMSpec => []NoStall
<1>1. MMInv /\ [MMNext]_vars => MMInv'
  BY MMInductive
<1>2. Init => MMInv
  BY DepartureInitial DEF MMInv
<1>3. MMInv => NoStall
  BY DEF MMInv
<1> QED
  BY <1>1, <1>2, <1>3, PTL DEF MMSpec

\* What the steps of RedQueueMMDisc preserve with any senders.
MMTypes == TypeOK /\ PacketsInv

LEMMA MMTypesInitial == Init => MMTypes
<1> SUFFICES ASSUME Init PROVE MMTypes
  OBVIOUS
<1>1. IInv
  BY IInvInitial
<1>2. nPackets = 0 /\ q = <<>>
  BY DEF Init, QueueDiscInit
<1> QED
  BY <1>1, <1>2 DEF IInv, BaseInv, MMTypes, PacketsInv

LEMMA MMTypesInductive ==
  ASSUME MMTypes, [MMNext]_vars
  PROVE  MMTypes'
<1>1. TypeOK /\ BaseTypeOK /\ PacketsInv
  BY DEF MMTypes, PacketsInv
<1>2. ASSUME NEW item \in Item, EnqueueOnly(item) PROVE MMTypes'
  <2>1. PacketsInv' /\ UNCHANGED redVars
    BY <1>1, <1>2, EnqueueOnlyEnds, ArrivalPackets DEF EnqueueOnly
  <2> QED
    BY <1>1, <2>1 DEF MMTypes, TypeOK, HistoryOK, PacketsInv, redVars, decisionVars
<1>3. CASE MMDequeue
  <2>1. /\ MayDequeue /\ q # <<>>
        /\ DepartureSent \/ DepartureDropped \/ DepartureLost
        /\ qAvg' \in Nat /\ count' \in 0..MaxCount /\ old' \in BOOLEAN /\ idle' \in BOOLEAN
        /\ HistoryOK'
    BY <1>1, <1>3, MMDequeueCases
  <2>2. ASSUME DepartureSent PROVE PacketsInv'
    <3>1. PICK t \in Seq(Item) :
            MarkedUp(q, t) /\ Pop(Tail(t)) /\ Send(Head(t)) /\ nMarked' \in Nat
      BY <2>2 DEF DepartureSent
    <3>2. q \in Seq(Item) /\ Len(q) # 0
      <4>1. q \in Seq(Item)
        BY <1>1 DEF BaseTypeOK
      <4> QED
        BY <2>1, <4>1
    <3>3. Head(t) \in Item /\ Tail(t) \in Seq(Item) /\ Len(Tail(t)) = Len(q) - 1
      <4>1. Len(t) = Len(q) /\ Len(t) # 0
        BY <3>1, <3>2 DEF MarkedUp
      <4> QED
        BY <4>1
    <3>4. q' = Tail(t) /\ PacketDequeued(peeked) /\ RestartWith(Head(t))
      BY <3>1 DEF Pop, Send
    <3> QED
      BY <1>1, <2>1, <3>1, <3>3, <3>4, DeparturePackets
  <2>3. ASSUME DepartureDropped \/ DepartureLost PROVE PacketsInv'
    <3>1. /\ q' = Tail(q) /\ PacketDequeued(peeked) /\ RestartNothing
          /\ dropped' = Append(dropped, Head(q))
      BY <2>3 DEF DepartureDropped, DepartureLost, Pop, DropDequeued, DropAfterDequeue,
                  DropBeforeEnqueue
    <3>2. /\ nReceived' = nReceived /\ nEnqueued' = nEnqueued /\ nMarked' = nMarked
          /\ nDroppedBefore' = nDroppedBefore \/ nDroppedBefore' = nDroppedBefore + 1
          /\ nDroppedAfter' = nDroppedAfter \/ nDroppedAfter' = nDroppedAfter + 1
      BY <2>3 DEF DepartureDropped, DepartureLost, DropDequeued, DropAfterDequeue,
                  DropBeforeEnqueue, enqueueStats
    <3>3. /\ dropped \in Seq(Item) /\ Head(q) \in Item
          /\ nDroppedBefore \in Nat /\ nDroppedAfter \in Nat
      BY <1>1, <2>1 DEF BaseTypeOK
    <3>4. dropped' \in Seq(Item) /\ nDroppedBefore' \in Nat /\ nDroppedAfter' \in Nat
      BY <3>1, <3>2, <3>3
    <3> QED
      BY <1>1, <2>1, <3>1, <3>2, <3>4, LossPackets
  <2> QED
    BY <2>1, <2>2, <2>3 DEF MMTypes, TypeOK, PacketsInv
<1>4. CASE DepartureEmpty
  <2>1. running' = FALSE /\ UNCHANGED <<quota, runEvents, stopped>>
    BY <1>4 DEF DepartureEmpty, RestartNothing, RunEnd
  <2>2. quota \in Nat /\ runEvents \in Nat /\ stopped \in [TxQueues -> BOOLEAN]
    BY <1>1 DEF BaseTypeOK
  <2>3. UNCHANGED <<q, held, peeked, statVars, sent, dropped>>
    BY <1>4 DEF DepartureEmpty, RestartNothing, statVars
  <2>4. PacketsInv'
    BY <1>1, <2>1, <2>2, <2>3, QuietPackets
  <2>5. qAvg' \in Nat
    <3>1. qAvg' \in Estimator(0) /\ qAvg \in Nat
      BY <1>1, <1>4 DEF DepartureEmpty, TypeOK
    <3> QED
      BY <3>1 DEF Estimator
  <2>6. idle' \in BOOLEAN /\ count' = count /\ old' = old /\ UNCHANGED <<decisions, early>>
    BY <1>4 DEF DepartureEmpty, decisionVars
  <2> QED
    BY <1>1, <2>4, <2>5, <2>6 DEF MMTypes, TypeOK, HistoryOK, PacketsInv
<1>5. CASE (BaseNext /\ UNCHANGED redVars) \/ UNCHANGED vars
  <2>1. PacketsInv' /\ UNCHANGED redVars
    BY <1>1, <1>5, BaseNextPackets DEF vars, redVars
  <2> QED
    BY <1>1, <2>1 DEF MMTypes, TypeOK, HistoryOK, PacketsInv, redVars, decisionVars
<1> QED
  BY <1>2, <1>3, <1>4, <1>5 DEF MMNext

\* Every reachable state of RedQueueMMDisc is well typed, whatever its
\* constants and its senders.
THEOREM MMTypeOK == MMSpec => []TypeOK
<1>1. MMTypes /\ [MMNext]_vars => MMTypes'
  BY MMTypesInductive
<1>2. MMTypes => TypeOK
  BY DEF MMTypes
<1> QED
  BY <1>1, <1>2, MMTypesInitial, PTL DEF MMSpec

\* RedQueueMMDisc implements AqmQueue: the marks it sets on random packets, on
\* the front and on the tail overtake nothing and take back nothing, and the
\* packet it loses for one it cannot mark is lost for good.
THEOREM MMImplementsAqmQueue == MMSpec => ImplementsAqmQueue
<1>1. MMTypes /\ [MMNext]_vars => MMTypes'
  BY MMTypesInductive
<1>2. Init => MMTypes /\ Abstract!Init /\ IdsInv
  BY MMTypesInitial, InitialRefines DEF Init
<1>3. ASSUME MMTypes, IdsInv, [MMNext]_vars
      PROVE  [Abstract!Next]_(Abstract!avars) /\ IdsInv'
  <2>1. TypeOK /\ BaseTypeOK
    BY <1>3 DEF MMTypes, PacketsInv
  <2>2. CASE MMDequeue
    <3>1. /\ MayDequeue /\ q # <<>>
          /\ DepartureSent \/ DepartureDropped \/ DepartureLost
      BY <2>1, <2>2, MMDequeueCases
    <3>2. CASE DepartureLost
      <4>1. /\ q' = Tail(q) /\ held = <<>> /\ held' = held
            /\ dropped' = Append(dropped, Head(q)) /\ UNCHANGED <<nReceived, sent>>
        BY <3>1, <3>2 DEF DepartureLost, Pop, DropBeforeEnqueue, RestartNothing, MayDequeue
      <4> QED
        BY <1>3, <2>1, <3>1, <4>1, DiscardRefines
    <3> QED
      BY <1>3, <2>1, <3>1, <3>2, DepartureEndRefines
  <2> QED
    BY <1>3, <2>1, <2>2, DepartureStepRefines DEF MMNext
<1> QED
  BY <1>1, <1>2, <1>3, PTL DEF MMSpec, ImplementsAqmQueue, Abstract!Spec

-----------------------------------------------------------------------------
(* What becomes of marks and of packets that can be marked in the variants.  *)

\* An arrival is lost to a full queue only.
LEMMA EnqueueOnlyLoses ==
  ASSUME BaseTypeOK, NEW item \in Item, EnqueueOnly(item),
         NEW i \in DOMAIN dropped' \ DOMAIN dropped
  PROVE  nReceived' > nReceived /\ ~Fits(q, dropped'[i])
<1>1. dropped \in Seq(Item) /\ nReceived \in Nat
  BY DEF BaseTypeOK
<1>2. nReceived' > nReceived
  BY <1>1 DEF EnqueueOnly, Arrive
<1>3. ~Fits(q, item) /\ dropped' = Append(dropped, item)
  BY DEF EnqueueOnly, InternalEnqueue, Refuse, DropBeforeEnqueue
<1>4. dropped'[i] = item
  BY <1>1, <1>3
<1> QED
  BY <1>2, <1>3, <1>4

\* The other steps that the variants share lose nothing.
LEMMA OthersLoseNothing ==
  DepartureSent \/ DepartureEmpty \/ BaseNext \/ UNCHANGED vars => dropped' = dropped
BY DEF DepartureSent, Send, RestartWith, DepartureEmpty, BaseNext, RestartHeld,
       RestartBlocked, DeviceStop, DeviceWake, RunEvent, vars, baseVars

\* RedQueueFrontDisc loses a capable packet only on arrival, to a full queue,
\* whatever its thresholds, with senders of both kinds.
THEOREM FrontCapableLostOnlyWhenFull ==
  ASSUME UseEcn, ~UseHardDrop
  PROVE  FrontSpec => CapableLostOnlyWhenFull
<1> DEFINE Inv == DepartureIInv /\ Fresh(q)
<1>1. Init => Inv
  BY DepartureInitial
<1>2. Inv /\ [FrontNext]_vars => Inv'
  BY FrontInductive
<1>3. ASSUME Inv, [FrontNext]_vars
      PROVE  [\A i \in DOMAIN dropped' \ DOMAIN dropped :
                dropped'[i].ecn # "NotECT" =>
                  nReceived' > nReceived /\ ~Fits(q, dropped'[i])]_vars
  <2>1. TypeOK /\ BaseTypeOK /\ Fresh(q) /\ dropped \in Seq(Item) /\ q \in Seq(Item)
    BY <1>3 DEF DepartureIInv, TypeOK, BaseTypeOK
  <2>2. ASSUME NEW item \in Item, EnqueueOnly(item),
               NEW i \in DOMAIN dropped' \ DOMAIN dropped
        PROVE  nReceived' > nReceived /\ ~Fits(q, dropped'[i])
    BY <2>1, <2>2, EnqueueOnlyLoses
  <2>3. ASSUME FrontDequeue, NEW i \in DOMAIN dropped' \ DOMAIN dropped
        PROVE  dropped'[i].ecn = "NotECT"
    <3>1. q # <<>> /\ DepartureDropped /\ ~CanForceMark(Head(q))
      BY <2>1, <2>3, FrontDequeueEnds, OthersLoseNothing
    <3>2. FreshItem(Head(q))
      BY <2>1, <3>1 DEF Fresh
    <3>3. Head(q).ecn = "NotECT"
      BY <3>1, <3>2 DEF FreshItem, CanForceMark, Markable
    <3>4. dropped' = Append(dropped, Head(q))
      BY <3>1 DEF DepartureDropped, DropDequeued, DropAfterDequeue
    <3>5. dropped'[i] = Head(q)
      BY <2>1, <3>4
    <3> QED
      BY <3>3, <3>5
  <2> QED
    BY <1>3, <2>2, <2>3, OthersLoseNothing DEF FrontNext
<1> QED
  BY <1>1, <1>2, <1>3, PTL DEF FrontSpec, CapableLostOnlyWhenFull

\* When every packet can be marked, RedQueueMMDisc too loses packets only on
\* arrival, to a full queue.
THEOREM MMCapableLostOnlyWhenFull ==
  ASSUME UseEcn, ~UseHardDrop, "NotECT" \notin Ecns
  PROVE  MMSpec => CapableLostOnlyWhenFull
<1>1. MMInv /\ [MMNext]_vars => MMInv'
  BY MMInductive
<1>2. Init => MMInv
  BY DepartureInitial DEF MMInv
<1>3. ASSUME MMInv, [MMNext]_vars
      PROVE  [\A i \in DOMAIN dropped' \ DOMAIN dropped :
                dropped'[i].ecn # "NotECT" =>
                  nReceived' > nReceived /\ ~Fits(q, dropped'[i])]_vars
  <2>1. TypeOK /\ BaseTypeOK /\ Fresh(q)
    BY <1>3 DEF MMInv, DepartureIInv, TypeOK
  <2>2. ASSUME NEW item \in Item, EnqueueOnly(item),
               NEW i \in DOMAIN dropped' \ DOMAIN dropped
        PROVE  nReceived' > nReceived /\ ~Fits(q, dropped'[i])
    BY <2>1, <2>2, EnqueueOnlyLoses
  <2>3. CASE MMDequeue
    <3>1. dropped' = dropped
      BY <2>1, <2>3, MMDequeueEnds, OthersLoseNothing
    <3> QED
      BY <3>1
  <2> QED
    BY <1>3, <2>2, <2>3, OthersLoseNothing DEF MMNext
<1> QED
  BY <1>1, <1>2, <1>3, PTL DEF MMSpec, CapableLostOnlyWhenFull

\* A forced verdict counts up, or starts the count anew.
LEMMA ForcedCountSteps ==
  ASSUME NEW lost, ForcedCount(lost)
  PROVE  count' \in {0, CountUp}
BY DEF ForcedCount

\* Nothing but a departure changes the count of the variants.
LEMMA OthersKeepCount ==
  ASSUME \/ \E item \in Item : EnqueueOnly(item)
         \/ DepartureEmpty
         \/ BaseNext /\ UNCHANGED redVars
         \/ UNCHANGED vars
  PROVE  UNCHANGED <<count, decisions, early>>
BY DEF EnqueueOnly, DepartureEmpty, redVars, vars, decisionVars

\* After an early signal of RedQueueFrontDisc more than LInterm packets leave
\* before the next, under the hypotheses of RedEarlySignalsSpaced.
THEOREM FrontEarlySignalsSpaced ==
  ASSUME IsWait, InstantQueue, ~ByteMode, ~IsGentle
  PROVE  FrontSpec => []EarlySignalsSpaced
<1>1. DepartureIInv /\ [FrontNext]_vars => DepartureIInv'
  BY FrontInductive
<1>2. ASSUME DepartureIInv, SpacingInv, [FrontNext]_vars
      PROVE  SpacingInv'
  <2>1. TypeOK
    BY <1>2 DEF DepartureIInv
  <2>2. CASE FrontDequeue
    <3>1. PICK avg \in Estimator(CurrentSize(q)), type \in {"none", "unforced", "forced"} :
            /\ Decide(avg, CurrentSize(q), type)
            /\ type = "forced" => FrontForced
      BY <2>2 DEF FrontDequeue
    <3>2. type = "forced" => count' \in {0, CountUp}
      BY <3>1, ForcedCountSteps DEF FrontForced
    <3> QED
      BY <1>2, <2>1, <3>1, <3>2, DecideSpaced
  <2>3. CASE UNCHANGED vars \/ ~FrontDequeue
    BY <1>2, <2>3, OthersKeepCount, QuietSpaced DEF FrontNext
  <2> QED
    BY <2>2, <2>3
<1>3. SpacingInv => EarlySignalsSpaced
  BY DEF SpacingInv
<1> QED
  BY <1>1, <1>2, <1>3, DepartureInitial, InitialSpaced, PTL DEF FrontSpec

\* And so of RedQueueMMDisc, whichever packet a forced signal marks.
THEOREM MMEarlySignalsSpaced ==
  ASSUME IsWait, InstantQueue, ~ByteMode, ~IsGentle
  PROVE  MMSpec => []EarlySignalsSpaced
<1>1. MMTypes /\ [MMNext]_vars => MMTypes'
  BY MMTypesInductive
<1>2. ASSUME MMTypes, SpacingInv, [MMNext]_vars
      PROVE  SpacingInv'
  <2>1. TypeOK
    BY <1>2 DEF MMTypes
  <2>2. CASE MMDequeue
    <3>1. PICK avg \in Estimator(CurrentSize(q)), type \in {"none", "unforced", "forced"} :
            /\ Decide(avg, CurrentSize(q), type)
            /\ type = "forced" => MMForced(avg)
      BY <2>2 DEF MMDequeue
    <3>2. ASSUME MMForced(avg) PROVE count' \in {0, CountUp}
      <4>1. ASSUME NEW i, MarkBehind(i) PROVE count' \in {0, CountUp}
        BY <4>1, ForcedCountSteps DEF MarkBehind
      <4>2. MarkTail => count' \in {0, CountUp}
        BY <4>1 DEF MarkTail
      <4> QED
        BY <3>2, <4>1, <4>2, ForcedCountSteps DEF MMForced, MarkRandom, MarkFront
    <3> QED
      BY <1>2, <2>1, <3>1, <3>2, DecideSpaced
  <2>3. CASE UNCHANGED vars \/ ~MMDequeue
    BY <1>2, <2>3, OthersKeepCount, QuietSpaced DEF MMNext
  <2> QED
    BY <2>2, <2>3
<1>3. SpacingInv => EarlySignalsSpaced
  BY DEF SpacingInv
<1> QED
  BY <1>1, <1>2, <1>3, MMTypesInitial, InitialSpaced, PTL DEF MMSpec

\* Before it leaves no packet of RedQueueFrontDisc is marked.
Unmarked(s) == \A i \in DOMAIN s : ~BeMarked(s[i])

LEMMA UnmarkedTail ==
  ASSUME NEW s \in Seq(Item), s # <<>>, Unmarked(s)
  PROVE  Unmarked(Tail(s)) /\ ~BeMarked(Head(s))
<1>1. /\ DOMAIN Tail(s) = 1..(Len(s) - 1) /\ DOMAIN s = 1..Len(s) /\ Len(s) \in Nat
      /\ 1 \in DOMAIN s /\ Head(s) = s[1]
      /\ \A i \in 1..(Len(s) - 1) : Tail(s)[i] = s[i + 1]
  OBVIOUS
<1>2. \A i \in DOMAIN Tail(s) : Tail(s)[i] = s[i + 1] /\ i + 1 \in DOMAIN s
  BY <1>1
<1> QED
  BY <1>1, <1>2 DEF Unmarked

\* The packet leaves as it is, marked, or not at all.
FrontOutcome ==
  /\ Pop(Tail(q))
  /\ \/ Send(Head(q)) /\ UNCHANGED nMarked
     \/ Send(Marked(Head(q))) /\ CountMark
     \/ DropDequeued(Head(q))

LEMMA FrontDequeueOutcome ==
  ASSUME FrontDequeue
  PROVE  FrontOutcome
BY DEF FrontDequeue, DeparturePlain, DepartureUnforced, FrontForced, FrontOutcome

\* RedQueueFrontDisc counts each mark once: it marks a packet as it leaves,
\* and a packet held for its device is not marked again.
THEOREM FrontEachMarkCountedOnce ==
  ASSUME "CE" \notin Ecns
  PROVE  FrontSpec => []EachMarkCountedOnce
<1> DEFINE Inv == DepartureIInv /\ Unmarked(q) /\ EachMarkCountedOnce
<1>1. Init => Inv
  <2> SUFFICES ASSUME Init PROVE Inv
    OBVIOUS
  <2>1. /\ q = <<>> /\ held = <<>> /\ sent = <<>> /\ dropped = <<>> /\ nMarked = 0
        /\ <<>> \in Seq(Item)
    BY DEF Init, QueueDiscInit
  <2>2. MarkedIn(<<>>) = 0
    BY <2>1, MarkedNat
  <2> QED
    BY <2>1, <2>2, DepartureInitial DEF EachMarkCountedOnce, Unmarked
<1>2. ASSUME Inv, [FrontNext]_vars PROVE Inv'
  <2>1. DepartureIInv' /\ BaseTypeOK'
    BY <1>2, FrontInductive DEF DepartureIInv, CountInv
  <2>2. /\ TypeOK /\ BaseTypeOK /\ EachMarkCountedOnce /\ Unmarked(q)
        /\ q \in Seq(Item) /\ dropped \in Seq(Item) /\ nMarked \in Nat
    BY <1>2 DEF DepartureIInv, TypeOK, BaseTypeOK
  <2>3. ASSUME NEW item \in Item, EnqueueOnly(item)
        PROVE  EachMarkCountedOnce' /\ Unmarked(q)'
    <3>1. Arrive(item) /\ Outcome(item) /\ ~BeMarked(item)
      BY <2>2, <2>3, EnqueueOnlyEnds DEF EnqueueOnly, Arrive, BeMarked
    <3>2. q' = q \/ q' = Append(q, item)
      BY <2>3 DEF EnqueueOnly, InternalEnqueue, Refuse
    <3>3. Unmarked(Append(q, item))
      <4>1. /\ DOMAIN Append(q, item) = 1..(Len(q) + 1) /\ DOMAIN q = 1..Len(q)
            /\ Append(q, item)[Len(q) + 1] = item /\ Len(q) \in Nat
            /\ \A i \in 1..Len(q) : Append(q, item)[i] = q[i]
        BY <2>2
      <4>2. \A i \in DOMAIN Append(q, item) : i = Len(q) + 1 \/ i \in DOMAIN q
        BY <4>1
      <4> QED
        BY <2>2, <3>1, <4>1, <4>2 DEF Unmarked
    <3> QED
      BY <2>1, <2>2, <3>1, <3>2, <3>3, ArrivalMarks DEF Unmarked
  <2>4. CASE FrontDequeue
    <3>1. FrontOutcome /\ q # <<>> /\ held = <<>>
      BY <2>4, FrontDequeueOutcome DEF FrontDequeue, MayDequeue
    <3>2. q' = Tail(q) /\ Head(q) \in Item /\ Marked(Head(q)) \in Item
      <4>1. q' = Tail(q)
        BY <3>1 DEF FrontOutcome, Pop
      <4>2. Head(q) \in Item
        BY <2>2, <3>1
      <4> QED
        BY <4>1, <4>2, ItemUpdates
    <3>3. Unmarked(Tail(q)) /\ Weight(Head(q)) = 0
      BY <2>2, <3>1, UnmarkedTail DEF Weight
    <3>4. Weight(Marked(Head(q))) = 1
      BY <3>2 DEF Weight, BeMarked, Marked, Item
    <3>5. Unmarked(q)'
      BY <3>2, <3>3 DEF Unmarked
    <3>6. CASE Send(Head(q)) /\ UNCHANGED nMarked
      <4>1. EachMarkCountedOnce'
        BY <2>2, <3>1, <3>2, <3>6, LeavingMarks DEF Send, RestartWith
      <4> QED
        BY <2>1, <3>5, <4>1
    <3>7. CASE Send(Marked(Head(q))) /\ CountMark
      <4>1. nMarked' + Weight(Head(q)) = nMarked + Weight(Marked(Head(q))) /\ nMarked' \in Nat
        BY <2>2, <3>3, <3>4, <3>7 DEF CountMark
      <4>2. EachMarkCountedOnce'
        BY <2>2, <3>1, <3>2, <3>7, <4>1, LeavingMarks DEF Send, RestartWith
      <4> QED
        BY <2>1, <3>5, <4>2
    <3>8. CASE DropDequeued(Head(q))
      <4>1. /\ dropped' = Append(dropped, Head(q)) /\ sent' = sent /\ held' = held
            /\ nMarked' = nMarked
        BY <3>8 DEF DropDequeued, DropAfterDequeue, RestartNothing
      <4>2. /\ MarkedIn(Append(dropped, Head(q))) = MarkedIn(dropped) + Weight(Head(q))
            /\ MarkedIn(q) = MarkedIn(Tail(q)) + Weight(Head(q))
        BY <2>2, <3>1, <3>2, MarkedAppend, MarkedTail
      <4>3. Tail(q) \in Seq(Item)
        BY <2>2, <3>1
      <4>4. MarkedIn(dropped) \in Nat /\ MarkedIn(Tail(q)) \in Nat
        BY <2>2, <4>3, MarkedNat
      <4>5. MarkedIn(dropped') = MarkedIn(dropped) /\ MarkedIn(q') = MarkedIn(q)
        BY <3>2, <3>3, <4>1, <4>2, <4>4
      <4>6. EachMarkCountedOnce'
        BY <2>2, <4>1, <4>5 DEF EachMarkCountedOnce, MarkedIn
      <4> QED
        BY <2>1, <3>5, <4>6
    <3> QED
      BY <3>1, <3>6, <3>7, <3>8 DEF FrontOutcome
  <2>5. CASE DepartureEmpty
    BY <2>1, <2>2, <2>5, NothingMarks DEF DepartureEmpty, Unmarked
  <2>6. CASE BaseNext \/ UNCHANGED vars
    <3>1. q' = q
      BY <2>6 DEF BaseNext, RestartHeld, RestartBlocked, DeviceStop, DeviceWake, RunEvent,
                  vars, baseVars
    <3>2. EachMarkCountedOnce'
      BY <2>2, <2>6, BaseNextMarks DEF vars
    <3> QED
      BY <2>1, <2>2, <3>1, <3>2 DEF Unmarked
  <2> QED
    BY <1>2, <2>1, <2>3, <2>4, <2>5, <2>6 DEF FrontNext
<1>3. Inv => EachMarkCountedOnce
  OBVIOUS
<1> QED
  BY <1>1, <1>2, <1>3, PTL DEF FrontSpec
=============================================================================
