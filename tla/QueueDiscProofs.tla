-------------------------- MODULE QueueDiscProofs --------------------------
(***************************************************************************)
(* Lemmas about the base class QueueDisc, for every value of its constants *)
(* and whatever the discipline that extends it: what its operations do to  *)
(* the types, to the statistics and to NoStall, and which steps of         *)
(* AqmQueue they are.                                                      *)
(***************************************************************************)
EXTENDS QueueDisc, SequenceTheorems, FiniteSetTheorems, TLAPS

-----------------------------------------------------------------------------
(* The base class. *)

\* The size of a queue, in packets or in bytes, is a natural number.
LEMMA SizeNat ==
  ASSUME NEW s \in Seq(Item)
  PROVE  CurrentSize(s) \in Nat
<1>1. Len(s) \in Nat
  OBVIOUS
<1>2. IsFiniteSet(1..Len(s)) /\ IsFiniteSet(1..LargestSize)
  BY <1>1, FS_Interval, BaseAssumption
<1>3. IsFiniteSet((1..Len(s)) \X (1..LargestSize))
  BY <1>2, FS_Product
<1>4. IsFiniteSet({u \in (1..Len(s)) \X (1..LargestSize) : u[2] <= s[u[1]].size})
  BY <1>3, FS_Subset
<1>5. Bytes(s) \in Nat
  BY <1>4, FS_CardinalityType DEF Bytes
<1> QED
  BY <1>1, <1>5 DEF CurrentSize

\* Two queues of packets of the same sizes have the same size.
SameSizes(s, t) == Len(s) = Len(t) /\ \A i \in 1..Len(s) : s[i].size = t[i].size

LEMMA SizeSame ==
  ASSUME NEW s \in Seq(Item), NEW t \in Seq(Item), SameSizes(s, t), NEW item
  PROVE  CurrentSize(s) = CurrentSize(t) /\ Fits(s, item) = Fits(t, item)
<1>1. Len(s) = Len(t) /\ \A i \in 1..Len(s) : s[i].size = t[i].size
  BY DEF SameSizes
<1>2. \A u \in (1..Len(s)) \X (1..LargestSize) : u[1] \in 1..Len(s)
  OBVIOUS
<1>3. {u \in (1..Len(s)) \X (1..LargestSize) : u[2] <= s[u[1]].size}
        = {u \in (1..Len(t)) \X (1..LargestSize) : u[2] <= t[u[1]].size}
  BY <1>1, <1>2
<1>4. Bytes(s) = Bytes(t)
  BY <1>3 DEF Bytes
<1>5. CurrentSize(s) = CurrentSize(t)
  BY <1>1, <1>4 DEF CurrentSize
<1> QED
  BY <1>5 DEF Fits

\* A packet whose header or codepoint was set is still a packet.
LEMMA ItemUpdates ==
  ASSUME NEW item \in Item
  PROVE  Marked(item) \in Item /\ [item EXCEPT !.header = TRUE] \in Item
  BY DEF Item, Marked

\* What is held, if anything, is one packet.
LEMMA HeldOne ==
  ASSUME BaseTypeOK, held # <<>>
  PROVE  Len(held) = 1 /\ held[1] \in Item /\ held = <<held[1]>>
<1>1. held \in Seq(Item) /\ Len(held) # 0 /\ Len(held) <= 1
  BY DEF BaseTypeOK
<1> DEFINE n == Len(held)
<1>2. n \in Nat /\ n # 0 /\ n <= 1
  BY <1>1
<1> HIDE DEF n
<1>3. n = 1
  BY <1>2
<1>4. Len(held) = 1
  BY <1>3 DEF n
<1> QED
  BY <1>1, <1>4

\* Everything that is counted is a natural number.
LEMMA CountsNat ==
  ASSUME BaseTypeOK
  PROVE  /\ Len(q) \in Nat /\ Len(held) \in Nat /\ HeldInside \in Nat
         /\ Len(sent) \in Nat /\ Len(dropped) \in Nat
         /\ nPackets \in Nat /\ nReceived \in Nat /\ nEnqueued \in Nat
         /\ nDroppedBefore \in Nat /\ nDequeued \in Nat /\ nDroppedAfter \in Nat
BY DEF BaseTypeOK, HeldInside

\* The counters, together: m_nPackets and the sent counter are differences.
Counters == StatisticsAgree /\ SentCounterExact

\* The inductive invariant: NoStall needs m_nPackets to be the length of the
\* queue, since Transmit ends the Run when GetNPackets is zero; and a peek
\* would leave a packet in the queue disc that q does not hold.
BaseInv == BaseTypeOK /\ ~peeked /\ Counters /\ NoStall

\* What of it does not depend on Run being called again.
CountInv == BaseTypeOK /\ ~peeked /\ Counters

LEMMA RunningInv ==
  ASSUME CountInv, running
  PROVE  BaseInv
BY DEF CountInv, BaseInv, NoStall

\* What DoEnqueue does to the counters, whichever way it ends: the packet is
\* enqueued, or dropped and reported, never both and never neither.
Admitted ==
  /\ q' \in Seq(Item) /\ Len(q') = Len(q) + 1
  /\ nPackets' = nPackets + 1 /\ nEnqueued' = nEnqueued + 1
  /\ UNCHANGED <<nDroppedBefore, dropped>>
Rejected ==
  /\ q' \in Seq(Item) /\ Len(q') = Len(q)
  /\ dropped' \in Seq(Item) /\ Len(dropped') = Len(dropped) + 1
  /\ nDroppedBefore' = nDroppedBefore + 1
  /\ UNCHANGED <<nPackets, nEnqueued>>
Fate == (Admitted \/ Rejected) /\ nMarked' \in Nat

\* The internal queue takes the packet or drops it.
LEMMA InternalEnqueueFate ==
  ASSUME BaseTypeOK, NEW item \in Item, NEW s \in Seq(Item), Len(s) = Len(q),
         InternalEnqueue(s, item), nMarked' \in Nat
  PROVE  Fate
<1>1. CASE Fits(s, item)
  <2>1. q' = Append(s, item) /\ q' \in Seq(Item) /\ Len(q') = Len(q) + 1
    BY <1>1 DEF InternalEnqueue
  <2>2. Admitted
    BY <1>1, <2>1 DEF InternalEnqueue, PacketEnqueued, Admitted
  <2> QED
    BY <2>2 DEF Fate
<1>2. CASE ~Fits(s, item)
  <2>1. q' = s /\ dropped' = Append(dropped, item)
    BY <1>2 DEF InternalEnqueue, DropBeforeEnqueue
  <2>2. dropped' \in Seq(Item) /\ Len(dropped') = Len(dropped) + 1
    BY <2>1 DEF BaseTypeOK
  <2>3. Rejected
    BY <1>2, <2>1, <2>2 DEF InternalEnqueue, DropBeforeEnqueue, Rejected
  <2> QED
    BY <2>3 DEF Fate
<1> QED
  BY <1>1, <1>2

\* A packet that is refused is dropped and reported.
LEMMA RefuseFate ==
  ASSUME BaseTypeOK, NEW item \in Item, Refuse(item), nMarked' \in Nat
  PROVE  Fate
BY DEF Refuse, DropBeforeEnqueue, Fate, Rejected, BaseTypeOK

\* The counters and the types of the base class survive an arrival.
LEMMA ArriveInv ==
  ASSUME BaseTypeOK, Counters, NEW item \in Item, Arrive(item), Fate
  PROVE  BaseTypeOK' /\ Counters' /\ running' /\ peeked' = peeked
<1>1. /\ held' = held /\ peeked' = peeked /\ sent' = sent
      /\ nDequeued' = nDequeued /\ nDroppedAfter' = nDroppedAfter
      /\ nRequeued' = nRequeued /\ nReceived' = nReceived + 1
      /\ stopped' = stopped /\ runEvents' = runEvents
      /\ running' = TRUE /\ quota' = Quota
  BY DEF Arrive, RunBegin
<1>4. HeldInside' = HeldInside /\ Len(held') = Len(held) /\ Len(sent') = Len(sent)
  BY <1>1 DEF HeldInside
<1>5. /\ Len(q) \in Nat /\ Len(held) \in Nat /\ HeldInside \in Nat
      /\ Len(sent) \in Nat /\ Len(dropped) \in Nat
      /\ nPackets \in Nat /\ nReceived \in Nat /\ nEnqueued \in Nat
      /\ nDroppedBefore \in Nat /\ nDequeued \in Nat /\ nDroppedAfter \in Nat
  BY CountsNat
<1>2. CASE Admitted
  <2>1. /\ q' \in Seq(Item) /\ Len(q') = Len(q) + 1
        /\ nPackets' = nPackets + 1 /\ nEnqueued' = nEnqueued + 1
        /\ nDroppedBefore' = nDroppedBefore /\ dropped' = dropped
    BY <1>2 DEF Admitted
  <2>2. BaseTypeOK'
    BY <1>1, <2>1, BaseAssumption DEF BaseTypeOK, Fate
  <2>3. Counters'
    BY <1>1, <1>4, <1>5, <2>1 DEF Counters, StatisticsAgree, SentCounterExact
  <2> QED
    BY <1>1, <2>2, <2>3
<1>3. CASE Rejected
  <2>1. /\ q' \in Seq(Item) /\ Len(q') = Len(q)
        /\ dropped' \in Seq(Item) /\ Len(dropped') = Len(dropped) + 1
        /\ nPackets' = nPackets /\ nEnqueued' = nEnqueued
        /\ nDroppedBefore' = nDroppedBefore + 1
    BY <1>3 DEF Rejected
  <2>2. BaseTypeOK'
    BY <1>1, <2>1, BaseAssumption DEF BaseTypeOK, Fate
  <2>3. Counters'
    <3>1. StatisticsAgree'
      BY <1>1, <1>4, <1>5, <2>1 DEF Counters, StatisticsAgree
    <3>2. SentCounterExact'
      BY <1>1, <1>4, <1>5, <2>1 DEF Counters, SentCounterExact
    <3> QED
      BY <3>1, <3>2 DEF Counters
  <2> QED
    BY <1>1, <2>2, <2>3
<1> QED
  BY <1>2, <1>3 DEF Fate

\* What Transmit does with a packet: it is sent or held, and if the Run ends
\* for another reason than its quota, then the queue disc is empty or a
\* queue of the device is stopped, the one of the packet held if any.
LEMMA TransmitStep ==
  ASSUME BaseTypeOK, NEW item \in Item, NEW left \in Nat, Transmit(item, left)
  PROVE  /\ held' \in Seq(Item) /\ sent' \in Seq(Item) /\ Len(held') <= 1
         /\ Len(sent') + Len(held') = Len(sent) + 1
         /\ nRequeued' \in Nat /\ quota' \in Nat /\ running' \in BOOLEAN
         /\ stopped' \in [TxQueues -> BOOLEAN] /\ runEvents' \in Nat
         /\ held' # <<>> => stopped'[held'[1].txq] /\ \E t \in TxQueues : stopped'[t]
         /\ ~running' /\ quota' # 0 => left = 0 \/ \E t \in TxQueues : stopped'[t]
<1>1. /\ item.txq \in TxQueues /\ sent \in Seq(Item) /\ Len(sent) \in Nat
      /\ stopped \in [TxQueues -> BOOLEAN] /\ nRequeued \in Nat /\ quota \in Nat
      /\ runEvents \in Nat
  BY DEF Item, BaseTypeOK
<1>2. CASE stopped[item.txq]
  <2>1. held' = <<item>> /\ sent' = sent
    BY <1>2 DEF Transmit
  <2>2. /\ nRequeued' = nRequeued + 1 /\ stopped' = stopped
        /\ running' = FALSE /\ quota' = quota /\ runEvents' = runEvents
    BY <1>2 DEF Transmit, RunEnd
  <2>3. held' \in Seq(Item) /\ Len(held') = 1 /\ held'[1] = item
    BY <2>1
  <2>4. stopped'[held'[1].txq] /\ \E t \in TxQueues : stopped'[t]
    BY <1>1, <1>2, <2>2, <2>3
  <2>5. /\ nRequeued' \in Nat /\ quota' \in Nat /\ running' \in BOOLEAN
        /\ stopped' \in [TxQueues -> BOOLEAN] /\ runEvents' \in Nat
    <3>1. nRequeued' \in Nat
      BY <1>1, <2>2
    <3> QED
      BY <1>1, <2>2, <3>1, Zenon
  <2>6. sent' \in Seq(Item) /\ Len(sent') + Len(held') = Len(sent) + 1
    BY <1>1, <2>1, <2>3
  <2>7. Len(held') <= 1
    BY <2>3
  <2> QED
    BY <2>3, <2>4, <2>5, <2>6, <2>7, Zenon
<1>3. CASE ~stopped[item.txq]
  <2>1. /\ held' = <<>> /\ nRequeued' = nRequeued /\ sent' = Append(sent, item)
    BY <1>3 DEF Transmit
  <2>2. PICK stop \in BOOLEAN :
          /\ stopped' = [stopped EXCEPT ![item.txq] = stop]
          /\ IF left = 0 \/ stop THEN RunEnd ELSE NextRestart
    BY <1>3 DEF Transmit
  <2>3. /\ held' \in Seq(Item) /\ Len(held') = 0
        /\ sent' \in Seq(Item) /\ Len(sent') = Len(sent) + 1
    BY <1>1, <2>1
  <2>4. stopped' \in [TxQueues -> BOOLEAN] /\ stopped'[item.txq] = stop
    BY <1>1, <2>2
  <2>5. quota' \in Nat /\ running' \in BOOLEAN
    <3>1. QuotaLeft \in Nat
      BY <1>1, BaseAssumption DEF QuotaLeft
    <3>2. CASE RunEnd
      BY <1>1, <3>2 DEF RunEnd
    <3>3. CASE NextRestart
      BY <3>1, <3>3 DEF NextRestart
    <3> QED
      BY <2>2, <3>2, <3>3, Zenon
  <2>6. ~running' /\ quota' # 0 => left = 0 \/ stop
    BY <2>2 DEF RunEnd, NextRestart
  <2>7. stop => \E t \in TxQueues : stopped'[t]
    BY <1>1, <2>4
  <2>8. Len(held') <= 1 /\ Len(sent') + Len(held') = Len(sent) + 1
    BY <1>1, <2>3
  <2>9. nRequeued' \in Nat /\ held' = <<>>
    BY <1>1, <2>1
  <2>10. runEvents' \in Nat
    <3>1. Reschedule
      BY <1>3 DEF Transmit
    <3> QED
      BY <1>1, <3>1 DEF Reschedule, Scheduled
  <2> QED
    BY <2>3, <2>4, <2>5, <2>6, <2>7, <2>8, <2>9, <2>10, Zenon
<1> QED
  BY <1>2, <1>3

\* The common end of the two steps of Run that transmit a packet: the packet
\* left the queue or was held, and the counters moved with it.
LEMMA TransmitInv ==
  ASSUME BaseInv, running, NEW item \in Item, Transmit(item, nPackets'),
         q' \in Seq(Item), nPackets' \in Nat, nDequeued' \in Nat, peeked' \in BOOLEAN,
         nEnqueued = nPackets' + nDequeued',
         nPackets' = Len(q'),
         peeked' = FALSE,
         nDequeued' - nDroppedAfter = Len(sent) + 1,
         nMarked' \in Nat, UNCHANGED <<enqueueStats, nDroppedAfter, dropped>>
  PROVE  BaseTypeOK' /\ Counters' /\ NoStall'
<1>1. BaseTypeOK
  BY DEF BaseInv
<1>2. /\ held' \in Seq(Item) /\ sent' \in Seq(Item) /\ Len(held') <= 1
      /\ Len(sent') + Len(held') = Len(sent) + 1
      /\ nRequeued' \in Nat /\ quota' \in Nat /\ running' \in BOOLEAN
      /\ stopped' \in [TxQueues -> BOOLEAN] /\ runEvents' \in Nat
      /\ held' # <<>> => stopped'[held'[1].txq] /\ \E t \in TxQueues : stopped'[t]
      /\ ~running' /\ quota' # 0 => nPackets' = 0 \/ \E t \in TxQueues : stopped'[t]
  BY <1>1, TransmitStep
<1>3. /\ nReceived' = nReceived /\ nEnqueued' = nEnqueued
      /\ nDroppedBefore' = nDroppedBefore /\ nDroppedAfter' = nDroppedAfter
      /\ dropped' = dropped
  BY DEF enqueueStats
<1>4. BaseTypeOK'
  <2>2. /\ nReceived' \in Nat /\ nEnqueued' \in Nat /\ nDroppedBefore' \in Nat
        /\ nDroppedAfter' \in Nat /\ nMarked' \in Nat
        /\ dropped' \in Seq(Item)
    BY <1>1, <1>3, Zenon DEF BaseTypeOK
  <2> QED
    BY <1>2, <2>2, Zenon DEF BaseTypeOK
<1>5. StatisticsAgree'
  <2>1. HeldInside' = 0
    BY DEF HeldInside
  <2>2. Len(q') \in Nat
    OBVIOUS
  <2>3. /\ nReceived = nDroppedBefore + nEnqueued
        /\ nDroppedBefore + nDroppedAfter = Len(dropped)
    BY DEF BaseInv, Counters, StatisticsAgree
  <2> QED
    BY <1>3, <2>1, <2>2, <2>3 DEF StatisticsAgree
<1>6. SentCounterExact'
  <2>1. Len(sent') \in Nat /\ Len(held') \in Nat
    <3>1. sent' \in Seq(Item) /\ held' \in Seq(Item)
      BY <1>2
    <3> QED
      BY <3>1
  <2>2. Len(sent) \in Nat /\ nDroppedAfter \in Nat
    BY <1>1, CountsNat
  <2>3. /\ nDequeued' - nDroppedAfter = Len(sent) + 1
        /\ Len(sent') + Len(held') = Len(sent) + 1
    BY <1>2
  <2> QED
    BY <1>3, <2>1, <2>2, <2>3 DEF SentCounterExact
<1>7. NoStall'
  <2>1. nPackets' = 0 => q' = <<>>
    <3>1. q' \in Seq(Item) /\ (Len(q') = 0 => q' = <<>>)
      OBVIOUS
    <3> QED
      BY <3>1
  <2> QED
    BY <1>2, <2>1, Zenon DEF NoStall
<1> QED
  BY <1>4, <1>5, <1>6, <1>7 DEF Counters

\* A packet that was held is given to the device, or held again.
LEMMA RestartHeldInv ==
  ASSUME BaseInv, RestartHeld
  PROVE  BaseTypeOK' /\ Counters' /\ NoStall'
<1>1. BaseTypeOK /\ StatisticsAgree /\ SentCounterExact
  BY DEF BaseInv, Counters
<1>2. held # <<>> /\ held \in Seq(Item) /\ Len(held) <= 1
  BY <1>1 DEF RestartHeld, BaseTypeOK
<1>3. Len(held) = 1 /\ held[1] \in Item
  BY <1>1, <1>2, HeldOne
<1>4. /\ q' = q /\ peeked' = FALSE /\ running
      /\ PacketDequeued(~peeked) /\ Transmit(held[1], nPackets')
      /\ UNCHANGED <<enqueueStats, nDroppedAfter, nMarked, dropped>>
  BY DEF RestartHeld
<1>5. /\ Len(q) \in Nat /\ Len(sent) \in Nat /\ nPackets \in Nat
      /\ nDequeued \in Nat /\ nDroppedAfter \in Nat /\ nEnqueued \in Nat
  BY <1>1, CountsNat
<1>6. nEnqueued = nPackets + nDequeued /\ nPackets = Len(q)
  BY <1>1, <1>5 DEF StatisticsAgree, HeldInside, BaseInv
<1>7. nPackets' = nPackets /\ nDequeued' = nDequeued
  BY <1>4 DEF PacketDequeued, BaseInv
<1>8. nDequeued - nDroppedAfter = Len(sent) + 1
  BY <1>1, <1>3, <1>5 DEF SentCounterExact
<1>9. q' \in Seq(Item)
  BY <1>1, <1>4 DEF BaseTypeOK
<1> QED
  <2>1. /\ nPackets' \in Nat /\ nDequeued' \in Nat /\ peeked' \in BOOLEAN
        /\ nEnqueued = nPackets' + nDequeued' /\ nPackets' = Len(q')
        /\ nDequeued' - nDroppedAfter = Len(sent) + 1
    BY <1>4, <1>5, <1>6, <1>7, <1>8
  <2>2. nMarked' \in Nat
    BY <1>1, <1>4 DEF BaseTypeOK
  <2> QED
    BY <1>3, <1>4, <1>9, <2>1, <2>2, TransmitInv

\* A step that moves nothing but the Run and the device keeps the counters.
LEMMA QuietStep ==
  ASSUME CountInv, running' \in BOOLEAN, quota' \in Nat, runEvents' \in Nat,
         stopped' \in [TxQueues -> BOOLEAN],
         UNCHANGED <<q, held, peeked, statVars, sent, dropped>>
  PROVE  BaseTypeOK' /\ ~peeked' /\ Counters'
<1>1. /\ q' = q /\ held' = held /\ peeked' = peeked /\ sent' = sent
      /\ dropped' = dropped /\ nPackets' = nPackets /\ nReceived' = nReceived
      /\ nEnqueued' = nEnqueued /\ nDroppedBefore' = nDroppedBefore
      /\ nDequeued' = nDequeued /\ nDroppedAfter' = nDroppedAfter
      /\ nRequeued' = nRequeued /\ nMarked' = nMarked
  BY DEF statVars, enqueueStats
<1>2. Counters'
  BY <1>1 DEF CountInv, Counters, StatisticsAgree, SentCounterExact, HeldInside
<1>3. BaseTypeOK'
  BY <1>1, Zenon DEF CountInv, BaseTypeOK
<1> QED
  BY <1>1, <1>2, <1>3 DEF CountInv

\* A Run that is blocked is blocked by a queue of the device.
LEMMA RestartBlockedInv ==
  ASSUME BaseInv, RestartBlocked
  PROVE  BaseTypeOK' /\ ~peeked' /\ Counters' /\ NoStall'
<1>1. BaseTypeOK' /\ ~peeked' /\ Counters'
  BY QuietStep DEF RestartBlocked, RunEnd, BaseInv, CountInv, BaseTypeOK
<1>2. held' = held /\ q' = q /\ stopped' = stopped
  BY DEF RestartBlocked
<1>3. \E t \in TxQueues : stopped[t]
  <2>1. CASE held # <<>>
    <3>1. held \in Seq(Item) /\ Len(held) # 0
      BY <2>1 DEF BaseInv, BaseTypeOK
    <3>2. held[1] \in Item
      BY <3>1
    <3> QED
      BY <2>1, <3>2 DEF RestartBlocked, Item
  <2>2. CASE held = <<>>
    BY <2>2, BaseAssumption DEF RestartBlocked
  <2> QED
    BY <2>1, <2>2
<1>4. NoStall'
  BY <1>2, <1>3 DEF NoStall, RestartBlocked
<1> QED
  BY <1>1, <1>4

\* The steps of the device count nothing.
LEMMA DeviceCounts ==
  ASSUME CountInv,
         RunEvent \/ \E t \in TxQueues : DeviceStop(t) \/ DeviceWake(t)
  PROVE  CountInv'
<1>1. /\ running \in BOOLEAN /\ quota \in Nat /\ runEvents \in Nat
      /\ stopped \in [TxQueues -> BOOLEAN]
  BY DEF CountInv, BaseTypeOK
<1>2. CASE RunEvent
  BY <1>1, <1>2, QuietStep, BaseAssumption DEF RunEvent, RunBegin, CountInv
<1>3. ASSUME NEW t \in TxQueues, DeviceStop(t) PROVE CountInv'
  <2>1. stopped' = [stopped EXCEPT ![t] = TRUE]
    BY <1>3 DEF DeviceStop
  <2> QED
    BY <1>1, <1>3, <2>1, QuietStep DEF DeviceStop, runVars, CountInv
<1>4. ASSUME NEW t \in TxQueues, DeviceWake(t) PROVE CountInv'
  <2>1. PICK still \in BOOLEAN : stopped' = [stopped EXCEPT ![t] = still]
    BY <1>4 DEF DeviceWake
  <2>2. runEvents' = runEvents + 1 \/ runEvents' = runEvents + 2
    BY <1>4 DEF DeviceWake, Scheduled
  <2> QED
    BY <1>1, <1>4, <2>1, <2>2, QuietStep DEF DeviceWake, runVars, CountInv
<1> QED
  BY <1>2, <1>3, <1>4

\* A queue that starts again has a Run scheduled.
LEMMA DeviceInv ==
  ASSUME BaseInv,
         RunEvent \/ \E t \in TxQueues : DeviceStop(t) \/ DeviceWake(t)
  PROVE  BaseTypeOK' /\ ~peeked' /\ Counters' /\ NoStall'
<1>1. BaseTypeOK' /\ ~peeked' /\ Counters'
  BY DeviceCounts DEF BaseInv, CountInv
<1>2. /\ NoStall /\ running \in BOOLEAN /\ runEvents \in Nat
      /\ stopped \in [TxQueues -> BOOLEAN]
  BY DEF BaseInv, BaseTypeOK
<1>3. ASSUME RunEvent PROVE NoStall'
  <2>1. running'
    BY <1>3, Zenon DEF RunEvent, RunBegin
  <2> QED
    BY <2>1 DEF NoStall
<1>4. ASSUME NEW t \in TxQueues, DeviceStop(t) PROVE NoStall'
  <2>1. stopped' = [stopped EXCEPT ![t] = TRUE]
    BY <1>4 DEF DeviceStop
  <2> QED
    BY <1>2, <1>4, <2>1 DEF DeviceStop, runVars, NoStall
<1>5. ASSUME NEW t \in TxQueues, DeviceWake(t) PROVE NoStall'
  <2>1. runEvents' = runEvents + 1 \/ runEvents' = runEvents + 2
    BY <1>5 DEF DeviceWake, Scheduled
  <2>2. runEvents' # 0
    BY <1>2, <2>1
  <2> QED
    BY <2>2 DEF NoStall
<1> QED
  BY <1>1, <1>3, <1>4, <1>5

\* A packet that leaves the queue and is transmitted, marked or not, while
\* what remains may have been marked.
LEMMA DepartureInv ==
  ASSUME BaseInv, MayDequeue, q # <<>>, NEW item \in Item,
         q' \in Seq(Item), Len(q') = Len(q) - 1,
         PacketDequeued(peeked), RestartWith(item), nMarked' \in Nat
  PROVE  BaseInv'
<1>1. BaseTypeOK /\ StatisticsAgree /\ SentCounterExact /\ ~peeked
  BY DEF BaseInv, Counters
<1>2. q \in Seq(Item) /\ Len(q) # 0
  <2>1. q \in Seq(Item)
    BY <1>1 DEF BaseTypeOK
  <2> QED
    BY <2>1
<1>4. [item EXCEPT !.header = TRUE] \in Item
  BY ItemUpdates
<1>5. /\ running /\ held = <<>> /\ peeked' = FALSE
      /\ nPackets' = nPackets - 1 /\ nDequeued' = nDequeued + 1
      /\ Transmit([item EXCEPT !.header = TRUE], nPackets')
      /\ UNCHANGED <<enqueueStats, nDroppedAfter, dropped>>
  BY <1>1 DEF MayDequeue, RestartWith, PacketDequeued
<1>6. /\ Len(q) \in Nat /\ Len(sent) \in Nat /\ nPackets \in Nat
      /\ nDequeued \in Nat /\ nDroppedAfter \in Nat /\ nEnqueued \in Nat
  BY <1>1, CountsNat
<1>7. nEnqueued = nPackets + nDequeued /\ nPackets = Len(q)
  BY <1>1, <1>6 DEF StatisticsAgree, HeldInside
<1>8. nDequeued - nDroppedAfter = Len(sent)
  <2>1. Len(held) = 0
    BY <1>5
  <2> QED
    BY <1>1, <1>6, <2>1 DEF SentCounterExact
<1>9. /\ nPackets' \in Nat /\ nDequeued' \in Nat /\ peeked' \in BOOLEAN
      /\ nEnqueued = nPackets' + nDequeued' /\ nPackets' = Len(q')
      /\ nDequeued' - nDroppedAfter = Len(sent) + 1
  <2>1. nPackets' = nPackets - 1 /\ nDequeued' = nDequeued + 1 /\ peeked' = FALSE
    BY <1>5
  <2>2. Len(q') = Len(q) - 1 /\ Len(q) # 0
    BY <1>2
  <2>3. nPackets' \in Nat /\ nPackets' = Len(q')
    BY <1>6, <1>7, <2>1, <2>2
  <2>4. nDequeued' \in Nat /\ nEnqueued = nPackets' + nDequeued'
    BY <1>6, <1>7, <2>1
  <2>5. nDequeued' - nDroppedAfter = Len(sent) + 1
    BY <1>6, <1>8, <2>1
  <2> QED
    BY <2>1, <2>3, <2>4, <2>5
<1> QED
  BY <1>4, <1>5, <1>9, TransmitInv DEF BaseInv

\* A Run that finds the queue empty ends with nothing to send.
LEMMA EmptyInv ==
  ASSUME BaseInv, MayDequeue, q = <<>>, RestartNothing,
         UNCHANGED <<q, nPackets, enqueueStats, nDequeued, nDroppedAfter, nMarked>>,
         UNCHANGED dropped
  PROVE  BaseInv'
<1>1. /\ q' = q /\ held' = held /\ q = <<>> /\ held = <<>>
      /\ running' = FALSE /\ quota' = quota /\ runEvents' = runEvents
      /\ stopped' = stopped
      /\ UNCHANGED <<q, held, peeked, statVars, sent, dropped>>
  BY DEF RestartNothing, RunEnd, MayDequeue, statVars
<1>2. BaseTypeOK' /\ ~peeked' /\ Counters'
  BY <1>1, QuietStep DEF BaseInv, CountInv, BaseTypeOK
<1> QED
  BY <1>1, <1>2 DEF BaseInv, NoStall

\* The steps that do not depend on the discipline.
LEMMA BaseNextInv ==
  ASSUME BaseInv, BaseNext
  PROVE  BaseInv'
<1>1. CASE RestartHeld
  BY <1>1, RestartHeldInv DEF RestartHeld, BaseInv
<1>2. CASE RestartBlocked
  BY <1>2, RestartBlockedInv DEF BaseInv
<1>3. CASE RunEvent \/ \E t \in TxQueues : DeviceStop(t) \/ DeviceWake(t)
  BY <1>3, DeviceInv DEF BaseInv
<1> QED
  BY <1>1, <1>2, <1>3 DEF BaseNext

\* They keep the counters even when a Run was not called that should be.
LEMMA BaseNextCounts ==
  ASSUME CountInv, BaseNext
  PROVE  CountInv'
<1>1. CASE RestartHeld
  BY <1>1, RunningInv, BaseNextInv DEF RestartHeld, BaseInv, CountInv
<1>2. CASE RestartBlocked
  BY <1>2, RunningInv, BaseNextInv DEF RestartBlocked, BaseInv, CountInv
<1>3. CASE RunEvent \/ \E t \in TxQueues : DeviceStop(t) \/ DeviceWake(t)
  BY <1>3, DeviceCounts
<1> QED
  BY <1>1, <1>2, <1>3 DEF BaseNext

\* A packet dropped after it was dequeued was counted in and is counted out; it
\* ends the Run, and nothing calls the next one.
LEMMA DropAfterCounts ==
  ASSUME CountInv, MayDequeue, q # <<>>, NEW item \in Item, q' = Tail(q),
         PacketDequeued(peeked), DropAfterDequeue(item), RestartNothing,
         UNCHANGED <<enqueueStats, nMarked>>
  PROVE  CountInv'
<1>1. BaseTypeOK /\ StatisticsAgree /\ SentCounterExact /\ ~peeked
  BY DEF CountInv, Counters
<1>2. /\ q \in Seq(Item) /\ dropped \in Seq(Item)
      /\ Len(q') = Len(q) - 1 /\ q' \in Seq(Item) /\ Len(q) # 0
  BY <1>1 DEF BaseTypeOK
<1>3. /\ held = <<>> /\ UNCHANGED <<held, peeked, nRequeued, stopped, runEvents, sent>>
      /\ running' = FALSE /\ quota' = quota
      /\ nPackets' = nPackets - 1 /\ nDequeued' = nDequeued + 1
      /\ nDroppedAfter' = nDroppedAfter + 1 /\ dropped' = Append(dropped, item)
      /\ nReceived' = nReceived /\ nEnqueued' = nEnqueued
      /\ nDroppedBefore' = nDroppedBefore /\ nMarked' = nMarked
  BY <1>1 DEF MayDequeue, PacketDequeued, DropAfterDequeue, RestartNothing, RunEnd, enqueueStats
<1>4. dropped' \in Seq(Item) /\ Len(dropped') = Len(dropped) + 1
  BY <1>2, <1>3
<1>5. /\ Len(q) \in Nat /\ Len(sent) \in Nat /\ Len(dropped) \in Nat /\ Len(held) = 0
      /\ nPackets \in Nat /\ nDequeued \in Nat /\ nDroppedAfter \in Nat
      /\ nEnqueued \in Nat /\ nReceived \in Nat /\ nDroppedBefore \in Nat
  BY <1>1, <1>3, CountsNat
<1>6. /\ nReceived = nDroppedBefore + nEnqueued /\ nEnqueued = nPackets + nDequeued
      /\ nPackets = Len(q) /\ nDroppedBefore + nDroppedAfter = Len(dropped)
      /\ nDequeued - nDroppedAfter = Len(sent)
  BY <1>1, <1>5 DEF StatisticsAgree, SentCounterExact, HeldInside
<1>7. nPackets' \in Nat /\ nDequeued' \in Nat /\ nDroppedAfter' \in Nat
  BY <1>2, <1>3, <1>5, <1>6
<1>8. BaseTypeOK'
  BY <1>1, <1>2, <1>3, <1>4, <1>7 DEF BaseTypeOK
<1>9. StatisticsAgree'
  <2>1. nEnqueued = (nPackets - 1) + (nDequeued + 1) /\ nPackets - 1 = Len(q')
    BY <1>2, <1>5, <1>6
  <2>2. nDroppedBefore + (nDroppedAfter + 1) = Len(dropped')
    BY <1>4, <1>5, <1>6
  <2>3. nPackets - 1 = Len(q') + 0 /\ ~peeked'
    BY <1>1, <1>3, <1>5, <1>6, <2>1
  <2> QED
    BY <1>3, <1>6, <2>1, <2>2, <2>3 DEF StatisticsAgree, HeldInside
<1>10. SentCounterExact'
  <2>1. (nDequeued + 1) - 0 - (nDroppedAfter + 1) = Len(sent)
    BY <1>5, <1>6
  <2> QED
    BY <1>3, <1>5, <2>1 DEF SentCounterExact
<1> QED
  BY <1>1, <1>3, <1>8, <1>9, <1>10 DEF CountInv, Counters

\* The types alone, whatever is counted: what a discipline that counts wrongly
\* still keeps.
PacketsInv == BaseTypeOK /\ ~peeked /\ nPackets = Len(q)

\* An arrival, however it ends.
LEMMA ArrivalPackets ==
  ASSUME PacketsInv, NEW item \in Item, Arrive(item), Fate
  PROVE  PacketsInv'
<1>1. BaseTypeOK /\ ~peeked /\ nPackets = Len(q)
  BY DEF PacketsInv
<1>2. /\ held' = held /\ peeked' = peeked /\ sent' = sent
      /\ nDequeued' = nDequeued /\ nDroppedAfter' = nDroppedAfter
      /\ nRequeued' = nRequeued /\ nReceived' = nReceived + 1
      /\ stopped' = stopped /\ runEvents' = runEvents
      /\ running' = TRUE /\ quota' = Quota
  BY DEF Arrive, RunBegin
<1>3. CASE Admitted
  <2>1. /\ q' \in Seq(Item) /\ Len(q') = Len(q) + 1
        /\ nPackets' = nPackets + 1 /\ nEnqueued' = nEnqueued + 1
        /\ nDroppedBefore' = nDroppedBefore /\ dropped' = dropped
    BY <1>3 DEF Admitted
  <2>2. BaseTypeOK'
    BY <1>1, <1>2, <2>1, BaseAssumption DEF BaseTypeOK, Fate
  <2> QED
    BY <1>1, <1>2, <2>1, <2>2 DEF PacketsInv
<1>4. CASE Rejected
  <2>1. /\ q' \in Seq(Item) /\ Len(q') = Len(q) /\ dropped' \in Seq(Item)
        /\ nPackets' = nPackets /\ nEnqueued' = nEnqueued
        /\ nDroppedBefore' = nDroppedBefore + 1
    BY <1>4 DEF Rejected
  <2>2. BaseTypeOK'
    BY <1>1, <1>2, <2>1, BaseAssumption DEF BaseTypeOK, Fate
  <2> QED
    BY <1>1, <1>2, <2>1, <2>2 DEF PacketsInv
<1> QED
  BY <1>3, <1>4 DEF Fate

\* A packet that is transmitted.
LEMMA TransmitPackets ==
  ASSUME BaseTypeOK, NEW item \in Item, Transmit(item, nPackets'),
         q' \in Seq(Item), nPackets' = Len(q'), nDequeued' \in Nat, peeked' = FALSE,
         nMarked' \in Nat, UNCHANGED <<enqueueStats, nDroppedAfter, dropped>>
  PROVE  PacketsInv'
<1>1. nPackets' \in Nat
  OBVIOUS
<1>2. /\ held' \in Seq(Item) /\ sent' \in Seq(Item) /\ Len(held') <= 1
      /\ nRequeued' \in Nat /\ quota' \in Nat /\ running' \in BOOLEAN
      /\ stopped' \in [TxQueues -> BOOLEAN] /\ runEvents' \in Nat
  BY <1>1, TransmitStep
<1>3. /\ nReceived' = nReceived /\ nEnqueued' = nEnqueued
      /\ nDroppedBefore' = nDroppedBefore /\ nDroppedAfter' = nDroppedAfter
      /\ dropped' = dropped
  BY DEF enqueueStats
<1>4. /\ nReceived' \in Nat /\ nEnqueued' \in Nat /\ nDroppedBefore' \in Nat
      /\ nDroppedAfter' \in Nat /\ dropped' \in Seq(Item) /\ peeked' \in BOOLEAN
  BY <1>3, Zenon DEF BaseTypeOK
<1>5. BaseTypeOK'
  BY <1>1, <1>2, <1>4, Zenon DEF BaseTypeOK
<1> QED
  BY <1>5 DEF PacketsInv

\* A packet that leaves the queue and is transmitted.
LEMMA DeparturePackets ==
  ASSUME PacketsInv, q # <<>>, NEW item \in Item,
         q' \in Seq(Item), Len(q') = Len(q) - 1,
         PacketDequeued(peeked), RestartWith(item), nMarked' \in Nat
  PROVE  PacketsInv'
<1>1. /\ BaseTypeOK /\ peeked = FALSE /\ nPackets = Len(q) /\ nDequeued \in Nat
  BY DEF PacketsInv, BaseTypeOK
<1>2. [item EXCEPT !.header = TRUE] \in Item
  BY ItemUpdates
<1>3. /\ nPackets' = nPackets - 1 /\ nDequeued' = nDequeued + 1 /\ peeked' = FALSE
      /\ Transmit([item EXCEPT !.header = TRUE], nPackets')
      /\ UNCHANGED <<enqueueStats, nDroppedAfter, dropped>>
  BY <1>1 DEF PacketDequeued, RestartWith
<1>4. nPackets' = Len(q') /\ nDequeued' \in Nat
  BY <1>1, <1>3
<1> QED
  BY <1>1, <1>2, <1>3, <1>4, TransmitPackets

\* A packet that is dropped when its turn comes, however that is counted.
LEMMA LossPackets ==
  ASSUME PacketsInv, q # <<>>, q' = Tail(q), PacketDequeued(peeked), RestartNothing,
         dropped' \in Seq(Item), nReceived' = nReceived, nEnqueued' = nEnqueued,
         nDroppedBefore' \in Nat, nDroppedAfter' \in Nat, nMarked' = nMarked
  PROVE  PacketsInv'
<1>1. BaseTypeOK /\ peeked = FALSE /\ nPackets = Len(q) /\ nDequeued \in Nat
  BY DEF PacketsInv, BaseTypeOK
<1>2. q \in Seq(Item) /\ q' \in Seq(Item) /\ Len(q') = Len(q) - 1 /\ Len(q') \in Nat
  <2>1. q \in Seq(Item)
    BY <1>1 DEF BaseTypeOK
  <2> QED
    BY <2>1
<1>3. nPackets' = Len(q') /\ nDequeued' \in Nat
  <2>1. nPackets' = nPackets - 1 /\ nDequeued' = nDequeued + 1
    BY <1>1 DEF PacketDequeued
  <2> QED
    BY <1>1, <1>2, <2>1
<1>4. /\ running' = FALSE /\ quota' = quota
      /\ UNCHANGED <<held, peeked, nRequeued, stopped, runEvents, sent>>
  BY DEF RestartNothing, RunEnd
<1>5. BaseTypeOK'
  BY <1>1, <1>2, <1>3, <1>4 DEF BaseTypeOK
<1> QED
  BY <1>1, <1>3, <1>4, <1>5 DEF PacketsInv

\* A step that moves no packet.
LEMMA QuietPackets ==
  ASSUME PacketsInv, running' \in BOOLEAN, quota' \in Nat, runEvents' \in Nat,
         stopped' \in [TxQueues -> BOOLEAN],
         UNCHANGED <<q, held, peeked, statVars, sent, dropped>>
  PROVE  PacketsInv'
<1>1. /\ q' = q /\ held' = held /\ peeked' = peeked /\ sent' = sent
      /\ dropped' = dropped /\ nPackets' = nPackets /\ nReceived' = nReceived
      /\ nEnqueued' = nEnqueued /\ nDroppedBefore' = nDroppedBefore
      /\ nDequeued' = nDequeued /\ nDroppedAfter' = nDroppedAfter
      /\ nRequeued' = nRequeued /\ nMarked' = nMarked
  BY DEF statVars, enqueueStats
<1>2. BaseTypeOK'
  BY <1>1, Zenon DEF PacketsInv, BaseTypeOK
<1> QED
  BY <1>1, <1>2 DEF PacketsInv

\* The steps of the base class.
LEMMA BaseNextPackets ==
  ASSUME PacketsInv, BaseNext \/ UNCHANGED baseVars
  PROVE  PacketsInv'
<1>1. /\ BaseTypeOK /\ running \in BOOLEAN /\ quota \in Nat /\ runEvents \in Nat
      /\ stopped \in [TxQueues -> BOOLEAN]
  BY DEF PacketsInv, BaseTypeOK
<1>2. CASE RestartHeld
  <2>1. /\ held # <<>> /\ q' = q /\ peeked' = FALSE /\ PacketDequeued(~peeked)
        /\ Transmit(held[1], nPackets')
        /\ UNCHANGED <<enqueueStats, nDroppedAfter, nMarked, dropped>>
    BY <1>2 DEF RestartHeld
  <2>2. held[1] \in Item
    BY <1>1, <2>1, HeldOne
  <2>3. nPackets' = nPackets /\ nDequeued' = nDequeued
    BY <2>1 DEF PacketDequeued, PacketsInv
  <2>4. /\ q' \in Seq(Item) /\ nPackets' = Len(q') /\ nDequeued' \in Nat /\ nMarked' \in Nat
    BY <1>1, <2>1, <2>3 DEF PacketsInv, BaseTypeOK
  <2> QED
    BY <1>1, <2>1, <2>2, <2>4, TransmitPackets
<1>3. CASE RestartBlocked
  BY <1>1, <1>3, QuietPackets DEF RestartBlocked, RunEnd
<1>4. CASE RunEvent
  BY <1>1, <1>4, QuietPackets, BaseAssumption DEF RunEvent, RunBegin
<1>5. ASSUME NEW t \in TxQueues, DeviceStop(t) PROVE PacketsInv'
  <2>1. stopped' = [stopped EXCEPT ![t] = TRUE]
    BY <1>5 DEF DeviceStop
  <2> QED
    BY <1>1, <1>5, <2>1, QuietPackets DEF DeviceStop, runVars
<1>6. ASSUME NEW t \in TxQueues, DeviceWake(t) PROVE PacketsInv'
  <2>1. PICK still \in BOOLEAN : stopped' = [stopped EXCEPT ![t] = still]
    BY <1>6 DEF DeviceWake
  <2>2. runEvents' = runEvents + 1 \/ runEvents' = runEvents + 2
    BY <1>6 DEF DeviceWake, Scheduled
  <2> QED
    BY <1>1, <1>6, <2>1, <2>2, QuietPackets DEF DeviceWake, runVars
<1>7. CASE UNCHANGED baseVars
  BY <1>1, <1>7, QuietPackets DEF baseVars, runVars
<1> QED
  BY <1>2, <1>3, <1>4, <1>5, <1>6, <1>7 DEF BaseNext

\* A step of something else leaves the queue disc as it is.
LEMMA BaseStutter ==
  ASSUME BaseInv, UNCHANGED baseVars
  PROVE  BaseInv'
<1>1. /\ UNCHANGED <<q, held, peeked, statVars, sent, dropped>>
      /\ running' = running /\ quota' = quota /\ runEvents' = runEvents
      /\ stopped' = stopped /\ q' = q /\ held' = held
  BY DEF baseVars, runVars
<1>2. BaseTypeOK' /\ ~peeked' /\ Counters'
  BY <1>1, QuietStep DEF BaseInv, CountInv, BaseTypeOK
<1> QED
  BY <1>1, <1>2 DEF BaseInv, NoStall

\* An arrival whose fate is decided preserves the invariant: it starts a Run.
LEMMA ArrivalInv ==
  ASSUME BaseInv, NEW item \in Item, Arrive(item), Fate
  PROVE  BaseInv'
<1>1. BaseTypeOK' /\ Counters' /\ running' /\ ~peeked'
  BY ArriveInv DEF BaseInv
<1> QED
  BY <1>1 DEF BaseInv, NoStall

\* So it does for the counters.
LEMMA ArrivalCounts ==
  ASSUME CountInv, NEW item \in Item, Arrive(item), Fate
  PROVE  CountInv'
BY ArriveInv DEF CountInv

\* The invariant of the base class holds initially.
LEMMA BaseInitial == QueueDiscInit => BaseInv
<1> SUFFICES ASSUME QueueDiscInit PROVE BaseInv
  OBVIOUS
<1>1. /\ q = <<>> /\ held = <<>> /\ sent = <<>> /\ dropped = <<>>
      /\ peeked = FALSE /\ running = FALSE /\ quota = 0 /\ runEvents = 0
      /\ stopped = [t \in TxQueues |-> FALSE]
  BY DEF QueueDiscInit
<1>2. /\ nPackets = 0 /\ nReceived = 0 /\ nEnqueued = 0 /\ nDroppedBefore = 0
      /\ nDequeued = 0 /\ nDroppedAfter = 0 /\ nRequeued = 0 /\ nMarked = 0
  BY DEF QueueDiscInit
<1>3. /\ q \in Seq(Item) /\ held \in Seq(Item)
      /\ sent \in Seq(Item) /\ dropped \in Seq(Item)
  BY <1>1
<1>4. Len(q) = 0 /\ Len(held) = 0 /\ Len(sent) = 0 /\ Len(dropped) = 0
  BY <1>1
<1>5. BaseTypeOK
  <2>1. stopped \in [TxQueues -> BOOLEAN]
    BY <1>1
  <2>2. /\ nPackets \in Nat /\ nReceived \in Nat /\ nEnqueued \in Nat
        /\ nDroppedBefore \in Nat /\ nDequeued \in Nat /\ nDroppedAfter \in Nat
        /\ nRequeued \in Nat /\ nMarked \in Nat
    BY <1>2
  <2>3. Len(held) <= 1
    BY <1>4
  <2>4. quota \in Nat /\ runEvents \in Nat
    BY DEF QueueDiscInit
  <2> QED
    BY <1>1, <1>3, <2>1, <2>2, <2>3, <2>4, Zenon DEF BaseTypeOK
<1>6. StatisticsAgree /\ SentCounterExact
  <2>1. HeldInside = 0
    BY <1>1 DEF HeldInside
  <2> QED
    BY <1>2, <1>4, <2>1 DEF StatisticsAgree, SentCounterExact
<1>7. NoStall
  BY <1>1 DEF NoStall
<1> QED
  BY <1>1, <1>5, <1>6, <1>7 DEF BaseInv, Counters

-----------------------------------------------------------------------------
(* The refinement of AqmQueue.  Its states are the identities and the       *)
(* codepoints of the packets; every step is shown to be one of its steps on *)
(* the packets themselves, and then carried over by Visible.                *)

\* A packet that may have been marked, and a queue whose packets may have.
MarkedItem(x, y) == y.id = x.id /\ (y.ecn = x.ecn \/ (x.ecn = "ECT" /\ y.ecn = "CE"))
MarkedUp(s, t) == Len(s) = Len(t) /\ \A i \in 1..Len(s) : MarkedItem(s[i], t[i])

View(item) == [id |-> item.id, ecn |-> item.ecn]
Views == [id : 1..MaxPackets, ecn : {"NotECT", "ECT", "CE"}]

\* What Visible keeps of a queue.
LEMMA VisibleSeq ==
  ASSUME NEW s \in Seq(Item)
  PROVE  /\ Visible(s) \in Seq(Views) /\ Len(Visible(s)) = Len(s)
         /\ DOMAIN Visible(s) = 1..Len(s)
         /\ \A i \in 1..Len(s) : Visible(s)[i] = View(s[i])
<1>1. Len(s) \in Nat /\ DOMAIN s = 1..Len(s) /\ \A i \in 1..Len(s) : s[i] \in Item
  OBVIOUS
<1>2. Visible(s) = [i \in 1..Len(s) |-> View(s[i])]
  BY <1>1 DEF Visible, View
<1>3. \A i \in 1..Len(s) : View(s[i]) \in Views
  BY <1>1 DEF View, Views, Item
<1>4. Visible(s) \in [1..Len(s) -> Views]
  BY <1>2, <1>3
<1>5. Visible(s) \in Seq(Views)
  BY <1>1, <1>4, SeqDef
<1>6. DOMAIN Visible(s) = 1..Len(s)
  BY <1>2
<1>7. Len(Visible(s)) = Len(s)
  BY <1>1, <1>5, <1>6, LenProperties
<1> QED
  BY <1>2, <1>5, <1>6, <1>7

\* It commutes with the operations on queues.
LEMMA VisibleAppend ==
  ASSUME NEW s \in Seq(Item), NEW item \in Item
  PROVE  Visible(Append(s, item)) = Append(Visible(s), View(item))
<1> DEFINE t == Append(s, item)
           v == Append(Visible(s), View(item))
<1>1. /\ t \in Seq(Item) /\ Len(t) = Len(s) + 1 /\ t[Len(s) + 1] = item
      /\ \A i \in 1..Len(s) : t[i] = s[i]
  BY AppendProperties
<1>2. View(item) \in Views
  BY DEF View, Views, Item
<1>3. /\ v \in Seq(Views) /\ Len(v) = Len(s) + 1 /\ v[Len(s) + 1] = View(item)
      /\ \A i \in 1..Len(s) : v[i] = Visible(s)[i]
  BY <1>2, VisibleSeq, AppendProperties
<1>4. /\ Visible(t) \in Seq(Views) /\ Len(Visible(t)) = Len(s) + 1
      /\ \A i \in 1..(Len(s) + 1) : Visible(t)[i] = View(t[i])
  BY <1>1, VisibleSeq
<1>5. \A i \in 1..Len(s) : Visible(s)[i] = View(s[i])
  BY VisibleSeq
<1>6. Len(s) \in Nat
  OBVIOUS
<1> HIDE DEF t, v
<1>7. \A i \in 1..(Len(s) + 1) : Visible(t)[i] = v[i]
  <2> TAKE i \in 1..(Len(s) + 1)
  <2>1. CASE i = Len(s) + 1
    BY <1>1, <1>3, <1>4, <2>1
  <2>2. CASE i \in 1..Len(s)
    BY <1>1, <1>3, <1>4, <1>5, <2>2
  <2> QED
    BY <1>6, <2>1, <2>2
<1>8. Visible(t) = v
  BY <1>3, <1>4, <1>7, SeqEqual
<1> QED
  BY <1>8 DEF t, v

LEMMA VisibleTail ==
  ASSUME NEW s \in Seq(Item), s # <<>>
  PROVE  /\ Visible(s) # <<>> /\ Head(Visible(s)) = View(Head(s))
         /\ Tail(Visible(s)) = Visible(Tail(s))
<1> DEFINE v == Visible(s)
<1>1. Len(s) \in Nat /\ Len(s) # 0 /\ Head(s) = s[1]
  OBVIOUS
<1>2. /\ v \in Seq(Views) /\ Len(v) = Len(s)
      /\ \A i \in 1..Len(s) : v[i] = View(s[i])
  BY VisibleSeq
<1>3. /\ Tail(s) \in Seq(Item) /\ Len(Tail(s)) = Len(s) - 1
      /\ \A i \in 1..(Len(s) - 1) : Tail(s)[i] = s[i + 1]
  BY <1>1, HeadTailProperties
<1> HIDE DEF v
<1>4. v # <<>> /\ Head(v) = v[1]
  BY <1>1, <1>2
<1>5. /\ Tail(v) \in Seq(Views) /\ Len(Tail(v)) = Len(s) - 1
      /\ \A i \in 1..(Len(s) - 1) : Tail(v)[i] = v[i + 1]
  BY <1>2, <1>4, HeadTailProperties
<1>6. /\ Visible(Tail(s)) \in Seq(Views) /\ Len(Visible(Tail(s))) = Len(s) - 1
      /\ \A i \in 1..(Len(s) - 1) : Visible(Tail(s))[i] = View(Tail(s)[i])
  BY <1>3, VisibleSeq
<1>7. \A i \in 1..(Len(s) - 1) : Tail(v)[i] = Visible(Tail(s))[i]
  <2> TAKE i \in 1..(Len(s) - 1)
  <2>1. i + 1 \in 1..Len(s)
    BY <1>1
  <2> QED
    BY <1>2, <1>3, <1>5, <1>6, <2>1
<1>8. Tail(v) = Visible(Tail(s))
  BY <1>5, <1>6, <1>7, SeqEqual
<1> QED
  BY <1>1, <1>2, <1>4, <1>8 DEF v

\* Marking packets of a queue is a Remarked of what is visible of it.
LEMMA MarkedUpRemarked ==
  ASSUME NEW s \in Seq(Item), NEW t \in Seq(Item), MarkedUp(s, t)
  PROVE  \E S \in SUBSET (1..Len(s)) : Visible(t) = Abstract!Remarked(Visible(s), S)
<1> DEFINE S == {i \in 1..Len(s) : t[i].ecn # s[i].ecn}
           v == Visible(s)
           w == Abstract!Remarked(v, S)
<1>1. Len(t) = Len(s) /\ \A i \in 1..Len(s) : MarkedItem(s[i], t[i])
  BY DEF MarkedUp
<1>2. /\ v \in Seq(Views) /\ DOMAIN v = 1..Len(s)
      /\ \A i \in 1..Len(s) : v[i] = View(s[i])
  BY VisibleSeq
<1>3. DOMAIN Visible(t) = 1..Len(s) /\ \A i \in 1..Len(s) : Visible(t)[i] = View(t[i])
  BY <1>1, VisibleSeq
<1>4. \A i \in 1..Len(s) : s[i] \in Item /\ t[i] \in Item
  BY <1>1
<1> HIDE DEF v
<1>5. w = [i \in 1..Len(s) |-> IF i \in S /\ v[i].ecn = "ECT"
                               THEN [v[i] EXCEPT !.ecn = "CE"] ELSE v[i]]
  BY <1>2 DEF Abstract!Remarked
<1>6. \A i \in 1..Len(s) : View(t[i]) = w[i]
  <2> TAKE i \in 1..Len(s)
  <2>1. MarkedItem(s[i], t[i]) /\ v[i] = View(s[i])
    BY <1>1, <1>2
  <2>2. CASE t[i].ecn = s[i].ecn
    BY <1>5, <2>1, <2>2 DEF MarkedItem, View
  <2>3. CASE t[i].ecn # s[i].ecn
    <3>1. i \in S /\ s[i].ecn = "ECT" /\ t[i].ecn = "CE" /\ t[i].id = s[i].id
      BY <2>1, <2>3 DEF MarkedItem
    <3>2. v[i].ecn = "ECT"
      BY <2>1, <3>1 DEF View
    <3>3. w[i] = [v[i] EXCEPT !.ecn = "CE"]
      <4> HIDE DEF S, w
      <4> QED
        BY <1>5, <3>1, <3>2
    <3>4. w[i] = [View(s[i]) EXCEPT !.ecn = "CE"]
      BY <2>1, <3>3, Zenon
    <3> QED
      BY <3>1, <3>4 DEF View
  <2> QED
    BY <2>2, <2>3
<1>7. DOMAIN w = 1..Len(s)
  BY <1>5
<1>8. Visible(t) = [i \in 1..Len(s) |-> View(t[i])]
  BY <1>1, <1>4 DEF Visible, View
<1> HIDE DEF w, S
<1>9. w = [i \in 1..Len(s) |-> w[i]]
  BY <1>5
<1>10. Visible(t) = w
  BY <1>6, <1>8, <1>9
<1> QED
  BY <1>10 DEF w, v, S

\* Where the identities are: each packet that came is held, queued, sent or
\* dropped.  With it, the next packet is new to AqmQueue too.
IdsOf(s) == {s[i].id : i \in DOMAIN s}
AllIds == IdsOf(held) \cup IdsOf(q) \cup IdsOf(sent) \cup IdsOf(dropped)
IdsInv == AllIds = 1..nReceived

LEMMA IdsAppend ==
  ASSUME NEW s \in Seq(Item), NEW item
  PROVE  IdsOf(Append(s, item)) = IdsOf(s) \cup {item.id}
<1>1. /\ Len(s) \in Nat /\ DOMAIN s = 1..Len(s)
      /\ DOMAIN Append(s, item) = 1..(Len(s) + 1)
      /\ Append(s, item)[Len(s) + 1] = item
      /\ \A i \in 1..Len(s) : Append(s, item)[i] = s[i]
  OBVIOUS
<1> QED
  BY <1>1 DEF IdsOf

LEMMA IdsTail ==
  ASSUME NEW s \in Seq(Item), s # <<>>
  PROVE  IdsOf(s) = {Head(s).id} \cup IdsOf(Tail(s))
<1>1. /\ Len(s) \in Nat /\ Len(s) # 0 /\ DOMAIN s = 1..Len(s) /\ Head(s) = s[1]
      /\ DOMAIN Tail(s) = 1..(Len(s) - 1)
      /\ \A i \in 1..(Len(s) - 1) : Tail(s)[i] = s[i + 1]
  OBVIOUS
<1>2. \A i \in 2..Len(s) : i - 1 \in DOMAIN Tail(s) /\ Tail(s)[i - 1] = s[i]
  BY <1>1
<1>3. \A i \in DOMAIN s : i = 1 \/ i \in 2..Len(s)
  BY <1>1
<1>4. IdsOf(s) \subseteq {Head(s).id} \cup IdsOf(Tail(s))
  <2> SUFFICES ASSUME NEW i \in DOMAIN s
               PROVE  s[i].id \in {Head(s).id} \cup IdsOf(Tail(s))
    BY DEF IdsOf
  <2>1. CASE i = 1
    BY <1>1, <2>1
  <2>2. CASE i \in 2..Len(s)
    <3>1. i - 1 \in DOMAIN Tail(s) /\ Tail(s)[i - 1].id = s[i].id
      BY <1>2, <2>2
    <3>2. Tail(s)[i - 1].id \in IdsOf(Tail(s))
      BY <3>1 DEF IdsOf
    <3> QED
      BY <3>1, <3>2
  <2> QED
    BY <1>3, <2>1, <2>2
<1>5. \A i \in DOMAIN Tail(s) : i + 1 \in DOMAIN s /\ Tail(s)[i] = s[i + 1]
  BY <1>1
<1>6. {Head(s).id} \cup IdsOf(Tail(s)) \subseteq IdsOf(s)
  BY <1>1, <1>5 DEF IdsOf
<1> QED
  BY <1>4, <1>6

LEMMA IdsMarkedUp ==
  ASSUME NEW s \in Seq(Item), NEW t \in Seq(Item), MarkedUp(s, t)
  PROVE  IdsOf(t) = IdsOf(s)
<1>1. DOMAIN s = DOMAIN t /\ \A i \in DOMAIN s : t[i].id = s[i].id
  BY DEF MarkedUp, MarkedItem
<1> QED
  BY <1>1 DEF IdsOf

LEMMA IdsConcat ==
  ASSUME NEW s \in Seq(Item), NEW t \in Seq(Item)
  PROVE  IdsOf(s \o t) = IdsOf(s) \cup IdsOf(t)
<1>1. /\ s \o t \in Seq(Item) /\ Len(s \o t) = Len(s) + Len(t)
      /\ \A i \in 1..(Len(s) + Len(t)) :
           (s \o t)[i] = IF i <= Len(s) THEN s[i] ELSE t[i - Len(s)]
  BY ConcatProperties
<1>2. Len(s) \in Nat /\ Len(t) \in Nat /\ DOMAIN s = 1..Len(s) /\ DOMAIN t = 1..Len(t)
  OBVIOUS
<1>3. DOMAIN (s \o t) = 1..(Len(s) + Len(t))
  BY <1>1
<1> DEFINE u == s \o t
           m == Len(s)
           n == Len(t)
<1>4. /\ m \in Nat /\ n \in Nat /\ DOMAIN u = 1..(m + n)
      /\ DOMAIN s = 1..m /\ DOMAIN t = 1..n
      /\ \A i \in 1..(m + n) : u[i] = IF i <= m THEN s[i] ELSE t[i - m]
  BY <1>1, <1>2, <1>3
<1> HIDE DEF u, m, n
<1>5. /\ \A i \in DOMAIN s : i \in DOMAIN u /\ u[i] = s[i]
      /\ \A i \in DOMAIN t : i + m \in DOMAIN u /\ u[i + m] = t[i]
  BY <1>4
<1>6. \A i \in DOMAIN u : \/ i \in DOMAIN s /\ u[i] = s[i]
                          \/ i - m \in DOMAIN t /\ u[i] = t[i - m]
  BY <1>4
<1>7. IdsOf(s) \subseteq IdsOf(u) /\ IdsOf(t) \subseteq IdsOf(u)
  BY <1>5 DEF IdsOf
<1>8. IdsOf(u) \subseteq IdsOf(s) \cup IdsOf(t)
  BY <1>6 DEF IdsOf
<1> QED
  BY <1>7, <1>8 DEF u

\* What is visible has the same identities.
LEMMA IdsVisible ==
  ASSUME NEW s \in Seq(Item)
  PROVE  Abstract!Ids(Visible(s)) = IdsOf(s)
<1>1. /\ DOMAIN Visible(s) = 1..Len(s) /\ DOMAIN s = 1..Len(s)
      /\ \A i \in 1..Len(s) : Visible(s)[i] = View(s[i])
  BY VisibleSeq
<1>2. \A i \in DOMAIN s : Visible(s)[i].id = s[i].id
  BY <1>1 DEF View
<1> QED
  BY <1>1, <1>2 DEF Abstract!Ids, IdsOf

\* The Cardinality of the instance is that of FiniteSets.
LEMMA SameCardinality ==
  ASSUME NEW S
  PROVE  Abstract!Cardinality(S) = Cardinality(S)
BY DEF Abstract!Cardinality, Cardinality

\* AqmQueue numbers the next packet as Arrive does.
LEMMA OfferedCount ==
  ASSUME BaseTypeOK, IdsInv
  PROVE  Abstract!Cardinality(Abstract!Offered) + 1 = nReceived + 1
<1>1. /\ held \in Seq(Item) /\ q \in Seq(Item) /\ sent \in Seq(Item)
      /\ dropped \in Seq(Item) /\ nReceived \in Nat
  BY DEF BaseTypeOK
<1>2. held \o q \in Seq(Item)
  BY <1>1, ConcatProperties
<1>3. /\ Abstract!Ids(Visible(held \o q)) = IdsOf(held) \cup IdsOf(q)
      /\ Abstract!Ids(Visible(sent)) = IdsOf(sent)
  BY <1>1, <1>2, IdsVisible, IdsConcat
<1>4. Abstract!Offered = 1..nReceived
  BY <1>3 DEF Abstract!Offered, IdsInv, AllIds, IdsOf
<1>5. Cardinality(1..nReceived) = IF 1 > nReceived THEN 0 ELSE nReceived - 1 + 1
  BY <1>1, FS_Interval
<1>6. Cardinality(1..nReceived) = nReceived
  BY <1>1, <1>5
<1> QED
  BY <1>4, <1>6, SameCardinality

\* What an arrival may do to the packets: some of the queue are marked, and
\* the arrival, marked or not, joins them or is dropped.
Joins(s, item) == q' = Append(s, item) /\ dropped' = dropped
Dropped(s, item) == q' = s /\ dropped' = Append(dropped, item)
ArrivalEnds(item) ==
  \E s \in Seq(Item), p \in Item :
    /\ MarkedUp(q, s) /\ MarkedItem(item, p)
    /\ Joins(s, p) \/ Dropped(s, p)

\* The packet held, before the queue, does not change.
LEMMA MarkedUpConcat ==
  ASSUME NEW s \in Seq(Item), NEW t \in Seq(Item), NEW h \in Seq(Item), MarkedUp(s, t)
  PROVE  MarkedUp(h \o s, h \o t)
<1>1. /\ Len(h \o s) = Len(h) + Len(s)
      /\ \A i \in 1..(Len(h) + Len(s)) :
           (h \o s)[i] = IF i <= Len(h) THEN h[i] ELSE s[i - Len(h)]
  BY ConcatProperties
<1>2. /\ Len(h \o t) = Len(h) + Len(t)
      /\ \A i \in 1..(Len(h) + Len(t)) :
           (h \o t)[i] = IF i <= Len(h) THEN h[i] ELSE t[i - Len(h)]
  BY ConcatProperties
<1>3. Len(h) \in Nat /\ Len(s) \in Nat /\ Len(t) = Len(s)
  BY DEF MarkedUp
<1>4. \A i \in 1..Len(s) : MarkedItem(s[i], t[i])
  BY DEF MarkedUp
<1>5. ASSUME NEW i \in 1..(Len(h) + Len(s))
      PROVE  MarkedItem((h \o s)[i], (h \o t)[i])
  <2>1. CASE i <= Len(h)
    <3>1. (h \o s)[i] = h[i] /\ (h \o t)[i] = h[i]
      BY <1>1, <1>2, <1>3, <2>1
    <3> QED
      BY <3>1 DEF MarkedItem
  <2>2. CASE ~(i <= Len(h))
    <3>1. i - Len(h) \in 1..Len(s)
      BY <1>3, <2>2
    <3>2. (h \o s)[i] = s[i - Len(h)] /\ (h \o t)[i] = t[i - Len(h)]
      BY <1>1, <1>2, <1>3, <2>2
    <3> QED
      BY <1>4, <3>1, <3>2
  <2> QED
    BY <2>1, <2>2
<1> QED
  BY <1>1, <1>2, <1>3, <1>5 DEF MarkedUp

\* So a packet may join at the end, marked or not.
LEMMA MarkedUpAppend ==
  ASSUME NEW s \in Seq(Item), NEW t \in Seq(Item), MarkedUp(s, t),
         NEW x \in Item, NEW y \in Item, MarkedItem(x, y)
  PROVE  MarkedUp(Append(s, x), Append(t, y))
<1>1. /\ Len(Append(s, x)) = Len(s) + 1 /\ Append(s, x)[Len(s) + 1] = x
      /\ \A i \in 1..Len(s) : Append(s, x)[i] = s[i]
  BY AppendProperties
<1>2. /\ Len(Append(t, y)) = Len(t) + 1 /\ Append(t, y)[Len(t) + 1] = y
      /\ \A i \in 1..Len(t) : Append(t, y)[i] = t[i]
  BY AppendProperties
<1>3. /\ Len(s) \in Nat /\ Len(t) = Len(s)
      /\ \A i \in 1..Len(s) : MarkedItem(s[i], t[i])
  BY DEF MarkedUp
<1>4. \A i \in 1..(Len(s) + 1) : i = Len(s) + 1 \/ i \in 1..Len(s)
  BY <1>3
<1>5. \A i \in 1..(Len(s) + 1) : MarkedItem(Append(s, x)[i], Append(t, y)[i])
  BY <1>1, <1>2, <1>3, <1>4
<1> QED
  BY <1>1, <1>2, <1>3, <1>5 DEF MarkedUp

\* An arrival that joins the queue is a Join of AqmQueue, one that is dropped
\* is a Refuse, and the identities are kept.
LEMMA ArrivalRefines ==
  ASSUME BaseTypeOK, IdsInv, NEW item \in Item, Arrive(item), ArrivalEnds(item)
  PROVE  Abstract!Next /\ IdsInv'
<1>1. /\ held \in Seq(Item) /\ q \in Seq(Item) /\ sent \in Seq(Item)
      /\ dropped \in Seq(Item) /\ nReceived \in Nat
  BY DEF BaseTypeOK
<1>2. /\ held' = held /\ sent' = sent /\ nReceived' = nReceived + 1
      /\ item.id = nReceived + 1 /\ item.ecn \in Ecns
  BY DEF Arrive
<1>3. PICK s \in Seq(Item), p \in Item :
        /\ MarkedUp(q, s) /\ MarkedItem(item, p)
        /\ Joins(s, p) \/ Dropped(s, p)
  BY DEF ArrivalEnds
<1>4. held \o q \in Seq(Item) /\ held \o s \in Seq(Item)
  BY <1>1, ConcatProperties
<1>5. View(item) = [id |-> Abstract!Cardinality(Abstract!Offered) + 1, ecn |-> item.ecn]
  BY <1>2, OfferedCount DEF View
<1>6. IdsOf(s) = IdsOf(q) /\ p.id = item.id /\ IdsOf(held)' = IdsOf(held)
  BY <1>1, <1>2, <1>3, IdsMarkedUp DEF MarkedItem, IdsOf
<1>7. 1..(nReceived + 1) = (1..nReceived) \cup {nReceived + 1}
  BY <1>1
<1>8. CASE Joins(s, p)
  <2>1. q' = Append(s, p) /\ dropped' = dropped
    BY <1>8 DEF Joins
  <2>2. Abstract!Join([id |-> Abstract!Cardinality(Abstract!Offered) + 1, ecn |-> item.ecn])
    <3> DEFINE u == Append(held \o q, item)
               t == Append(held \o s, p)
    <3>1. u \in Seq(Item) /\ t \in Seq(Item) /\ MarkedUp(u, t)
      BY <1>1, <1>3, <1>4, MarkedUpConcat, MarkedUpAppend, AppendProperties
    <3>2. Len(u) = Len(Visible(held \o q)) + 1
      <4>1. Len(u) = Len(held \o q) + 1
        BY <1>4, AppendProperties
      <4>2. Len(Visible(held \o q)) = Len(held \o q)
        BY <1>4, VisibleSeq
      <4> QED
        BY <4>1, <4>2
    <3>3. Visible(u) = Append(Visible(held \o q), View(item))
      BY <1>4, VisibleAppend
    <3>4. held' \o q' = t
      BY <1>1, <1>2, <2>1
    <3> HIDE DEF u, t
    <3>5. \E S \in SUBSET (1..Len(u)) : Visible(t) = Abstract!Remarked(Visible(u), S)
      BY <3>1, MarkedUpRemarked
    <3>6. Visible(held \o q)' = Visible(t)
      BY <3>4 DEF Visible
    <3> QED
      BY <1>2, <1>5, <2>1, <3>2, <3>3, <3>5, <3>6 DEF Abstract!Join, Visible
  <2>3. IdsOf(q)' = IdsOf(q) \cup {nReceived + 1}
    <3>1. IdsOf(Append(s, p)) = IdsOf(s) \cup {p.id}
      BY IdsAppend
    <3> QED
      BY <1>2, <1>6, <2>1, <3>1 DEF IdsOf
  <2>4. IdsInv'
    BY <1>2, <1>6, <1>7, <2>1, <2>3 DEF IdsInv, AllIds, IdsOf
  <2> QED
    BY <1>2, <2>2, <2>4 DEF Abstract!Next
<1>9. CASE Dropped(s, p)
  <2>1. q' = s /\ dropped' = Append(dropped, p)
    BY <1>9 DEF Dropped
  <2>2. IdsOf(dropped)' = IdsOf(dropped) \cup {item.id}
    <3>1. IdsOf(Append(dropped, p)) = IdsOf(dropped) \cup {p.id}
      BY <1>1, IdsAppend
    <3> QED
      BY <1>6, <2>1, <3>1 DEF IdsOf
  <2>3. Abstract!Refuse([id |-> Abstract!Cardinality(Abstract!Offered) + 1, ecn |-> item.ecn])
    <3> DEFINE u == held \o q
               t == held \o s
    <3>1. u \in Seq(Item) /\ t \in Seq(Item) /\ MarkedUp(u, t)
      BY <1>1, <1>3, <1>4, MarkedUpConcat
    <3>2. DOMAIN Visible(u) = 1..Len(u)
      BY <3>1, VisibleSeq
    <3>3. held' \o q' = t
      BY <1>2, <2>1
    <3>4. \E S \in SUBSET (1..Len(u)) : Visible(t) = Abstract!Remarked(Visible(u), S)
      BY <3>1, MarkedUpRemarked
    <3>5. Visible(held \o q)' = Visible(t)
      BY <3>3 DEF Visible
    <3>6. Abstract!Mark
      BY <3>2, <3>4, <3>5 DEF Abstract!Mark
    <3>7. /\ Visible(sent)' = Visible(sent)
          /\ [id |-> Abstract!Cardinality(Abstract!Offered) + 1, ecn |-> item.ecn].id = item.id
      BY <1>2, OfferedCount DEF Visible
    <3> QED
      BY <2>2, <3>6, <3>7 DEF Abstract!Refuse, IdsOf
  <2>4. IdsInv'
    <3>1. IdsOf(q)' = IdsOf(q) /\ IdsOf(sent)' = IdsOf(sent)
      BY <1>2, <1>6, <2>1 DEF IdsOf
    <3> QED
      BY <1>2, <1>6, <1>7, <2>2, <3>1 DEF IdsInv, AllIds
  <2>5. \E e \in Ecns :
          Abstract!Refuse([id |-> Abstract!Cardinality(Abstract!Offered) + 1, ecn |-> e])
    BY <1>2, <2>3 DEF Abstract!Refuse
  <2> QED
    BY <1>2, <2>4, <2>5 DEF Abstract!Next
<1> QED
  BY <1>3, <1>8, <1>9

\* A Leave of AqmQueue, on the packets themselves: s is the queue, and t what
\* marks made of it before its head x left.
LEMMA LeaveRefines ==
  ASSUME NEW s \in Seq(Item), NEW t \in Seq(Item), s # <<>>, MarkedUp(s, t),
         NEW x \in Item, View(x) = View(Head(t)),
         sent \in Seq(Item), held \o q = s,
         (held \o q)' = Tail(t), sent' = Append(sent, x), dropped' = dropped
  PROVE  Abstract!Leave
<1> DEFINE v == Visible(s)
           w == Visible(t)
<1>1. t # <<>> /\ DOMAIN v = 1..Len(s) /\ v # <<>>
  <2>1. Len(t) = Len(s) /\ Len(s) # 0
    BY DEF MarkedUp
  <2> QED
    BY <2>1, VisibleSeq
<1>2. w \in Seq(Views) /\ Head(w) = View(Head(t)) /\ Tail(w) = Visible(Tail(t))
  BY <1>1, VisibleSeq, VisibleTail
<1>3. Visible(held \o q) = v /\ Visible(held \o q)' = Tail(w)
  <2>1. Visible(held \o q)' = Visible(Tail(t))
    BY DEF Visible
  <2> QED
    BY <1>2, <2>1
<1>4. Visible(sent)' = Append(Visible(sent), Head(w))
  <2>1. Visible(Append(sent, x)) = Append(Visible(sent), View(x))
    BY VisibleAppend
  <2>2. Visible(sent)' = Visible(Append(sent, x))
    BY DEF Visible
  <2> QED
    BY <1>2, <2>1, <2>2
<1>5. \E S \in SUBSET (1..Len(s)) : w = Abstract!Remarked(v, S)
  BY MarkedUpRemarked
<1> HIDE DEF v, w
<1>6. \E S \in SUBSET DOMAIN v :
        /\ Visible(held \o q)' = Tail(Abstract!Remarked(v, S))
        /\ Visible(sent)' = Append(Visible(sent), Head(Abstract!Remarked(v, S)))
  BY <1>1, <1>3, <1>4, <1>5
<1> QED
  BY <1>1, <1>3, <1>6 DEF Abstract!Leave

\* A packet marked where it is.
LEMMA MarkedUpSelf ==
  ASSUME NEW s \in Seq(Item)
  PROVE  MarkedUp(s, s)
BY DEF MarkedUp, MarkedItem

\* Queues of the same length whose packets look the same look the same.
LEMMA VisibleEqual ==
  ASSUME NEW s \in Seq(Item), NEW t \in Seq(Item), Len(s) = Len(t),
         \A i \in 1..Len(s) : View(s[i]) = View(t[i])
  PROVE  Visible(s) = Visible(t)
<1>1. /\ Visible(s) \in Seq(Views) /\ Len(Visible(s)) = Len(s)
      /\ \A i \in 1..Len(s) : Visible(s)[i] = View(s[i])
  BY VisibleSeq
<1>2. /\ Visible(t) \in Seq(Views) /\ Len(Visible(t)) = Len(s)
      /\ \A i \in 1..Len(s) : Visible(t)[i] = View(t[i])
  BY VisibleSeq
<1> QED
  BY <1>1, <1>2, SeqEqual

\* A packet that leaves the queue is sent, or held in front of what remains;
\* t is what marks made of the queue before.
LEMMA DepartureRefines ==
  ASSUME BaseTypeOK, IdsInv, held = <<>>, q # <<>>,
         NEW t \in Seq(Item), MarkedUp(q, t), q' = Tail(t), NEW left,
         Transmit([Head(t) EXCEPT !.header = TRUE], left),
         UNCHANGED <<nReceived, dropped>>
  PROVE  Abstract!Next /\ IdsInv'
<1> DEFINE x == [Head(t) EXCEPT !.header = TRUE]
<1>1. q \in Seq(Item) /\ sent \in Seq(Item)
  BY DEF BaseTypeOK
<1>2. t # <<>> /\ Head(t) \in Item /\ Tail(t) \in Seq(Item)
  <2>1. Len(t) = Len(q) /\ Len(q) # 0
    BY <1>1 DEF MarkedUp
  <2> QED
    BY <2>1
<1>3. x \in Item /\ View(x) = View(Head(t)) /\ x.id = Head(t).id
  BY <1>2, ItemUpdates DEF View, Item
<1> HIDE DEF x
<1>4. Transmit(x, left)
  BY DEF x
<1>5. held \o q = q
  BY <1>1, ConcatEmptySeq
<1>6. IdsOf(q) = {x.id} \cup IdsOf(Tail(t)) /\ IdsOf(held) = {}
  <2>1. IdsOf(t) = {Head(t).id} \cup IdsOf(Tail(t)) /\ IdsOf(t) = IdsOf(q)
    BY <1>1, <1>2, IdsTail, IdsMarkedUp
  <2>2. IdsOf(held) = {}
    BY DEF IdsOf
  <2> QED
    BY <1>3, <2>1, <2>2
<1>7. CASE held' = <<>> /\ sent' = Append(sent, x)
  <2>1. (held \o q)' = Tail(t)
    BY <1>2, <1>7, ConcatEmptySeq
  <2>2. Abstract!Leave
    BY <1>1, <1>3, <1>5, <1>7, <2>1, LeaveRefines
  <2>3. IdsOf(sent)' = IdsOf(sent) \cup {x.id}
    <3>1. IdsOf(Append(sent, x)) = IdsOf(sent) \cup {x.id}
      BY <1>1, IdsAppend
    <3> QED
      BY <1>7, <3>1 DEF IdsOf
  <2>4. IdsOf(q)' = IdsOf(Tail(t)) /\ IdsOf(held)' = {} /\ IdsOf(dropped)' = IdsOf(dropped)
    BY <1>7 DEF IdsOf
  <2>5. AllIds' = AllIds
    BY <1>6, <2>3, <2>4 DEF AllIds
  <2> QED
    BY <2>2, <2>5 DEF IdsInv, Abstract!Next
<1>8. CASE held' = <<x>> /\ sent' = sent
  <2>1. <<x>> \in Seq(Item) /\ Len(<<x>>) = 1 /\ <<x>>[1] = x
    BY <1>3
  <2>2. /\ <<x>> \o Tail(t) \in Seq(Item)
        /\ Len(<<x>> \o Tail(t)) = 1 + Len(Tail(t))
        /\ \A i \in 1..(1 + Len(Tail(t))) :
             (<<x>> \o Tail(t))[i] = IF i <= 1 THEN <<x>>[i] ELSE Tail(t)[i - 1]
    BY <1>2, <2>1, ConcatProperties
  <2>3. /\ Len(t) \in Nat /\ Len(Tail(t)) = Len(t) - 1 /\ Head(t) = t[1]
        /\ \A i \in 1..(Len(t) - 1) : Tail(t)[i] = t[i + 1]
    BY <1>2
  <2>4. ASSUME NEW i \in 1..Len(t)
        PROVE  View((<<x>> \o Tail(t))[i]) = View(t[i])
    <3>1. CASE i = 1
      <4>1. (<<x>> \o Tail(t))[i] = x /\ t[i] = Head(t)
        BY <2>1, <2>2, <2>3, <3>1
      <4> QED
        BY <1>3, <4>1
    <3>2. CASE i # 1
      <4>1. i - 1 \in 1..(Len(t) - 1) /\ ~(i <= 1)
        BY <2>3, <3>2
      <4>2. (<<x>> \o Tail(t))[i] = Tail(t)[i - 1] /\ Tail(t)[i - 1] = t[i]
        BY <2>2, <2>3, <4>1
      <4> QED
        BY <4>2
    <3> QED
      BY <3>1, <3>2
  <2>5. Len(<<x>> \o Tail(t)) = Len(t)
    BY <2>2, <2>3
  <2>6. Visible(<<x>> \o Tail(t)) = Visible(t)
    BY <2>2, <2>4, <2>5, VisibleEqual
  <2>7. Abstract!Mark
    <3>1. (held \o q)' = <<x>> \o Tail(t)
      BY <1>8
    <3>2. Visible(held \o q)' = Visible(<<x>> \o Tail(t))
      BY <3>1 DEF Visible
    <3>3. \E S \in SUBSET (1..Len(q)) : Visible(t) = Abstract!Remarked(Visible(q), S)
      BY <1>1, MarkedUpRemarked
    <3>4. DOMAIN Visible(q) = 1..Len(q)
      BY <1>1, VisibleSeq
    <3> QED
      BY <1>5, <2>6, <3>2, <3>3, <3>4 DEF Abstract!Mark
  <2>8. Abstract!Next
    <3>1. Visible(sent)' = Visible(sent)
      BY <1>8 DEF Visible
    <3> QED
      BY <2>7, <3>1 DEF Abstract!Next
  <2>9. AllIds' = AllIds
    <3>1. DOMAIN <<x>> = {1} /\ IdsOf(<<x>>) = {x.id}
      BY <2>1 DEF IdsOf
    <3>2. /\ IdsOf(held)' = IdsOf(<<x>>) /\ IdsOf(q)' = IdsOf(Tail(t))
          /\ IdsOf(sent)' = IdsOf(sent) /\ IdsOf(dropped)' = IdsOf(dropped)
      BY <1>8 DEF IdsOf
    <3> QED
      BY <1>6, <3>1, <3>2 DEF AllIds
  <2> QED
    BY <2>8, <2>9 DEF IdsInv
<1> QED
  BY <1>4, <1>7, <1>8 DEF Transmit

\* A packet that is dropped when its turn comes is a Discard of AqmQueue.
LEMMA DiscardRefines ==
  ASSUME BaseTypeOK, IdsInv, held = <<>>, held' = held, q # <<>>, q' = Tail(q),
         dropped' = Append(dropped, Head(q)), UNCHANGED <<nReceived, sent>>
  PROVE  Abstract!Next /\ IdsInv'
<1>1. q \in Seq(Item) /\ dropped \in Seq(Item) /\ Head(q) \in Item /\ Tail(q) \in Seq(Item)
  BY DEF BaseTypeOK
<1>2. held \o q = q /\ (held \o q)' = Tail(q)
  BY <1>1, ConcatEmptySeq
<1> DEFINE v == Visible(q)
<1>3. v \in Seq(Views) /\ v # <<>> /\ Head(v) = View(Head(q)) /\ Tail(v) = Visible(Tail(q))
  BY <1>1, VisibleSeq, VisibleTail
<1>4. Visible(held \o q) = v /\ Visible(held \o q)' = Tail(v)
  <2>1. Visible(held \o q)' = Visible(Tail(q))
    BY <1>2 DEF Visible
  <2> QED
    BY <1>2, <1>3, <2>1
<1>5. Head(v).id = Head(q).id
  BY <1>3 DEF View
<1> HIDE DEF v
<1>6. Abstract!Remarked(v, {}) = v
  <2>1. v = [i \in DOMAIN v |-> v[i]]
    BY <1>3
  <2> QED
    BY <2>1 DEF Abstract!Remarked
<1>7. IdsOf(dropped)' = IdsOf(dropped) \cup {Head(q).id}
  <2>1. IdsOf(Append(dropped, Head(q))) = IdsOf(dropped) \cup {Head(q).id}
    BY <1>1, IdsAppend
  <2> QED
    BY <2>1 DEF IdsOf
<1>8. Visible(sent)' = Visible(sent)
  BY DEF Visible
<1>9. \E S \in SUBSET DOMAIN v : Visible(held \o q)' = Tail(Abstract!Remarked(v, S))
  BY <1>4, <1>6
<1>10. Abstract!Discard
  BY <1>3, <1>4, <1>5, <1>7, <1>8, <1>9 DEF Abstract!Discard, IdsOf
<1>11. IdsInv'
  <2>1. IdsOf(q) = {Head(q).id} \cup IdsOf(Tail(q))
    BY <1>1, IdsTail
  <2>2. /\ IdsOf(q)' = IdsOf(Tail(q)) /\ IdsOf(held)' = IdsOf(held)
        /\ IdsOf(sent)' = IdsOf(sent)
    BY DEF IdsOf
  <2> QED
    BY <1>7, <2>1, <2>2 DEF IdsInv, AllIds
<1> QED
  BY <1>10, <1>11 DEF Abstract!Next

\* A step that moves no packet is not visible.
LEMMA StillRefines ==
  ASSUME IdsInv, UNCHANGED <<q, held, sent, dropped, nReceived>>
  PROVE  UNCHANGED Abstract!avars /\ IdsInv'
<1>1. UNCHANGED Abstract!avars
  BY DEF Abstract!avars, Visible
<1>2. IdsInv'
  BY DEF IdsInv, AllIds, IdsOf
<1> QED
  BY <1>1, <1>2

\* The packet held is the head of the queue of AqmQueue: it leaves.
LEMMA RestartHeldRefines ==
  ASSUME BaseTypeOK, IdsInv, RestartHeld
  PROVE  (Abstract!Leave \/ UNCHANGED Abstract!avars) /\ IdsInv'
<1>1. /\ held \in Seq(Item) /\ q \in Seq(Item) /\ sent \in Seq(Item)
      /\ held # <<>> /\ Len(held) <= 1 /\ stopped \in [TxQueues -> BOOLEAN]
  BY DEF BaseTypeOK, RestartHeld
<1>2. /\ ~stopped[held[1].txq] /\ q' = q /\ dropped' = dropped
      /\ nReceived' = nReceived /\ Transmit(held[1], nPackets')
  BY DEF RestartHeld, enqueueStats
<1>3. held' = <<>> /\ sent' = Append(sent, held[1])
  BY <1>2 DEF Transmit
<1>4. Head(held) = held[1] /\ Tail(held) \in Seq(Item) /\ held[1] \in Item
  BY <1>1
<1>5. held = <<held[1]>>
  BY <1>1, HeldOne
<1>6. Tail(held) = <<>>
  <2>1. Len(held) = 1
    BY <1>1, HeldOne
  <2>2. Len(Tail(held)) = 0
    BY <1>1, <2>1
  <2> QED
    BY <1>4, <2>2, EmptySeq
<1> DEFINE x == held[1]
<1>7. x \in Item /\ <<x>> \in Seq(Item)
  BY <1>4
<1>8. IdsOf(held) = {x.id} /\ IdsOf(sent)' = IdsOf(sent) \cup {x.id}
  <2>1. IdsOf(held) = {Head(held).id} \cup IdsOf(Tail(held))
    BY <1>1, IdsTail
  <2>2. IdsOf(<<>>) = {}
    BY DEF IdsOf
  <2>3. IdsOf(Append(sent, x)) = IdsOf(sent) \cup {x.id}
    BY <1>1, IdsAppend
  <2>4. IdsOf(sent)' = IdsOf(Append(sent, x))
    BY <1>3 DEF IdsOf
  <2> QED
    BY <1>4, <1>6, <2>1, <2>2, <2>3, <2>4
<1>9. IdsInv'
  <2>1. IdsOf(held)' = {}
    BY <1>3 DEF IdsOf
  <2>2. IdsOf(q)' = IdsOf(q) /\ IdsOf(dropped)' = IdsOf(dropped)
    BY <1>2 DEF IdsOf
  <2>3. AllIds' = AllIds
    BY <1>8, <2>1, <2>2 DEF AllIds
  <2> QED
    BY <1>2, <2>3 DEF IdsInv
<1>10. Abstract!Leave
  <2> DEFINE s == held \o q
  <2>1. s \in Seq(Item) /\ (held \o q)' = q
    BY <1>1, <1>2, <1>3, ConcatProperties, ConcatEmptySeq
  <2>2. /\ Len(s) = Len(<<x>>) + Len(q) /\ Len(<<x>>) = 1 /\ Len(q) \in Nat
        /\ \A i \in 1..(Len(<<x>>) + Len(q)) :
             s[i] = IF i <= Len(<<x>>) THEN <<x>>[i] ELSE q[i - Len(<<x>>)]
    BY <1>1, <1>5, <1>7, ConcatProperties
  <2> HIDE DEF s
  <2>3. s # <<>> /\ Head(s) = x
    BY <2>1, <2>2
  <2>4. Tail(s) = q
    <3>1. /\ Tail(s) \in Seq(Item) /\ Len(Tail(s)) = Len(s) - 1
          /\ \A i \in 1..Len(Tail(s)) : Tail(s)[i] = s[i + 1]
      BY <2>1, <2>3, HeadTailProperties
    <3>2. Len(Tail(s)) = Len(q)
      BY <2>2, <3>1
    <3>3. ASSUME NEW i \in 1..Len(q) PROVE Tail(s)[i] = q[i]
      <4>1. i + 1 \in 1..(1 + Len(q)) /\ ~(i + 1 <= 1) /\ i + 1 - 1 = i
        BY <2>2
      <4> QED
        BY <2>2, <3>1, <3>2, <4>1
    <3> QED
      BY <1>1, <3>1, <3>2, <3>3, SeqEqual
  <2> QED
    BY <1>1, <1>2, <1>3, <1>7, <2>1, <2>3, <2>4, MarkedUpSelf, LeaveRefines DEF s
<1> QED
  BY <1>9, <1>10

\* The other steps of the base class move no packet.
LEMMA BaseNextRefines ==
  ASSUME BaseTypeOK, IdsInv, BaseNext \/ UNCHANGED baseVars
  PROVE  (Abstract!Next \/ UNCHANGED Abstract!avars) /\ IdsInv'
<1>1. CASE RestartHeld
  BY <1>1, RestartHeldRefines DEF Abstract!Next
<1>2. RestartBlocked \/ RunEvent \/ UNCHANGED baseVars
        => UNCHANGED <<q, held, sent, dropped, nReceived>>
  BY DEF RestartBlocked, RunEvent, statVars, enqueueStats, baseVars
<1>3. (\E t \in TxQueues : DeviceStop(t) \/ DeviceWake(t))
        => UNCHANGED <<q, held, sent, dropped, nReceived>>
  BY DEF DeviceStop, DeviceWake, statVars, enqueueStats
<1> QED
  BY <1>1, <1>2, <1>3, StillRefines DEF BaseNext

\* Both queues are empty at first.
LEMMA InitialRefines == QueueDiscInit => Abstract!Init /\ IdsInv
<1> SUFFICES ASSUME QueueDiscInit PROVE Abstract!Init /\ IdsInv
  OBVIOUS
<1>1. q = <<>> /\ held = <<>> /\ sent = <<>> /\ dropped = <<>> /\ nReceived = 0
  BY DEF QueueDiscInit
<1>2. held \o q = <<>>
  BY <1>1
<1>3. Visible(<<>>) = <<>>
  BY DEF Visible
<1>4. Abstract!Init
  BY <1>1, <1>2, <1>3 DEF Abstract!Init
<1>5. 1..0 = {} /\ IdsOf(<<>>) = {}
  BY DEF IdsOf
<1>6. IdsInv
  BY <1>1, <1>5 DEF IdsInv, AllIds
<1> QED
  BY <1>4, <1>6
=============================================================================
