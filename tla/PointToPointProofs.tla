------------------------- MODULE PointToPointProofs -------------------------
(***************************************************************************)
(* Proofs about PointToPointNetDevice, for every value of its constants:   *)
(* the node is, for its queue disc, a device as QueueDisc leaves it open,  *)
(* so that what is proved of FIFO on any device holds on it; it requeues   *)
(* nothing, its transmitter never idles and its packets keep their order   *)
(* from the queue disc to the wire; and with room for one frame in the     *)
(* device queue a stopped queue always has what will wake it.              *)
(***************************************************************************)
EXTENDS PointToPointNetDevice, QueueDiscProofs, FunctionTheorems

-----------------------------------------------------------------------------
(* FIFO on any device. *)

\* Every step of a FIFO queue disc preserves the invariant of the base class.
LEMMA FifoStepInv ==
  ASSUME BaseInv, [FifoNext]_baseVars
  PROVE  BaseInv'
<1>1. ASSUME NEW item \in Item, Enqueue(item) PROVE BaseInv'
  <2>1. BaseTypeOK /\ q \in Seq(Item) /\ nMarked' \in Nat
    BY <1>1 DEF BaseInv, BaseTypeOK, Enqueue
  <2>2. Fate
    BY <1>1, <2>1, InternalEnqueueFate, RefuseFate DEF Enqueue
  <2> QED
    BY <1>1, <2>2, ArrivalInv DEF Enqueue
<1>2. CASE Dequeue
  <2>1. q \in Seq(Item) /\ q # <<>> /\ nMarked' \in Nat
    BY <1>2 DEF BaseInv, BaseTypeOK, Dequeue
  <2>2. Head(q) \in Item /\ Tail(q) \in Seq(Item) /\ Len(Tail(q)) = Len(q) - 1
    BY <2>1
  <2> QED
    BY <1>2, <2>1, <2>2, DepartureInv DEF Dequeue
<1>3. CASE DequeueEmpty
  BY <1>3, EmptyInv DEF DequeueEmpty
<1>4. CASE BaseNext
  BY <1>4, BaseNextInv
<1>5. CASE UNCHANGED baseVars
  BY <1>5, BaseStutter
<1> QED
  BY <1>1, <1>2, <1>3, <1>4, <1>5 DEF FifoNext

\* Every step of a FIFO queue disc is a step of AqmQueue, or is not visible.
LEMMA FifoStepRefines ==
  ASSUME BaseInv, IdsInv, [FifoNext]_baseVars
  PROVE  [Abstract!Next]_(Abstract!avars) /\ IdsInv'
<1>1. BaseTypeOK
  BY DEF BaseInv
<1>2. ASSUME NEW item \in Item, Enqueue(item)
      PROVE  Abstract!Next /\ IdsInv'
  <2>1. q \in Seq(Item) /\ MarkedUp(q, q) /\ MarkedItem(item, item)
    BY <1>1 DEF BaseTypeOK, MarkedUp, MarkedItem
  <2>2. Joins(q, item) \/ Dropped(q, item)
    BY <1>2 DEF Enqueue, InternalEnqueue, Refuse, DropBeforeEnqueue, Joins, Dropped
  <2>3. ArrivalEnds(item)
    BY <2>1, <2>2 DEF ArrivalEnds
  <2> QED
    BY <1>1, <1>2, <2>3, ArrivalRefines DEF Enqueue
<1>3. CASE Dequeue
  <2>1. /\ held = <<>> /\ q # <<>> /\ q' = Tail(q)
        /\ Transmit([Head(q) EXCEPT !.header = TRUE], nPackets')
        /\ UNCHANGED <<nReceived, dropped>>
    BY <1>3 DEF Dequeue, MayDequeue, RestartWith, enqueueStats
  <2>2. q \in Seq(Item) /\ MarkedUp(q, q)
    BY <1>1, MarkedUpSelf DEF BaseTypeOK
  <2> QED
    BY <1>1, <2>1, <2>2, DepartureRefines
<1>4. CASE DequeueEmpty
  BY <1>4, StillRefines DEF DequeueEmpty, RestartNothing, enqueueStats
<1>5. CASE BaseNext \/ UNCHANGED baseVars
  BY <1>1, <1>5, BaseNextRefines
<1> QED
  BY <1>2, <1>3, <1>4, <1>5 DEF FifoNext

-----------------------------------------------------------------------------
(* The flow control interface. *)

Limits ==
  [limit : Int, numQueued : Int, numCompleted : Int, lastObjCnt : Int,
   prevNumQueued : Int, prevLastObjCnt : Int, prevOvlimit : Int,
   lowestSlack : Int, adjLimit : Int]
Interface ==
  [byDevice : BOOLEAN, byLimits : BOOLEAN, wakes : Nat, dql : Limits]

\* A completion counts the bytes, and leaves room when none is in progress.
LEMMA CompletedLimits ==
  ASSUME NEW d \in Limits, NEW count \in Int, NEW holdOver \in BOOLEAN
  PROVE  LET e == Iface!Completed(d, count, holdOver)
         IN  /\ e \in Limits
             /\ e.numQueued = d.numQueued
             /\ e.numCompleted = d.numCompleted + count
             /\ e.numQueued = e.numCompleted => ~(Iface!Available(e) < 0)
<1> DEFINE e == Iface!Completed(d, count, holdOver)
           second == IF d.prevOvlimit > 0
                     THEN Iface!Posdiff(d.prevLastObjCnt, d.prevOvlimit) ELSE 0
           slack == Iface!Bigger(Iface!Posdiff(d.limit + d.prevOvlimit, 2 * count), second)
           lowest == Iface!Smaller(slack, d.lowestSlack)
           over == Iface!Posdiff(d.numQueued - d.numCompleted, d.limit)
           more == d.limit + Iface!Posdiff(d.numCompleted + count, d.prevNumQueued)
                     + d.prevOvlimit
<1>1. /\ d.limit \in Int /\ d.numQueued \in Int /\ d.numCompleted \in Int
      /\ d.lastObjCnt \in Int /\ d.prevNumQueued \in Int /\ d.prevLastObjCnt \in Int
      /\ d.prevOvlimit \in Int /\ d.lowestSlack \in Int
  BY DEF Limits
<1>2. \A a, b \in Int : Iface!Bigger(a, b) \in Int /\ Iface!Bigger(a, b) >= b
  BY DEF Iface!Bigger
<1>3. \A a, b \in Int : Iface!Smaller(a, b) \in {a, b}
  BY DEF Iface!Smaller
<1>4. \A a, b \in Int : Iface!Posdiff(a, b) \in Int
  BY <1>2 DEF Iface!Posdiff
<1>5. \A a \in Int : Iface!Clamp(a) \in Int /\ Iface!Clamp(a) >= 0
  BY DeviceAssumption DEF Iface!Clamp, Iface!Bigger, Iface!Smaller
<1>6. second \in Int
  <2>1. Iface!Posdiff(d.prevLastObjCnt, d.prevOvlimit) \in Int
    BY <1>1, <1>4, Zenon
  <2> QED
    BY <2>1
<1>7. over \in Int /\ more \in Int
  <2>1. d.numQueued - d.numCompleted \in Int /\ d.numCompleted + count \in Int
    BY <1>1
  <2>2. over \in Int /\ Iface!Posdiff(d.numCompleted + count, d.prevNumQueued) \in Int
    BY <1>1, <1>4, <2>1, Zenon
  <2> QED
    BY <1>1, <2>2
<1>8. slack \in Int
  <2>1. d.limit + d.prevOvlimit \in Int /\ 2 * count \in Int
    BY <1>1
  <2>2. Iface!Posdiff(d.limit + d.prevOvlimit, 2 * count) \in Int
    BY <1>4, <2>1, Zenon
  <2> QED
    BY <1>2, <1>6, <2>2, Zenon
<1>9. lowest \in Int
  <2>1. lowest \in {slack, d.lowestSlack}
    BY <1>1, <1>3, <1>8, Zenon
  <2> QED
    BY <1>1, <1>8, <2>1, Zenon
<1>10. Iface!Posdiff(d.limit, lowest) \in Int /\ Unset \in Int
  <2>1. Iface!Posdiff(d.limit, lowest) \in Int
    BY <1>1, <1>4, <1>9, Zenon
  <2> QED
    BY <2>1, DeviceAssumption
<1> HIDE DEF second
<1>11. \E limit, slackSeen, overSeen \in Int :
         /\ limit >= 0
         /\ e = [limit |-> limit, numQueued |-> d.numQueued,
                 numCompleted |-> d.numCompleted + count,
                 lastObjCnt |-> d.lastObjCnt, prevNumQueued |-> d.numQueued,
                 prevLastObjCnt |-> d.lastObjCnt, prevOvlimit |-> overSeen,
                 lowestSlack |-> slackSeen, adjLimit |-> limit + (d.numCompleted + count)]
  <2>1. e.limit \in {Iface!Clamp(more), Iface!Clamp(Iface!Posdiff(d.limit, lowest)),
                     Iface!Clamp(d.limit)}
    BY Zenon DEF Iface!Completed, second
  <2>2. e.lowestSlack \in {Unset, lowest, d.lowestSlack}
    BY Zenon DEF Iface!Completed, second
  <2>3. e.prevOvlimit \in {0, over}
    BY Zenon DEF Iface!Completed
  <2>4. e = [limit |-> e.limit, numQueued |-> d.numQueued,
             numCompleted |-> d.numCompleted + count,
             lastObjCnt |-> d.lastObjCnt, prevNumQueued |-> d.numQueued,
             prevLastObjCnt |-> d.lastObjCnt, prevOvlimit |-> e.prevOvlimit,
             lowestSlack |-> e.lowestSlack, adjLimit |-> e.limit + (d.numCompleted + count)]
    BY Zenon DEF Iface!Completed
  <2>5. e.limit \in Int /\ e.limit >= 0
    BY <1>1, <1>5, <1>7, <1>10, <2>1, Zenon
  <2>6. e.lowestSlack \in Int /\ e.prevOvlimit \in Int
    BY <1>1, <1>7, <1>9, <1>10, <2>2, <2>3
  <2> QED
    BY <2>4, <2>5, <2>6
<1> QED
  BY <1>1, <1>11 DEF Limits, Iface!Available

\* An interface is its four fields.
LEMMA FieldsOfInterface ==
  ASSUME NEW device \in BOOLEAN, NEW limits \in BOOLEAN, NEW wakes \in Nat, NEW d \in Limits
  PROVE  [byDevice |-> device, byLimits |-> limits, wakes |-> wakes, dql |-> d] \in Interface
BY DEF Interface

LEMMA QueuedLimits ==
  ASSUME NEW d \in Limits, NEW count \in Int
  PROVE  /\ Iface!Queued(d, count) \in Limits
         /\ Iface!Queued(d, count).numQueued = d.numQueued + count
         /\ Iface!Queued(d, count).numCompleted = d.numCompleted
<1>1. d.numQueued + count \in Int
  BY DEF Limits
<1>2. ASSUME NEW n \in Int
      PROVE  LET e == [d EXCEPT !.lastObjCnt = count, !.numQueued = n]
             IN  e \in Limits /\ e.numQueued = n /\ e.numCompleted = d.numCompleted
  BY DEF Limits
<1> QED
  BY <1>1, <1>2, Zenon DEF Iface!Queued

\* What the callbacks of the device queue do to the interface.
EnqueueEffect(f, g, bytes) ==
  /\ g \in Interface /\ g.wakes = f.wakes
  /\ HasLimits => /\ g.dql.numQueued = f.dql.numQueued + bytes
                  /\ g.dql.numCompleted = f.dql.numCompleted
  /\ ~HasLimits => g.byLimits = f.byLimits

LEMMA EnqueuedInterface ==
  ASSUME NEW f \in Interface, NEW bytes \in Int, NEW room \in BOOLEAN
  PROVE  EnqueueEffect(f, Iface!PacketEnqueued(f, bytes, room), bytes)
<1> DEFINE g == Iface!NotifyQueuedBytes(f, bytes)
<1>1. /\ g \in Interface /\ g.wakes = f.wakes
      /\ HasLimits => /\ g.dql.numQueued = f.dql.numQueued + bytes
                      /\ g.dql.numCompleted = f.dql.numCompleted
      /\ ~HasLimits => g.byLimits = f.byLimits
  <2>1. CASE HasLimits
    <3>1. /\ Iface!Queued(f.dql, bytes) \in Limits
          /\ Iface!Queued(f.dql, bytes).numQueued = f.dql.numQueued + bytes
          /\ Iface!Queued(f.dql, bytes).numCompleted = f.dql.numCompleted
      BY QueuedLimits DEF Interface
    <3>2. g = [f EXCEPT !.dql = Iface!Queued(f.dql, bytes),
                        !.byLimits = @ \/ Iface!Available(Iface!Queued(f.dql, bytes)) < 0]
      BY <2>1, Zenon DEF Iface!NotifyQueuedBytes
    <3>3. (f.byLimits \/ Iface!Available(Iface!Queued(f.dql, bytes)) < 0) \in BOOLEAN
      BY Zenon
    <3> HIDE DEF g
    <3> QED
      BY <2>1, <3>1, <3>2, <3>3 DEF Interface
  <2>2. CASE ~HasLimits
    BY <2>2 DEF Iface!NotifyQueuedBytes
  <2> QED
    BY <2>1, <2>2
<1>2. Iface!PacketEnqueued(f, bytes, room) = IF room THEN g ELSE [g EXCEPT !.byDevice = TRUE]
  BY Zenon DEF Iface!PacketEnqueued, Iface!Stop
<1> HIDE DEF g
<1> QED
  BY <1>1, <1>2 DEF Interface, EnqueueEffect

LEMMA TransmittedInterface ==
  ASSUME NEW f \in Interface, NEW bytes \in Int, NEW holdOver \in BOOLEAN
  PROVE  LET g == Iface!NotifyTransmittedBytes(f, bytes, holdOver)
         IN  /\ g \in Interface /\ g.byDevice = f.byDevice
             /\ \/ g.wakes = f.wakes /\ g.byLimits = f.byLimits
                \/ g.wakes = f.wakes + 1 /\ f.byLimits
             /\ HasLimits =>
                  /\ g.dql.numQueued = f.dql.numQueued
                  /\ g.dql.numCompleted = f.dql.numCompleted + bytes
                  /\ g.dql.numQueued = g.dql.numCompleted => ~g.byLimits
             /\ ~HasLimits => g.byLimits = f.byLimits
<1> DEFINE d == Iface!Completed(f.dql, bytes, holdOver)
           g == Iface!NotifyTransmittedBytes(f, bytes, holdOver)
<1>1. /\ d \in Limits /\ d.numQueued = f.dql.numQueued
      /\ d.numCompleted = f.dql.numCompleted + bytes
      /\ d.numQueued = d.numCompleted => ~(Iface!Available(d) < 0)
  BY CompletedLimits DEF Interface
<1>2. CASE ~HasLimits
  BY <1>2 DEF Iface!NotifyTransmittedBytes
<1>3. CASE HasLimits /\ Iface!Available(d) < 0
  <2>1. g = [f EXCEPT !.dql = d]
    BY <1>3, Zenon DEF Iface!NotifyTransmittedBytes
  <2> HIDE DEF g, d
  <2>2. g \in Interface /\ g.dql = d
    BY <1>1, <2>1 DEF Interface
  <2>3. g.byDevice = f.byDevice
    BY <2>1 DEF Interface
  <2>4. g.byLimits = f.byLimits
    BY <2>1 DEF Interface
  <2>5. g.wakes = f.wakes
    BY <2>1 DEF Interface
  <2> QED
    BY <1>1, <1>3, <2>2, <2>3, <2>4, <2>5, Zenon DEF g
<1>4. CASE HasLimits /\ ~(Iface!Available(d) < 0)
  <2>1. g = [f EXCEPT !.dql = d, !.byLimits = FALSE,
                      !.wakes = IF f.byLimits THEN @ + 1 ELSE @]
    BY <1>4, Zenon DEF Iface!NotifyTransmittedBytes
  <2> HIDE DEF g, d
  <2>2. g \in Interface /\ g.dql = d
    <3>1. g = [byDevice |-> f.byDevice, byLimits |-> FALSE,
               wakes |-> IF f.byLimits THEN f.wakes + 1 ELSE f.wakes, dql |-> d]
      BY <2>1 DEF Interface
    <3>2. f.byDevice \in BOOLEAN /\ (IF f.byLimits THEN f.wakes + 1 ELSE f.wakes) \in Nat
      BY DEF Interface
    <3>3. FALSE \in BOOLEAN
      BY Zenon
    <3>4. g \in Interface
      BY <1>1, <3>1, <3>2, <3>3, FieldsOfInterface, Zenon
    <3> QED
      BY <3>1, <3>4
  <2>3. g.byDevice = f.byDevice
    BY <2>1 DEF Interface
  <2>4. g.byLimits = FALSE
    BY <2>1 DEF Interface
  <2>5. g.wakes = IF f.byLimits THEN f.wakes + 1 ELSE f.wakes
    BY <2>1 DEF Interface
  <2>6. f.byLimits \in BOOLEAN
    BY DEF Interface
  <2> QED
    BY <1>1, <1>4, <2>2, <2>3, <2>4, <2>5, <2>6, Zenon DEF g
<1> QED
  BY <1>2, <1>3, <1>4

\* What the callback of a departure makes of the interface.
DequeueEffect(f, g, bytes, room) ==
  /\ g \in Interface /\ g.wakes \in {f.wakes, f.wakes + 1, f.wakes + 2}
  /\ g.wakes = f.wakes => g.byDevice = f.byDevice /\ g.byLimits = f.byLimits
  /\ g.wakes # f.wakes => f.byDevice \/ f.byLimits
  /\ room => ~g.byDevice
  /\ HasLimits =>
       /\ g.dql.numQueued = f.dql.numQueued
       /\ g.dql.numCompleted = f.dql.numCompleted + bytes
       /\ g.dql.numQueued = g.dql.numCompleted => ~g.byLimits
  /\ ~HasLimits => g.byLimits = f.byLimits

\* A packet that leaves the device queue wakes the queue disc only if it was
\* stopped, and once for each cause of the stop.
LEMMA DequeuedInterface ==
  ASSUME NEW f \in Interface, NEW bytes \in Int, NEW room \in BOOLEAN,
         NEW holdOver \in BOOLEAN
  PROVE  DequeueEffect(f, Iface!PacketDequeued(f, bytes, room, holdOver), bytes, room)
<1> DEFINE g == Iface!NotifyTransmittedBytes(f, bytes, holdOver)
           h == Iface!PacketDequeued(f, bytes, room, holdOver)
<1>1. /\ g \in Interface /\ g.byDevice = f.byDevice
      /\ \/ g.wakes = f.wakes /\ g.byLimits = f.byLimits
         \/ g.wakes = f.wakes + 1 /\ f.byLimits
      /\ HasLimits =>
           /\ g.dql.numQueued = f.dql.numQueued
           /\ g.dql.numCompleted = f.dql.numCompleted + bytes
           /\ g.dql.numQueued = g.dql.numCompleted => ~g.byLimits
      /\ ~HasLimits => g.byLimits = f.byLimits
  BY TransmittedInterface
<1>2. f.wakes \in Nat /\ g.wakes \in Nat
  BY <1>1 DEF Interface
<1>3. CASE ~room
  <2>1. h = g
    BY <1>3, Zenon DEF Iface!PacketDequeued
  <2>2. f.wakes + 1 # f.wakes
    BY <1>2
  <2> HIDE DEF g, h
  <2> QED
    BY <1>1, <1>3, <2>1, <2>2, Zenon DEF g, h, DequeueEffect
<1>4. CASE room
  <2>1. h = [g EXCEPT !.byDevice = FALSE,
                      !.wakes = IF g.byDevice THEN @ + 1 ELSE @]
    BY <1>4, Zenon DEF Iface!PacketDequeued, Iface!Wake
  <2> HIDE DEF g, h
  <2>2. h \in Interface /\ h.dql = g.dql
    <3>1. h = [byDevice |-> FALSE, byLimits |-> g.byLimits,
               wakes |-> IF g.byDevice THEN g.wakes + 1 ELSE g.wakes, dql |-> g.dql]
      BY <1>1, <2>1 DEF Interface
    <3>2. /\ g.byLimits \in BOOLEAN /\ g.dql \in Limits
          /\ (IF g.byDevice THEN g.wakes + 1 ELSE g.wakes) \in Nat
      BY <1>1 DEF Interface
    <3>3. FALSE \in BOOLEAN
      BY Zenon
    <3>4. h \in Interface
      BY <3>1, <3>2, <3>3, FieldsOfInterface, Zenon
    <3> QED
      BY <3>1, <3>4
  <2>3. h.byDevice = FALSE
    BY <1>1, <2>1 DEF Interface
  <2>4. h.byLimits = g.byLimits
    BY <1>1, <2>1 DEF Interface
  <2>5. h.wakes = IF g.byDevice THEN g.wakes + 1 ELSE g.wakes
    BY <1>1, <2>1 DEF Interface
  <2>6. f.byDevice \in BOOLEAN /\ f.byLimits \in BOOLEAN
    BY DEF Interface
  <2>7. g.wakes \in {f.wakes, f.wakes + 1} /\ h.wakes \in {g.wakes, g.wakes + 1}
    BY <1>1, <2>5, Zenon
  <2>8. h.wakes \in {f.wakes, f.wakes + 1, f.wakes + 2}
    BY <1>2, <2>7
  <2>9. h.wakes = f.wakes => g.wakes = f.wakes /\ h.wakes = g.wakes
    BY <1>2, <2>7
  <2>10. h.wakes = g.wakes => ~g.byDevice
    <3>1. g.wakes + 1 # g.wakes
      BY <1>2
    <3> QED
      BY <2>5, <3>1, Zenon
  <2>11. h.wakes = f.wakes => h.byDevice = f.byDevice /\ h.byLimits = f.byLimits
    <3>1. f.wakes + 1 # f.wakes
      BY <1>2
    <3> QED
      BY <1>1, <2>3, <2>4, <2>6, <2>9, <2>10, <3>1, Zenon
  <2>12. h.wakes # f.wakes => f.byDevice \/ f.byLimits
    BY <1>1, <2>5, Zenon
  <2> QED
    BY <1>1, <1>4, <2>2, <2>3, <2>4, <2>8, <2>11, <2>12, Zenon DEF h, DequeueEffect
<1> QED
  BY <1>3, <1>4

-----------------------------------------------------------------------------
(* Bytes in the device queue. *)

Units(s) == {u \in (1..Len(s)) \X (1..LargestSize) : u[2] <= s[u[1]].size}

LEMMA UnitsFinite ==
  ASSUME NEW s \in Seq(Item)
  PROVE  IsFiniteSet(Units(s)) /\ Bytes(s) = Cardinality(Units(s)) /\ Bytes(s) \in Nat
<1>1. Len(s) \in Nat
  OBVIOUS
<1>2. IsFiniteSet(1..Len(s)) /\ IsFiniteSet(1..LargestSize)
  BY <1>1, FS_Interval, BaseAssumption
<1>3. IsFiniteSet((1..Len(s)) \X (1..LargestSize))
  BY <1>2, FS_Product
<1>4. IsFiniteSet(Units(s))
  BY <1>3, FS_Subset DEF Units
<1> QED
  BY <1>4, FS_CardinalityType DEF Bytes, Units

\* The units of one packet.
LEMMA UnitsOfOne ==
  ASSUME NEW n, NEW item \in Item
  PROVE  /\ IsFiniteSet({n} \X (1..item.size))
         /\ Cardinality({n} \X (1..item.size)) = item.size
         /\ item.size \in Nat \ {0} /\ item.size <= LargestSize
<1>1. item.size \in Nat \ {0} /\ item.size <= LargestSize
  BY BaseAssumption DEF Item
<1>2. IsFiniteSet({n}) /\ Cardinality({n}) = 1
  BY FS_Singleton
<1>3. IsFiniteSet(1..item.size) /\ Cardinality(1..item.size) = item.size
  BY <1>1, FS_Interval
<1>4. /\ IsFiniteSet({n} \X (1..item.size))
      /\ Cardinality({n} \X (1..item.size)) = Cardinality({n}) * Cardinality(1..item.size)
  BY <1>2, <1>3, FS_Product
<1>5. Cardinality({n} \X (1..item.size)) = 1 * item.size
  BY <1>2, <1>3, <1>4, Zenon
<1> QED
  BY <1>1, <1>4, <1>5

LEMMA BytesEmpty == Bytes(<<>>) = 0
<1>1. Units(<<>>) = {}
  BY DEF Units
<1> QED
  BY <1>1, FS_EmptySet DEF Bytes, Units

LEMMA BytesAppend ==
  ASSUME NEW s \in Seq(Item), NEW item \in Item
  PROVE  Bytes(Append(s, item)) = Bytes(s) + item.size
<1> DEFINE new == {Len(s) + 1} \X (1..item.size)
<1>1. item.size \in Nat \ {0} /\ item.size <= LargestSize /\ LargestSize \in Nat
  BY UnitsOfOne, BaseAssumption
<1>2. Append(s, item) \in Seq(Item) /\ Len(Append(s, item)) = Len(s) + 1 /\ Len(s) \in Nat
  OBVIOUS
<1>3. /\ \A i \in 1..Len(s) : Append(s, item)[i] = s[i]
      /\ Append(s, item)[Len(s) + 1] = item
  OBVIOUS
<1>4. Units(Append(s, item)) = Units(s) \union new
  <2>1. ASSUME NEW u \in Units(Append(s, item)) PROVE u \in Units(s) \union new
    <3>1. /\ u \in (1..Len(s) + 1) \X (1..LargestSize)
          /\ u[2] <= Append(s, item)[u[1]].size
      BY <1>2 DEF Units
    <3>2. CASE u[1] = Len(s) + 1
      BY <1>1, <1>3, <3>1, <3>2
    <3>3. CASE u[1] # Len(s) + 1
      BY <1>2, <1>3, <3>1, <3>3 DEF Units
    <3> QED
      BY <3>2, <3>3
  <2>2. ASSUME NEW u \in Units(s) PROVE u \in Units(Append(s, item))
    BY <1>2, <1>3 DEF Units
  <2>3. ASSUME NEW u \in new PROVE u \in Units(Append(s, item))
    BY <1>1, <1>2, <1>3 DEF Units
  <2> QED
    BY <2>1, <2>2, <2>3
<1>5. Units(s) \intersect new = {}
  BY <1>2 DEF Units
<1>6. /\ IsFiniteSet(Units(s)) /\ IsFiniteSet(new)
      /\ Cardinality(Units(s)) = Bytes(s) /\ Cardinality(new) = item.size /\ Bytes(s) \in Nat
  BY UnitsFinite, UnitsOfOne
<1> HIDE DEF new
<1>7. Cardinality(Units(s) \union new) = Bytes(s) + item.size
  <2>1. Cardinality(Units(s) \union new) =
          Cardinality(Units(s)) + Cardinality(new) - Cardinality(Units(s) \intersect new)
    BY <1>6, FS_Union
  <2>2. Cardinality(Units(s) \intersect new) = 0
    BY <1>5, FS_EmptySet
  <2> QED
    BY <1>1, <1>6, <2>1, <2>2
<1> QED
  BY <1>2, <1>4, <1>7, UnitsFinite

\* The units of all packets but the first are those of the tail, one further.
LEMMA BytesTail ==
  ASSUME NEW s \in Seq(Item), s # <<>>
  PROVE  Bytes(s) = Head(s).size + Bytes(Tail(s))
<1> DEFINE first == {1} \X (1..Head(s).size)
           others == {u \in Units(s) : u[1] # 1}
           shift == [u \in Units(Tail(s)) |-> <<u[1] + 1, u[2]>>]
<1>1. /\ Head(s) \in Item /\ Tail(s) \in Seq(Item) /\ Len(s) \in Nat \ {0}
      /\ Len(Tail(s)) = Len(s) - 1 /\ s[1] = Head(s)
      /\ \A i \in 1..Len(s) - 1 : Tail(s)[i] = s[i + 1]
  OBVIOUS
<1>2. Head(s).size \in Nat \ {0} /\ Head(s).size <= LargestSize /\ LargestSize \in Nat
  BY <1>1, UnitsOfOne, BaseAssumption
<1>3. Units(s) = first \union others
  <2>1. ASSUME NEW u \in Units(s), u[1] = 1 PROVE u \in first
    BY <1>1, <1>2, <2>1 DEF Units
  <2>2. ASSUME NEW u \in first PROVE u \in Units(s)
    BY <1>1, <1>2 DEF Units
  <2> QED
    BY <2>1, <2>2
<1>4. first \intersect others = {}
  OBVIOUS
<1>5. shift \in Bijection(Units(Tail(s)), others)
  <2>1. ASSUME NEW u \in Units(Tail(s)) PROVE <<u[1] + 1, u[2]>> \in others
    BY <1>1 DEF Units
  <2>2. ASSUME NEW u \in Units(Tail(s)), NEW v \in Units(Tail(s)),
               <<u[1] + 1, u[2]>> = <<v[1] + 1, v[2]>>
        PROVE  u = v
    BY <1>1, <2>2 DEF Units
  <2>3. ASSUME NEW v \in others
        PROVE  \E u \in Units(Tail(s)) : <<u[1] + 1, u[2]>> = v
    <3>1. /\ v \in (1..Len(s)) \X (1..LargestSize) /\ v[1] # 1
          /\ v[2] <= s[v[1]].size
      BY DEF Units
    <3>2. <<v[1] - 1, v[2]>> \in Units(Tail(s))
      BY <1>1, <3>1 DEF Units
    <3>3. <<(v[1] - 1) + 1, v[2]>> = v
      BY <1>1, <3>1
    <3> QED
      BY <3>2, <3>3
  <2>4. shift \in [Units(Tail(s)) -> others]
    BY <2>1
  <2>5. \A u, v \in Units(Tail(s)) : shift[u] = shift[v] => u = v
    BY <2>2
  <2>6. \A v \in others : \E u \in Units(Tail(s)) : shift[u] = v
    BY <2>3
  <2> HIDE DEF shift, others
  <2> QED
    BY <2>4, <2>5, <2>6, Fun_IsBij
<1>6. /\ IsFiniteSet(Units(Tail(s))) /\ Cardinality(Units(Tail(s))) = Bytes(Tail(s))
      /\ Bytes(Tail(s)) \in Nat
  BY <1>1, UnitsFinite
<1>7. IsFiniteSet(others) /\ Cardinality(others) = Bytes(Tail(s))
  BY <1>5, <1>6, FS_Bijection DEF ExistsBijection
<1>8. IsFiniteSet(first) /\ Cardinality(first) = Head(s).size
  BY <1>1, UnitsOfOne
<1> HIDE DEF first, others
<1>9. Cardinality(first \union others) = Head(s).size + Bytes(Tail(s))
  <2>1. Cardinality(first \union others) =
          Cardinality(first) + Cardinality(others) - Cardinality(first \intersect others)
    BY <1>7, <1>8, FS_Union
  <2>2. Cardinality(first \intersect others) = 0
    BY <1>4, FS_EmptySet
  <2> QED
    BY <1>2, <1>6, <1>7, <1>8, <2>1, <2>2
<1> QED
  BY <1>3, <1>9, UnitsFinite
-----------------------------------------------------------------------------
(* The device. *)

\* The device has one transmission queue.
LEMMA OneQueue == \E t : TxQueues = {t}
<1>1. Cardinality(TxQueues) = 1 /\ IsFiniteSet(TxQueues)
  BY DeviceAssumption, BaseAssumption
<1> QED
  BY <1>1, FS_Singleton

\* The byte limits count what is in the device queue, and stop nothing when
\* they are not configured.
Agree(f, s) ==
  /\ HasLimits => f.dql.numQueued - f.dql.numCompleted = QueuedBytes(s)
  /\ ~HasLimits => ~f.byLimits

\* What holds of the device: the queue disc sees the interface as it is.
NodeInv ==
  /\ txQueue \in Seq(Item)
  /\ iface \in Interface /\ iface.wakes = 0
  /\ stopped = [t \in TxQueues |-> Iface!IsStopped(iface)]
  /\ WorkConserving
  /\ Agree(iface, txQueue)

\* There is room for a frame of the size of the MTU in the empty device queue.
RoomForOne == DevCapacity >= (IF DevByteMode THEN Mtu + PppHeader ELSE 1)

LEMMA BytesOfQueue ==
  ASSUME NEW s \in Seq(Item)
  PROVE  /\ QueuedBytes(s) \in Int /\ QueuedBytes(<<>>) = 0
         /\ \A item \in Item :
              QueuedBytes(Append(s, item)) = QueuedBytes(s) + FrameBytes(item)
         /\ s # <<>> =>
              QueuedBytes(s) = FrameBytes(Head(s)) + QueuedBytes(Tail(s))
<1>1. PppHeader \in Nat
  BY DeviceAssumption
<1>2. Bytes(s) \in Nat /\ Len(s) \in Nat
  BY UnitsFinite
<1>3. QueuedBytes(s) \in Int
  BY <1>1, <1>2 DEF QueuedBytes
<1>4. QueuedBytes(<<>>) = 0
  <2>1. Len(<<>>) = 0
    OBVIOUS
  <2> QED
    BY <1>1, <2>1, BytesEmpty DEF QueuedBytes
<1>5. ASSUME NEW item \in Item
      PROVE  QueuedBytes(Append(s, item)) = QueuedBytes(s) + FrameBytes(item)
  <2>1. Bytes(Append(s, item)) = Bytes(s) + item.size /\ item.size \in Nat
    BY BytesAppend, UnitsOfOne
  <2>2. Len(Append(s, item)) = Len(s) + 1
    OBVIOUS
  <2>3. Len(Append(s, item)) * PppHeader = Len(s) * PppHeader + PppHeader
    BY <1>1, <1>2, <2>2
  <2>4. Len(s) * PppHeader \in Nat
    BY <1>1, <1>2
  <2> QED
    BY <1>1, <1>2, <2>1, <2>3, <2>4 DEF QueuedBytes, FrameBytes
<1>6. ASSUME s # <<>>
      PROVE  QueuedBytes(s) = FrameBytes(Head(s)) + QueuedBytes(Tail(s))
  <2>1. Head(s) \in Item /\ Tail(s) \in Seq(Item) /\ Len(Tail(s)) = Len(s) - 1
    BY <1>6
  <2>2. /\ Bytes(s) = Head(s).size + Bytes(Tail(s)) /\ Head(s).size \in Nat
        /\ Bytes(Tail(s)) \in Nat /\ Len(Tail(s)) \in Nat
    <3>1. Bytes(s) = Head(s).size + Bytes(Tail(s))
      BY <1>6, BytesTail
    <3>2. Head(s).size \in Nat
      BY <2>1, UnitsOfOne
    <3>3. Bytes(Tail(s)) \in Nat
      BY <2>1, UnitsFinite
    <3>4. Len(Tail(s)) \in Nat
      BY <2>1
    <3> QED
      BY <3>1, <3>2, <3>3, <3>4
  <2>3. Len(s) = Len(Tail(s)) + 1
    BY <1>2, <2>1
  <2>4. Len(s) * PppHeader = Len(Tail(s)) * PppHeader + PppHeader
    BY <1>1, <2>2, <2>3
  <2>5. Len(Tail(s)) * PppHeader \in Nat
    BY <1>1, <2>2
  <2> QED
    BY <1>1, <2>2, <2>4, <2>5 DEF QueuedBytes, FrameBytes
<1> QED
  BY <1>3, <1>4, <1>5, <1>6

\* The interface becomes what the callback made of it, its wakes apart.
LEMMA UpdateStep ==
  ASSUME NEW f \in Interface, Update(f)
  PROVE  /\ iface' \in Interface /\ iface'.wakes = 0 /\ iface'.dql = f.dql
         /\ iface'.byDevice = f.byDevice /\ iface'.byLimits = f.byLimits
         /\ stopped' = [t \in TxQueues |-> Iface!IsStopped(iface')]
         /\ runEvents' = runEvents + f.wakes
<1>1. iface' = [f EXCEPT !.wakes = 0]
  BY DEF Update
<1>2. iface' \in Interface /\ iface'.wakes = 0 /\ iface'.dql = f.dql
  BY <1>1 DEF Interface
<1>3. iface'.byDevice = f.byDevice
  BY <1>1 DEF Interface
<1>4. iface'.byLimits = f.byLimits
  BY <1>1 DEF Interface
<1>5. Iface!IsStopped(iface') = Iface!IsStopped(f)
  BY <1>3, <1>4, Zenon DEF Iface!IsStopped
<1>6. stopped' = [t \in TxQueues |-> Iface!IsStopped(f)] /\ runEvents' = runEvents + f.wakes
  BY Zenon DEF Update, Scheduled
<1> QED
  BY <1>2, <1>3, <1>4, <1>5, <1>6, Zenon

\* The empty device queue has room for one more packet.
LEMMA EmptyHasRoom ==
  ASSUME RoomForOne
  PROVE  /\ HasRoom(<<>>)
         /\ \A item \in Item : DevFits(<<>>, item)
<1>1. DevSize(<<>>) = 0
  <2>1. <<>> \in Seq(Item) /\ Len(<<>>) = 0
    OBVIOUS
  <2>2. QueuedBytes(<<>>) = 0
    BY <2>1, BytesOfQueue
  <2> QED
    BY <2>1, <2>2 DEF DevSize
<1>2. DevCapacity \in Nat /\ Mtu \in Nat /\ PppHeader \in Nat /\ LargestSize <= Mtu
  BY DeviceAssumption
<1>3. HasRoom(<<>>)
  BY <1>1, <1>2 DEF HasRoom, RoomForOne
<1>4. ASSUME NEW item \in Item PROVE DevFits(<<>>, item)
  <2>1. item.size \in Nat /\ item.size <= LargestSize /\ LargestSize \in Nat
    BY UnitsOfOne, BaseAssumption
  <2> QED
    BY <1>1, <1>2, <2>1 DEF DevFits, FrameBytes, RoomForOne
<1> QED
  BY <1>3, <1>4

\* The head of a queue is transmitted: the device is busy, what is left in its
\* queue is what the limits count, and if nothing is left nothing is stopped.
LEMMA StartStep ==
  ASSUME NEW f \in Interface, NEW s \in Seq(Item), s # <<>>, Agree(f, s), Start(f, s),
         runEvents \in Nat
  PROVE  /\ txQueue' \in Seq(Item) /\ current' # <<>>
         /\ iface' \in Interface /\ iface'.wakes = 0
         /\ stopped' = [t \in TxQueues |-> Iface!IsStopped(iface')]
         /\ Agree(iface', txQueue')
         /\ RoomForOne => (Iface!IsStopped(iface') => txQueue' # <<>>)
         /\ runEvents' \in {runEvents + f.wakes, runEvents + f.wakes + 1,
                            runEvents + f.wakes + 2}
         /\ runEvents' = runEvents + f.wakes =>
              Iface!IsStopped(iface') = Iface!IsStopped(f)
         /\ runEvents' # runEvents + f.wakes => Iface!IsStopped(f)
<1> DEFINE bytes == FrameBytes(Head(s))
           room == HasRoom(Tail(s))
<1>1. PICK holdOver \in BOOLEAN : Update(Iface!PacketDequeued(f, bytes, room, holdOver))
  BY DEF Start
<1> DEFINE g == Iface!PacketDequeued(f, bytes, room, holdOver)
<1>2. Head(s) \in Item /\ Tail(s) \in Seq(Item)
  OBVIOUS
<1>3. current' = <<Head(s)>> /\ txQueue' = Tail(s)
  BY DEF Start
<1>4. bytes \in Int /\ room \in BOOLEAN
  <2>1. Head(s).size \in Nat /\ PppHeader \in Nat
    BY <1>2, UnitsOfOne, DeviceAssumption
  <2>2. bytes \in Int
    BY <2>1 DEF FrameBytes
  <2>3. \A a, b \in Int : (a <= b) \in BOOLEAN
    OBVIOUS
  <2>4. DevSize(Tail(s)) + (IF DevByteMode THEN Mtu ELSE 1) \in Int /\ DevCapacity \in Int
    <3>1. QueuedBytes(Tail(s)) \in Int
      BY <1>2, BytesOfQueue
    <3>2. Len(Tail(s)) \in Int
      BY <1>2
    <3> QED
      BY <3>1, <3>2, DeviceAssumption DEF DevSize
  <2>5. room \in BOOLEAN
    BY <2>3, <2>4, Zenon DEF HasRoom
  <2> QED
    BY <2>2, <2>5
<1>5. DequeueEffect(f, g, bytes, room)
  <2> HIDE DEF bytes, room
  <2> QED
    BY <1>4, DequeuedInterface, Zenon
<1> HIDE DEF g
<1>6. /\ iface' \in Interface /\ iface'.wakes = 0 /\ iface'.dql = g.dql
      /\ iface'.byDevice = g.byDevice /\ iface'.byLimits = g.byLimits
      /\ stopped' = [t \in TxQueues |-> Iface!IsStopped(iface')]
      /\ runEvents' = runEvents + g.wakes
  <2>1. Update(g)
    BY <1>1 DEF g
  <2> QED
    BY <1>5, <2>1, UpdateStep DEF DequeueEffect
<1>7. /\ QueuedBytes(s) = bytes + QueuedBytes(Tail(s))
      /\ QueuedBytes(Tail(s)) \in Int /\ QueuedBytes(<<>>) = 0
  BY <1>2, BytesOfQueue
<1>8. /\ f.dql.numQueued \in Int /\ f.dql.numCompleted \in Int
      /\ g.dql.numQueued \in Int /\ g.dql.numCompleted \in Int
      /\ f.wakes \in Nat /\ g.wakes \in Nat
  BY <1>5 DEF Interface, Limits, DequeueEffect
<1> HIDE DEF bytes, room
<1>9. ASSUME HasLimits
      PROVE  g.dql.numQueued - g.dql.numCompleted = QueuedBytes(Tail(s))
  <2>1. f.dql.numQueued - f.dql.numCompleted = QueuedBytes(s)
    BY <1>9, Zenon DEF Agree
  <2>2. /\ g.dql.numQueued = f.dql.numQueued
        /\ g.dql.numCompleted = f.dql.numCompleted + bytes
    BY <1>5, <1>9, Zenon DEF DequeueEffect
  <2> QED
    BY <1>4, <1>7, <1>8, <2>1, <2>2
<1>10. Agree(iface', txQueue')
  <2>1. ~HasLimits => ~g.byLimits
    BY <1>5, Zenon DEF Agree, DequeueEffect
  <2> QED
    BY <1>3, <1>6, <1>9, <2>1, Zenon DEF Agree
<1>11. ASSUME RoomForOne, Tail(s) = <<>> PROVE ~Iface!IsStopped(iface')
  <2>1. ~g.byDevice
    BY <1>5, <1>11, EmptyHasRoom, Zenon DEF room, DequeueEffect
  <2>2. ASSUME HasLimits PROVE g.dql.numQueued = g.dql.numCompleted
    <3>1. g.dql.numQueued - g.dql.numCompleted = 0
      BY <1>7, <1>9, <1>11, <2>2, Zenon
    <3> QED
      BY <1>8, <3>1
  <2>3. ~g.byLimits
    BY <1>5, <2>2, Zenon DEF Agree, DequeueEffect
  <2> QED
    BY <1>6, <2>1, <2>3, Zenon DEF Iface!IsStopped
<1>12. RoomForOne => (Iface!IsStopped(iface') => txQueue' # <<>>)
  BY <1>3, <1>11, Zenon
<1>13. runEvents' \in {runEvents + f.wakes, runEvents + f.wakes + 1,
                       runEvents + f.wakes + 2}
  <2>1. \A a, b \in Nat : b \in {a, a + 1, a + 2} =>
          runEvents + b \in {runEvents + a, runEvents + a + 1, runEvents + a + 2}
    OBVIOUS
  <2> QED
    BY <1>5, <1>6, <1>8, <2>1 DEF DequeueEffect
<1>14. runEvents' = runEvents + f.wakes =>
         Iface!IsStopped(iface') = Iface!IsStopped(f)
  <2>1. runEvents' = runEvents + f.wakes => g.wakes = f.wakes
    BY <1>6, <1>8
  <2> QED
    BY <1>5, <1>6, <2>1, Zenon DEF Iface!IsStopped, DequeueEffect
<1>15. runEvents' # runEvents + f.wakes => Iface!IsStopped(f)
  BY <1>5, <1>6, Zenon DEF Iface!IsStopped, DequeueEffect
<1>16. txQueue' \in Seq(Item) /\ current' # <<>>
  BY <1>2, <1>3
<1> QED
  BY <1>6, <1>10, <1>12, <1>13, <1>14, <1>15, <1>16, Zenon

LEMMA RoomBoolean ==
  ASSUME NEW s \in Seq(Item)
  PROVE  HasRoom(s) \in BOOLEAN
<1>1. \A a, b \in Int : (a <= b) \in BOOLEAN
  OBVIOUS
<1>2. DevSize(s) + (IF DevByteMode THEN Mtu ELSE 1) \in Int /\ DevCapacity \in Int
  <2>1. QueuedBytes(s) \in Int
    BY BytesOfQueue
  <2>2. Len(s) \in Int
    OBVIOUS
  <2> QED
    BY <2>1, <2>2, DeviceAssumption DEF DevSize
<1> QED
  BY <1>1, <1>2, Zenon DEF HasRoom

\* Send leaves the device as NodeInv says, whichever way it ends: a packet
\* that waits in the device queue is the one that will wake a stopped queue,
\* and only a device queue with a packet in it has no room for one.
LEMMA SendStep ==
  ASSUME NodeInv, runEvents \in Nat, NEW item \in Item, Send(item)
  PROVE  NodeInv' /\ (RoomForOne => StopHasWaker')
<1> DEFINE s == Append(txQueue, item)
           bytes == FrameBytes(item)
           f == Iface!PacketEnqueued(iface, bytes, HasRoom(s))
<1>1. /\ txQueue \in Seq(Item) /\ iface \in Interface /\ iface.wakes = 0
      /\ WorkConserving /\ Agree(iface, txQueue)
  BY DEF NodeInv
<1>2. s \in Seq(Item) /\ s # <<>>
  <2>1. txQueue \in Seq(Item)
    BY <1>1, Zenon
  <2>2. s \in Seq(Item) /\ Len(s) = Len(txQueue) + 1 /\ Len(txQueue) \in Nat
    BY <2>1
  <2>3. Len(<<>>) = 0
    OBVIOUS
  <2> HIDE DEF s
  <2> QED
    BY <2>2, <2>3
<1>3. bytes \in Int
  <2>1. item.size \in Nat /\ PppHeader \in Nat
    BY UnitsOfOne, DeviceAssumption
  <2> QED
    BY <2>1 DEF FrameBytes
<1>4. EnqueueEffect(iface, f, bytes)
  <2>1. HasRoom(s) \in BOOLEAN
    BY <1>2, RoomBoolean
  <2> HIDE DEF bytes, s
  <2> QED
    BY <1>1, <1>3, <2>1, EnqueuedInterface, Zenon
<1>5. f \in Interface /\ f.wakes = 0
  <2> HIDE DEF f
  <2> QED
    BY <1>1, <1>4, Zenon DEF EnqueueEffect
<1>6. Agree(f, s)
  <2> HIDE DEF f
  <2>1. ASSUME HasLimits
        PROVE  f.dql.numQueued - f.dql.numCompleted = QueuedBytes(s)
    <3>1. /\ f.dql.numQueued = iface.dql.numQueued + bytes
          /\ f.dql.numCompleted = iface.dql.numCompleted
      BY <1>4, <2>1, Zenon DEF EnqueueEffect
    <3>2. iface.dql.numQueued - iface.dql.numCompleted = QueuedBytes(txQueue)
      BY <1>1, <2>1, Zenon DEF Agree
    <3>3. QueuedBytes(s) = QueuedBytes(txQueue) + bytes /\ QueuedBytes(txQueue) \in Int
      BY <1>1, BytesOfQueue
    <3>4. iface.dql.numQueued \in Int /\ iface.dql.numCompleted \in Int
      BY <1>1 DEF Interface, Limits
    <3> HIDE DEF bytes, s
    <3> QED
      BY <1>3, <3>1, <3>2, <3>3, <3>4
  <2>2. ASSUME ~HasLimits PROVE ~f.byLimits
    BY <1>1, <1>4, <2>2, Zenon DEF EnqueueEffect, Agree
  <2> QED
    BY <2>1, <2>2, Zenon DEF Agree
<1> HIDE DEF f
<1>7. CASE Start(f, s)
  <2>1. /\ txQueue' \in Seq(Item) /\ current' # <<>>
        /\ iface' \in Interface /\ iface'.wakes = 0
        /\ stopped' = [t \in TxQueues |-> Iface!IsStopped(iface')]
        /\ Agree(iface', txQueue')
        /\ RoomForOne => (Iface!IsStopped(iface') => txQueue' # <<>>)
    BY <1>2, <1>5, <1>6, <1>7, StartStep
  <2> QED
    BY <2>1, Zenon DEF NodeInv, WorkConserving, StopHasWaker, Agree, QueuedBytes,
       Iface!IsStopped, Bytes
<1>8. CASE current # <<>> /\ txQueue' = s /\ Update(f) /\ UNCHANGED current
  <2>1. /\ iface' \in Interface /\ iface'.wakes = 0 /\ iface'.dql = f.dql
        /\ iface'.byLimits = f.byLimits
        /\ stopped' = [t \in TxQueues |-> Iface!IsStopped(iface')]
    BY <1>5, <1>8, UpdateStep
  <2>2. Agree(iface', txQueue')
    BY <1>6, <1>8, <2>1, Zenon DEF Agree
  <2>3. WorkConserving' /\ StopHasWaker'
    BY <1>2, <1>8, Zenon DEF WorkConserving, StopHasWaker
  <2>4. txQueue' \in Seq(Item)
    BY <1>2, <1>8
  <2> QED
    BY <2>1, <2>2, <2>3, <2>4, Zenon DEF NodeInv, Agree, QueuedBytes, Iface!IsStopped, Bytes
<1>9. CASE /\ ~DevFits(txQueue, item) /\ Update(Iface!PacketDiscarded(iface))
           /\ UNCHANGED <<txQueue, current>>
  <2> DEFINE g == Iface!PacketDiscarded(iface)
  <2>1. g = [iface EXCEPT !.byDevice = TRUE]
    BY Zenon DEF Iface!PacketDiscarded, Iface!Stop
  <2> HIDE DEF g
  <2>2. g \in Interface /\ g.dql = iface.dql
    BY <1>1, <2>1 DEF Interface
  <2>3. g.byLimits = iface.byLimits
    BY <1>1, <2>1 DEF Interface
  <2>4. /\ iface' \in Interface /\ iface'.wakes = 0 /\ iface'.dql = g.dql
        /\ iface'.byLimits = g.byLimits
        /\ stopped' = [t \in TxQueues |-> Iface!IsStopped(iface')]
    <3>1. Update(g)
      BY <1>9, Zenon DEF g
    <3> QED
      BY <2>2, <3>1, UpdateStep
  <2>5. txQueue' = txQueue /\ current' = current
    BY <1>9, Zenon
  <2>6. Agree(iface', txQueue')
    BY <1>1, <2>2, <2>3, <2>4, <2>5, Zenon DEF Agree
  <2>7. WorkConserving'
    BY <1>1, <2>5, Zenon DEF WorkConserving
  <2>8. ASSUME RoomForOne PROVE StopHasWaker'
    BY <1>9, <2>5, <2>8, EmptyHasRoom, Zenon DEF StopHasWaker
  <2>9. txQueue' \in Seq(Item)
    BY <1>1, <2>5, Zenon
  <2> QED
    BY <2>4, <2>6, <2>7, <2>8, <2>9, Zenon
       DEF NodeInv, Agree, QueuedBytes, Iface!IsStopped, Bytes
<1> QED
  BY <1>7, <1>8, <1>9, Zenon DEF Send, f, s, bytes

\* The end of a transmission is a wake of the device, or nothing the queue
\* disc can see.
LEMMA TransmitCompleteStep ==
  ASSUME NodeInv, runEvents \in Nat, TransmitComplete
  PROVE  /\ NodeInv'
         /\ RoomForOne => (StopHasWaker => StopHasWaker')
         /\ (\E t \in TxQueues : DeviceWake(t)) \/ UNCHANGED baseVars
<1>1. /\ txQueue \in Seq(Item) /\ iface \in Interface /\ iface.wakes = 0
      /\ WorkConserving /\ Agree(iface, txQueue)
      /\ stopped = [t \in TxQueues |-> Iface!IsStopped(iface)]
  BY DEF NodeInv
<1>2. /\ ~running /\ runEvents + 2 <= MaxRunEvents
      /\ UNCHANGED <<q, held, peeked, statVars, runVars, sent, dropped>>
  BY DEF TransmitComplete
<1>3. CASE /\ txQueue = <<>> /\ current' = <<>>
           /\ UNCHANGED <<txQueue, iface, stopped, runEvents>>
  <2>1. txQueue' = txQueue /\ iface' = iface /\ stopped' = stopped /\ runEvents' = runEvents
    BY <1>3, Zenon
  <2>2. NodeInv'
    BY <1>1, <1>3, <2>1, Zenon
       DEF NodeInv, WorkConserving, Agree, QueuedBytes, Iface!IsStopped, Bytes
  <2>3. StopHasWaker => StopHasWaker'
    BY <2>1, Zenon DEF StopHasWaker, Iface!IsStopped
  <2>4. UNCHANGED baseVars
    BY <1>2, <2>1, Zenon DEF baseVars
  <2> QED
    BY <2>2, <2>3, <2>4
<1>4. CASE txQueue # <<>> /\ Start(iface, txQueue)
  <2>1. /\ txQueue' \in Seq(Item) /\ current' # <<>>
        /\ iface' \in Interface /\ iface'.wakes = 0
        /\ stopped' = [t \in TxQueues |-> Iface!IsStopped(iface')]
        /\ Agree(iface', txQueue')
        /\ RoomForOne => (Iface!IsStopped(iface') => txQueue' # <<>>)
        /\ runEvents' \in {runEvents + iface.wakes, runEvents + iface.wakes + 1,
                           runEvents + iface.wakes + 2}
        /\ runEvents' = runEvents + iface.wakes =>
             Iface!IsStopped(iface') = Iface!IsStopped(iface)
        /\ runEvents' # runEvents + iface.wakes => Iface!IsStopped(iface)
    BY <1>1, <1>4, StartStep
  <2>2. NodeInv' /\ (RoomForOne => StopHasWaker')
    BY <2>1, Zenon DEF NodeInv, WorkConserving, StopHasWaker, Agree, QueuedBytes,
       Iface!IsStopped, Bytes
  <2>3. runEvents + iface.wakes = runEvents
    BY <1>1
  <2>4. CASE runEvents' = runEvents
    <3>1. stopped' = stopped
      BY <1>1, <2>1, <2>3, <2>4, Zenon
    <3> QED
      BY <1>2, <2>2, <2>4, <3>1, Zenon DEF baseVars
  <2>5. CASE runEvents' # runEvents
    <3>1. PICK t : TxQueues = {t}
      BY OneQueue
    <3> DEFINE still == Iface!IsStopped(iface')
    <3>2. Iface!IsStopped(iface) = TRUE
      <4>1. Iface!IsStopped(iface)
        BY <2>1, <2>3, <2>5, Zenon
      <4>2. Iface!IsStopped(iface) \in BOOLEAN
        BY Zenon DEF Iface!IsStopped
      <4> QED
        BY <4>1, <4>2, Zenon
    <3>3. still \in BOOLEAN
      BY Zenon DEF Iface!IsStopped
    <3> HIDE DEF still
    <3>4. stopped' = [x \in TxQueues |-> still] /\ stopped = [x \in TxQueues |-> TRUE]
      BY <1>1, <2>1, <3>2, Zenon DEF still
    <3>5. stopped' = [stopped EXCEPT ![t] = still] /\ stopped[t] /\ t \in TxQueues
      BY <3>1, <3>4
    <3>6. Scheduled(1) \/ Scheduled(2)
      BY <1>1, <2>1, <2>3, <2>5 DEF Scheduled
    <3>7. runEvents < MaxRunEvents
      BY <1>2, BaseAssumption
    <3>8. DeviceWake(t)
      BY <1>2, <3>3, <3>5, <3>6, <3>7, Zenon DEF DeviceWake
    <3> QED
      BY <2>2, <3>5, <3>8, Zenon
  <2> QED
    BY <2>4, <2>5
<1> QED
  BY <1>3, <1>4, Zenon DEF TransmitComplete

\* A step of the queue disc that the device is not part of.
LEMMA QuietDevice ==
  ASSUME NodeInv, UNCHANGED <<devVars, stopped>>
  PROVE  NodeInv' /\ (StopHasWaker => StopHasWaker')
<1>1. /\ txQueue' = txQueue /\ current' = current /\ iface' = iface
      /\ stopped' = stopped
  BY DEF devVars
<1> QED
  BY <1>1, Zenon DEF NodeInv, WorkConserving, Agree, QueuedBytes, Iface!IsStopped, Bytes,
     StopHasWaker

\* A packet that leaves the queue disc is given to the device.
LEMMA DepartureStep ==
  ASSUME BaseInv, NodeInv, Departure
  PROVE  /\ \E item \in Item :
              Send(item) /\ sent' = Append(sent, item) /\ item.id = Head(q).id
         /\ held' = <<>> /\ nRequeued' = nRequeued
<1>1. /\ MayDequeue /\ q # <<>> /\ Send(sent'[Len(sent')])
      /\ Transmit([Head(q) EXCEPT !.header = TRUE], nPackets')
  BY DEF Departure, Dequeue, RestartWith
<1> DEFINE item == [Head(q) EXCEPT !.header = TRUE]
<1>2. q \in Seq(Item) /\ sent \in Seq(Item) /\ stopped \in [TxQueues -> BOOLEAN]
  BY DEF BaseInv, BaseTypeOK
<1>3. Head(q) \in Item
  BY <1>1, <1>2
<1>4. item \in Item /\ item.id = Head(q).id
  BY <1>3, ItemUpdates DEF Item
<1> HIDE DEF item
<1>5. ~stopped[item.txq]
  <2>1. PICK t : TxQueues = {t}
    BY OneQueue
  <2>2. item.txq \in TxQueues
    BY <1>4 DEF Item
  <2>3. ~(Cardinality(TxQueues) > 1)
    BY DeviceAssumption
  <2>4. \E x \in TxQueues : ~stopped[x]
    BY <1>1, <2>3, Zenon DEF MayDequeue
  <2> QED
    BY <2>1, <2>2, <2>4, Zenon
<1>6. held' = <<>> /\ nRequeued' = nRequeued /\ sent' = Append(sent, item)
  BY <1>1, <1>5, Zenon DEF Transmit, item
<1>7. sent'[Len(sent')] = item
  BY <1>2, <1>4, <1>6
<1> QED
  BY <1>1, <1>4, <1>6, <1>7, Zenon

-----------------------------------------------------------------------------
(* The node. *)

NodeOK == BaseInv /\ NodeInv /\ NeverRequeued

\* Every step of the node is one of a FIFO queue disc on some device.
LEMMA NodeStepIsFifo ==
  ASSUME NodeOK, [Next]_vars
  PROVE  [FifoNext]_baseVars
<1>1. runEvents \in Nat
  BY DEF NodeOK, BaseInv, BaseTypeOK
<1>2. CASE TransmitComplete
  BY <1>1, <1>2, TransmitCompleteStep, Zenon DEF NodeOK, FifoNext, BaseNext
<1>3. CASE UNCHANGED vars
  BY <1>3, Zenon DEF vars
<1>4. CASE Arrival \/ Departure \/ EndOfRun \/ WakeUp
  BY <1>4, Zenon DEF Arrival, Departure, EndOfRun, WakeUp, FifoNext, BaseNext
<1> QED
  BY <1>2, <1>3, <1>4, Zenon DEF Next

\* Every step of the node keeps what holds of it.
LEMMA NodeStepInv ==
  ASSUME NodeOK, [Next]_vars
  PROVE  NodeOK' /\ (RoomForOne => (StopHasWaker => StopHasWaker'))
<1>1. BaseInv /\ NodeInv /\ held = <<>> /\ nRequeued = 0 /\ runEvents \in Nat
  BY DEF NodeOK, NeverRequeued, BaseInv, BaseTypeOK
<1>2. BaseInv'
  BY NodeStepIsFifo, FifoStepInv, Zenon DEF NodeOK
<1>3. ASSUME NEW item \in Item, Enqueue(item), UNCHANGED devVars
      PROVE  /\ NodeInv' /\ (StopHasWaker => StopHasWaker')
             /\ held' = held /\ nRequeued' = nRequeued
  <2>1. held' = held /\ nRequeued' = nRequeued /\ stopped' = stopped
    BY <1>3, Zenon DEF Enqueue, Arrive
  <2> QED
    BY <1>1, <1>3, <2>1, QuietDevice, Zenon
<1>4. CASE Departure
  <2>1. PICK item \in Item : Send(item)
    BY <1>1, <1>4, DepartureStep, Zenon
  <2>2. NodeInv' /\ (RoomForOne => StopHasWaker')
    BY <1>1, <2>1, SendStep, Zenon
  <2>3. held' = held /\ nRequeued' = nRequeued
    BY <1>1, <1>4, DepartureStep, Zenon
  <2> QED
    BY <1>1, <1>2, <2>2, <2>3, Zenon DEF NodeOK, NeverRequeued
<1>5. CASE EndOfRun
  <2>1. held' = held /\ nRequeued' = nRequeued /\ stopped' = stopped
    BY <1>5, Zenon DEF EndOfRun, RestartBlocked, DequeueEmpty, RestartNothing, statVars
  <2>2. UNCHANGED devVars
    BY <1>5, Zenon DEF EndOfRun
  <2> QED
    BY <1>1, <1>2, <2>1, <2>2, QuietDevice, Zenon DEF NodeOK, NeverRequeued
<1>6. CASE WakeUp
  <2>1. held' = held /\ nRequeued' = nRequeued /\ stopped' = stopped
    BY <1>6, Zenon DEF WakeUp, RunEvent, statVars
  <2>2. UNCHANGED devVars
    BY <1>6, Zenon DEF WakeUp
  <2> QED
    BY <1>1, <1>2, <2>1, <2>2, QuietDevice, Zenon DEF NodeOK, NeverRequeued
<1>7. CASE TransmitComplete
  <2>1. held' = held /\ nRequeued' = nRequeued
    BY <1>7, Zenon DEF TransmitComplete, statVars
  <2> QED
    BY <1>1, <1>2, <1>7, <2>1, TransmitCompleteStep, Zenon DEF NodeOK, NeverRequeued
<1>8. CASE UNCHANGED vars
  <2>1. /\ held' = held /\ nRequeued' = nRequeued /\ stopped' = stopped
        /\ UNCHANGED devVars
    BY <1>8, Zenon DEF vars, baseVars, statVars
  <2> QED
    BY <1>1, <1>2, <2>1, QuietDevice, Zenon DEF NodeOK, NeverRequeued
<1>9. CASE Arrival
  BY <1>1, <1>2, <1>3, <1>9, Zenon DEF Arrival, NodeOK, NeverRequeued
<1> QED
  BY <1>4, <1>5, <1>6, <1>7, <1>8, <1>9, Zenon DEF Next

\* What holds of the node holds initially.
LEMMA NodeInitial == Init => NodeOK /\ StopHasWaker
<1> SUFFICES ASSUME Init PROVE NodeOK /\ StopHasWaker
  OBVIOUS
<1>1. QueueDiscInit /\ txQueue = <<>> /\ current = <<>>
  BY DEF Init
<1>2. PICK adj \in Leftovers :
        iface = [byDevice |-> FALSE, byLimits |-> FALSE, wakes |-> 0,
                 dql |-> Iface!ResetLimits(adj)]
  BY DEF Init
<1>3. BaseInv
  BY <1>1, BaseInitial
<1>4. /\ Iface!ResetLimits(adj) \in Limits
      /\ Iface!ResetLimits(adj).numQueued = 0 /\ Iface!ResetLimits(adj).numCompleted = 0
  <2>1. adj \in Int /\ Unset \in Int
    BY DeviceAssumption
  <2> QED
    BY <2>1 DEF Iface!ResetLimits, Limits
<1>5. iface \in Interface
  <2>1. FALSE \in BOOLEAN /\ 0 \in Nat
    OBVIOUS
  <2> QED
    BY <1>2, <1>4, <2>1, FieldsOfInterface, Zenon
<1>6. /\ iface.wakes = 0 /\ iface.byDevice = FALSE /\ iface.byLimits = FALSE
      /\ iface.dql = Iface!ResetLimits(adj)
  BY <1>2
<1>7. ~Iface!IsStopped(iface) /\ Iface!IsStopped(iface) = FALSE
  BY <1>6, Zenon DEF Iface!IsStopped
<1>8. stopped = [t \in TxQueues |-> Iface!IsStopped(iface)]
  BY <1>1, <1>7, Zenon DEF QueueDiscInit
<1>9. Agree(iface, txQueue)
  <2>1. txQueue = <<>> /\ <<>> \in Seq(Item)
    BY <1>1
  <2>2. QueuedBytes(txQueue) = 0
    BY <2>1, BytesOfQueue
  <2>3. iface.dql.numQueued - iface.dql.numCompleted = 0
    BY <1>4, <1>6
  <2> QED
    BY <1>6, <2>2, <2>3, Zenon DEF Agree
<1>10. txQueue \in Seq(Item) /\ WorkConserving
  BY <1>1 DEF WorkConserving
<1>11. NeverRequeued
  BY <1>1 DEF QueueDiscInit, NeverRequeued
<1>12. StopHasWaker
  BY <1>7, Zenon DEF StopHasWaker
<1> QED
  BY <1>3, <1>5, <1>6, <1>8, <1>9, <1>10, <1>11, <1>12, Zenon DEF NodeOK, NodeInv

LEMMA NodeOKAlways == Spec => []NodeOK
<1>1. Init => NodeOK
  BY NodeInitial
<1>2. NodeOK /\ [Next]_vars => NodeOK'
  BY NodeStepInv
<1> QED
  BY <1>1, <1>2, PTL DEF Spec

\* The node is a FIFO queue disc on a device as QueueDisc leaves it open
\* (NetDeviceQueue and PointToPointNetDevice::Send and TransmitComplete): it
\* stops its queue only in a Send, and starts it again only with a Run
\* scheduled.
THEOREM PointToPointImplementsAnyDevice == Spec => ImplementsAnyDevice
<1>1. Init => QueueDiscInit
  BY DEF Init
<1>2. NodeOK /\ [Next]_vars => [FifoNext]_baseVars
  BY NodeStepIsFifo
<1> QED
  BY <1>1, <1>2, NodeOKAlways, PTL DEF Spec, ImplementsAnyDevice, FifoSpec

\* QueueDisc::Requeue is never called on a device with one queue.
THEOREM PointToPointNeverRequeued == Spec => []NeverRequeued
<1>1. NodeOK => NeverRequeued
  BY DEF NodeOK
<1> QED
  BY <1>1, NodeOKAlways, PTL

\* PointToPointNetDevice is never READY with packets in its queue.
THEOREM PointToPointWorkConserving == Spec => []WorkConserving
<1>1. NodeOK => WorkConserving
  BY DEF NodeOK, NodeInv
<1> QED
  BY <1>1, NodeOKAlways, PTL

\* With room for one frame of the size of the MTU in the device queue, a queue
\* that is stopped has a packet in it, whose departure will wake it; a smaller
\* one would stop for ever with the first packet an idle device has no room for.
THEOREM PointToPointStopHasWaker ==
  ASSUME RoomForOne
  PROVE  Spec => []StopHasWaker
<1>1. Init => StopHasWaker
  BY NodeInitial
<1>2. NodeOK /\ StopHasWaker /\ [Next]_vars => StopHasWaker'
  BY NodeStepInv
<1> QED
  BY <1>1, <1>2, NodeOKAlways, PTL DEF Spec

\* The statistics of the queue disc agree on this device (QueueDisc::Enqueue
\* and QueueDisc::Dequeue assert it), and it never sleeps on a packet.
THEOREM PointToPointStatistics == Spec => [](StatisticsAgree /\ NoStall)
<1>1. NodeOK => StatisticsAgree /\ NoStall
  BY DEF NodeOK, BaseInv, Counters
<1> QED
  BY <1>1, NodeOKAlways, PTL

\* Packets leave a FIFO queue disc on this device in the order they came and at
\* most once, and each that does not leave is dropped.
THEOREM PointToPointImplementsAqmQueue == Spec => ImplementsAqmQueue
<1>1. Init => Abstract!Init /\ IdsInv
  BY InitialRefines DEF Init
<1>2. ASSUME NodeOK, IdsInv, [Next]_vars
      PROVE  [Abstract!Next]_(Abstract!avars) /\ IdsInv'
  BY <1>2, NodeStepIsFifo, FifoStepRefines DEF NodeOK
<1> QED
  BY <1>1, <1>2, NodeOKAlways, PTL DEF Spec, ImplementsAqmQueue, Abstract!Spec

-----------------------------------------------------------------------------
(* DeviceConserves: packets are numbered as they come and wait in that order, *)
(* so the next one given to the device is new to it.                          *)

OrderInv ==
  /\ \A i, j \in DOMAIN q : i < j => q[i].id < q[j].id
  /\ \A i \in DOMAIN q : q[i].id <= nReceived
  /\ \A i \in DOMAIN sent :
       sent[i].id <= nReceived /\ \A j \in DOMAIN q : sent[i].id < q[j].id

LEMMA NumbersOf ==
  ASSUME NEW s \in Seq(Item)
  PROVE  \A i \in DOMAIN s : s[i].id \in Nat
<1> SUFFICES ASSUME NEW i \in DOMAIN s PROVE s[i].id \in Nat
  OBVIOUS
<1>1. s[i] \in Item
  OBVIOUS
<1>2. s[i].id \in 1..MaxPackets /\ MaxPackets \in Nat
  BY <1>1, BaseAssumption DEF Item
<1> QED
  BY <1>2

\* An arrival has the highest number.
LEMMA ArrivalOrder ==
  ASSUME BaseTypeOK, OrderInv, NEW item \in Item, Enqueue(item)
  PROVE  OrderInv'
<1>1. /\ q \in Seq(Item) /\ sent \in Seq(Item) /\ nReceived \in Nat
      /\ sent' = sent /\ nReceived' = nReceived + 1 /\ item.id = nReceived + 1
  BY DEF BaseTypeOK, Enqueue, Arrive
<1>2. /\ \A i \in DOMAIN q : q[i].id \in Nat
      /\ \A i \in DOMAIN sent : sent[i].id \in Nat
  BY <1>1, NumbersOf
<1>3. CASE q' = q
  BY <1>1, <1>2, <1>3 DEF OrderInv
<1>4. CASE q' = Append(q, item)
  <2>1. /\ Len(q) \in Nat /\ DOMAIN q = 1..Len(q) /\ DOMAIN q' = 1..(Len(q) + 1)
        /\ q'[Len(q) + 1] = item /\ \A i \in 1..Len(q) : q'[i] = q[i]
    BY <1>1, <1>4
  <2>2. ASSUME NEW i \in DOMAIN q'
        PROVE  (i \in DOMAIN q /\ q'[i] = q[i]) \/ q'[i] = item
    <3>1. i \in 1..Len(q) \/ i = Len(q) + 1
      BY <2>1
    <3> QED
      BY <2>1, <3>1
  <2>3. \A i \in DOMAIN q' : q'[i].id \in Nat /\ q'[i].id <= nReceived'
    BY <1>1, <1>2, <2>2 DEF OrderInv
  <2>4. \A i, j \in DOMAIN q' : i < j => q'[i].id < q'[j].id
    <3> SUFFICES ASSUME NEW i \in DOMAIN q', NEW j \in DOMAIN q', i < j
                 PROVE  q'[i].id < q'[j].id
      OBVIOUS
    <3>1. i \in DOMAIN q /\ q'[i] = q[i]
      BY <2>1
    <3>2. CASE j \in DOMAIN q /\ q'[j] = q[j]
      BY <3>1, <3>2 DEF OrderInv
    <3>3. CASE q'[j] = item
      <4>1. q[i].id <= nReceived /\ q[i].id \in Nat
        BY <1>2, <3>1 DEF OrderInv
      <4> QED
        BY <1>1, <3>1, <3>3, <4>1
    <3> QED
      BY <2>2, <3>2, <3>3
  <2>5. ASSUME NEW i \in DOMAIN sent', NEW j \in DOMAIN q'
        PROVE  sent'[i].id <= nReceived' /\ sent'[i].id < q'[j].id
    <3>1. i \in DOMAIN sent /\ sent'[i] = sent[i] /\ sent[i].id \in Nat
      BY <1>1, <1>2
    <3>2. sent[i].id <= nReceived
      BY <3>1 DEF OrderInv
    <3>3. CASE j \in DOMAIN q /\ q'[j] = q[j]
      BY <1>1, <3>1, <3>2, <3>3 DEF OrderInv
    <3>4. CASE q'[j] = item
      BY <1>1, <3>1, <3>2, <3>4
    <3> QED
      BY <2>2, <3>3, <3>4
  <2>6. \A i \in DOMAIN sent' : sent'[i].id <= nReceived'
    BY <1>1, <1>2 DEF OrderInv
  <2> QED
    BY <2>3, <2>4, <2>5, <2>6 DEF OrderInv
<1> QED
  BY <1>3, <1>4 DEF Enqueue, InternalEnqueue, Refuse

\* The packet that leaves has the lowest number of those that wait.
LEMMA DepartureOrder ==
  ASSUME BaseTypeOK, OrderInv, q # <<>>, q' = Tail(q), nReceived' = nReceived,
         NEW item \in Item, item.id = Head(q).id, sent' = Append(sent, item)
  PROVE  OrderInv' /\ \A i \in DOMAIN sent : sent[i].id < item.id
<1>1. q \in Seq(Item) /\ sent \in Seq(Item) /\ nReceived \in Nat
  BY DEF BaseTypeOK
<1>2. /\ \A i \in DOMAIN q : q[i].id \in Nat
      /\ \A i \in DOMAIN sent : sent[i].id \in Nat
  BY <1>1, NumbersOf
<1>3. /\ Len(q) \in Nat /\ DOMAIN q = 1..Len(q) /\ 1 \in DOMAIN q /\ Head(q) = q[1]
      /\ DOMAIN q' = 1..(Len(q) - 1) /\ \A i \in 1..(Len(q) - 1) : q'[i] = q[i + 1]
  BY <1>1
<1>4. \A i \in DOMAIN q' : i + 1 \in DOMAIN q /\ 1 < i + 1 /\ q'[i] = q[i + 1]
  BY <1>3
<1>5. \A i \in DOMAIN q' : q'[i].id <= nReceived /\ item.id < q'[i].id
  BY <1>3, <1>4 DEF OrderInv
<1>6. \A i, j \in DOMAIN q' : i < j => q'[i].id < q'[j].id
  <2> SUFFICES ASSUME NEW i \in DOMAIN q', NEW j \in DOMAIN q', i < j
               PROVE  q'[i].id < q'[j].id
    OBVIOUS
  <2>1. i + 1 < j + 1
    BY <1>3
  <2> QED
    BY <1>4, <2>1 DEF OrderInv
<1>7. /\ Len(sent) \in Nat /\ DOMAIN sent = 1..Len(sent)
      /\ DOMAIN sent' = 1..(Len(sent) + 1) /\ sent'[Len(sent) + 1] = item
      /\ \A i \in 1..Len(sent) : sent'[i] = sent[i]
  BY <1>1
<1>8. \A i \in DOMAIN sent' : (i \in DOMAIN sent /\ sent'[i] = sent[i]) \/ sent'[i] = item
  BY <1>7
<1>9. item.id <= nReceived /\ \A i \in DOMAIN sent : sent[i].id < item.id
  BY <1>3 DEF OrderInv
<1>10. \A i \in DOMAIN sent' :
         sent'[i].id <= nReceived /\ \A j \in DOMAIN q' : sent'[i].id < q'[j].id
  <2> SUFFICES ASSUME NEW i \in DOMAIN sent'
               PROVE  sent'[i].id <= nReceived /\ \A j \in DOMAIN q' : sent'[i].id < q'[j].id
    OBVIOUS
  <2>1. CASE i \in DOMAIN sent /\ sent'[i] = sent[i]
    BY <1>4, <2>1 DEF OrderInv
  <2>2. CASE sent'[i] = item
    BY <1>5, <1>9, <2>2
  <2> QED
    BY <1>8, <2>1, <2>2
<1>11. OrderInv'
  BY <1>5, <1>6, <1>10 DEF OrderInv
<1> QED
  BY <1>9, <1>11

\* Of the packets s given to the device it took c and refused o.
Shared(s, c, o) ==
  /\ Packets(s) = Packets(c) \cup Packets(o)
  /\ \A i \in DOMAIN c :
       /\ \A j \in DOMAIN c : i < j => c[i].id < c[j].id
       /\ \A j \in DOMAIN o : c[i].id # o[j].id

LEMMA PacketsAppend ==
  ASSUME NEW s \in Seq(Item), NEW item \in Item
  PROVE  /\ Packets(Append(s, item)) = Packets(s) \cup {item}
         /\ DOMAIN Append(s, item) = 1..(Len(s) + 1) /\ DOMAIN s = 1..Len(s) /\ Len(s) \in Nat
         /\ \A i \in DOMAIN Append(s, item) :
              \/ (i \in DOMAIN s /\ Append(s, item)[i] = s[i])
              \/ (i = Len(s) + 1 /\ Append(s, item)[i] = item)
<1> DEFINE t == Append(s, item)
<1>1. /\ Len(s) \in Nat /\ DOMAIN s = 1..Len(s) /\ DOMAIN t = 1..(Len(s) + 1)
      /\ t[Len(s) + 1] = item /\ \A i \in 1..Len(s) : t[i] = s[i]
  OBVIOUS
<1> HIDE DEF t
<1>2. ASSUME NEW i \in DOMAIN t
      PROVE  (i \in DOMAIN s /\ t[i] = s[i]) \/ (i = Len(s) + 1 /\ t[i] = item)
  <2>1. i \in 1..Len(s) \/ i = Len(s) + 1
    BY <1>1
  <2> QED
    BY <1>1, <2>1
<1>3. \A i \in DOMAIN s : i \in DOMAIN t /\ t[i] = s[i]
  BY <1>1
<1>4. Len(s) + 1 \in DOMAIN t
  BY <1>1
<1>5. Packets(t) = Packets(s) \cup {item}
  BY <1>1, <1>2, <1>3, <1>4, Zenon DEF Packets
<1> QED
  BY <1>1, <1>2, <1>5 DEF t

\* A packet with a number above the others is shared out to either side.
LEMMA SharedGrows ==
  ASSUME NEW s \in Seq(Item), NEW c \in Seq(Item), NEW o \in Seq(Item),
         Shared(s, c, o), NEW item \in Item,
         \A i \in DOMAIN s : s[i].id < item.id
  PROVE  /\ Shared(Append(s, item), Append(c, item), o)
         /\ Shared(Append(s, item), c, Append(o, item))
<1>1. /\ \A i \in DOMAIN c : c[i] \in Packets(s)
      /\ \A i \in DOMAIN o : o[i] \in Packets(s)
  BY Zenon DEF Shared, Packets
<1>2. /\ \A i \in DOMAIN c : c[i].id < item.id
      /\ \A i \in DOMAIN o : o[i].id < item.id
  BY <1>1, Zenon DEF Packets
<1>3. /\ \A i \in DOMAIN c : c[i].id \in Nat
      /\ \A i \in DOMAIN o : o[i].id \in Nat
  BY NumbersOf
<1>4. /\ \A i \in DOMAIN c : c[i].id # item.id
      /\ \A i \in DOMAIN o : item.id # o[i].id
  BY <1>2, <1>3
<1>5. Packets(Append(s, item)) = Packets(s) \cup {item}
  BY PacketsAppend
<1>6. Shared(Append(s, item), Append(c, item), o)
  <2> DEFINE d == Append(c, item)
  <2>1. /\ Packets(d) = Packets(c) \cup {item}
        /\ DOMAIN d = 1..(Len(c) + 1) /\ DOMAIN c = 1..Len(c) /\ Len(c) \in Nat
        /\ \A i \in DOMAIN d : (i \in DOMAIN c /\ d[i] = c[i]) \/ (i = Len(c) + 1 /\ d[i] = item)
    BY PacketsAppend
  <2> HIDE DEF d
  <2>2. Packets(Append(s, item)) = Packets(d) \cup Packets(o)
    BY <1>5, <2>1 DEF Shared
  <2>3. ASSUME NEW i \in DOMAIN d, NEW j \in DOMAIN d, i < j
        PROVE  d[i].id < d[j].id
    <3>1. i \in DOMAIN c /\ d[i] = c[i]
      BY <2>1, <2>3
    <3> QED
      BY <1>2, <2>1, <2>3, <3>1 DEF Shared
  <2>4. ASSUME NEW i \in DOMAIN d, NEW j \in DOMAIN o PROVE d[i].id # o[j].id
    BY <1>4, <2>1, Zenon DEF Shared
  <2> QED
    BY <2>2, <2>3, <2>4, Zenon DEF Shared, d
<1>7. Shared(Append(s, item), c, Append(o, item))
  <2> DEFINE d == Append(o, item)
  <2>1. /\ Packets(d) = Packets(o) \cup {item}
        /\ \A i \in DOMAIN d : (i \in DOMAIN o /\ d[i] = o[i]) \/ d[i] = item
    BY PacketsAppend
  <2> HIDE DEF d
  <2>2. Packets(Append(s, item)) = Packets(c) \cup Packets(d)
    BY <1>5, <2>1 DEF Shared
  <2>3. ASSUME NEW i \in DOMAIN c, NEW j \in DOMAIN d PROVE c[i].id # d[j].id
    BY <1>4, <2>1, Zenon DEF Shared
  <2>4. \A i, j \in DOMAIN c : i < j => c[i].id < c[j].id
    BY DEF Shared
  <2> QED
    BY <2>2, <2>3, <2>4, Zenon DEF Shared, d
<1> QED
  BY <1>6, <1>7

CarriedInv ==
  /\ wire \in Seq(Item) /\ current \in Seq(Item) /\ overflow \in Seq(Item)
  /\ Shared(sent, Carried, overflow)

\* Send gives the packet to one side; a packet that is sent at once leaves
\* nothing behind, for the device queue of an idle device is empty.
LEMMA SendShares ==
  ASSUME NodeInv, CarriedInv, NEW item \in Item, Send(item),
         sent \in Seq(Item), sent' = Append(sent, item),
         \A i \in DOMAIN sent : sent[i].id < item.id
  PROVE  CarriedInv'
<1>1. /\ wire \in Seq(Item) /\ current \in Seq(Item) /\ overflow \in Seq(Item)
      /\ txQueue \in Seq(Item) /\ Shared(sent, Carried, overflow)
      /\ current = <<>> => txQueue = <<>>
  BY DEF CarriedInv, NodeInv, WorkConserving
<1>2. wire \o current \in Seq(Item) /\ Carried \in Seq(Item)
  BY <1>1 DEF Carried
<1>3. /\ Shared(Append(sent, item), Append(Carried, item), overflow)
      /\ Shared(Append(sent, item), Carried, Append(overflow, item))
  BY <1>1, <1>2, SharedGrows
<1>4. CASE current = <<>> /\ Start(Iface!PacketEnqueued(iface, FrameBytes(item),
                                     HasRoom(Append(txQueue, item))), Append(txQueue, item))
           /\ UNCHANGED <<wire, overflow>>
  <2>1. /\ txQueue = <<>> /\ wire' = wire /\ overflow' = overflow
        /\ current' = <<Head(Append(txQueue, item))>> /\ txQueue' = Tail(Append(txQueue, item))
    BY <1>1, <1>4 DEF Start
  <2>2. current' = <<item>> /\ txQueue' = <<>>
    BY <2>1
  <2>3. Carried' = Append(Carried, item)
    <3>1. wire \o <<item>> = Append(wire, item) /\ wire \o <<>> = wire
      BY <1>1
    <3>2. Append(wire, item) \o <<>> = Append(wire, item)
      BY <1>1
    <3> QED
      BY <1>4, <2>1, <2>2, <3>1, <3>2, Zenon DEF Carried
  <2>4. current' \in Seq(Item)
    BY <2>2
  <2> QED
    BY <1>1, <1>3, <2>1, <2>3, <2>4, Zenon DEF CarriedInv
<1>5. CASE txQueue' = Append(txQueue, item) /\ UNCHANGED <<current, wire, overflow>>
  <2> DEFINE w == wire \o current
  <2>1. w \in Seq(Item)
    BY <1>2
  <2> HIDE DEF w
  <2>2. w \o Append(txQueue, item) = Append(w \o txQueue, item)
    BY <1>1, <2>1
  <2>3. Carried' = Append(Carried, item)
    BY <1>5, <2>2, Zenon DEF Carried, w
  <2> QED
    BY <1>1, <1>3, <1>5, <2>3, Zenon DEF CarriedInv
<1>6. CASE overflow' = Append(overflow, item) /\ UNCHANGED <<txQueue, current, wire>>
  <2>1. Carried' = Carried
    BY <1>6, Zenon DEF Carried
  <2>2. overflow' \in Seq(Item)
    BY <1>1, <1>6
  <2> QED
    BY <1>1, <1>3, <1>6, <2>1, <2>2, Zenon DEF CarriedInv
<1> QED
  BY <1>4, <1>5, <1>6, Zenon DEF Send

\* The end of a transmission moves packets on and changes none.
LEMMA CompleteShares ==
  ASSUME NodeInv, CarriedInv, TransmitComplete
  PROVE  CarriedInv'
<1>1. /\ wire \in Seq(Item) /\ current \in Seq(Item) /\ txQueue \in Seq(Item)
      /\ overflow \in Seq(Item)
  BY DEF CarriedInv, NodeInv
<1>2. /\ wire' = wire \o current /\ overflow' = overflow /\ sent' = sent
      /\ wire \o current \in Seq(Item)
  BY <1>1 DEF TransmitComplete
<1>3. CASE txQueue = <<>> /\ current' = <<>> /\ txQueue' = txQueue
  <2> DEFINE w == wire \o current
  <2>1. w \in Seq(Item) /\ wire' = w
    BY <1>2
  <2> HIDE DEF w
  <2>2. (w \o <<>>) \o <<>> = w \o <<>>
    BY <2>1
  <2>3. Carried' = Carried
    BY <1>3, <2>1, <2>2, Zenon DEF Carried, w
  <2>4. current' \in Seq(Item)
    BY <1>3
  <2> QED
    BY <1>1, <1>2, <2>3, <2>4, Zenon DEF CarriedInv
<1>4. CASE txQueue # <<>> /\ Start(iface, txQueue)
  <2> DEFINE w == wire \o current
             h == <<Head(txQueue)>>
             r == Tail(txQueue)
  <2>1. /\ w \in Seq(Item) /\ wire' = w /\ current' = h /\ txQueue' = r
        /\ h \in Seq(Item) /\ r \in Seq(Item)
    BY <1>1, <1>2, <1>4 DEF Start
  <2>2. h \o r = txQueue
    BY <1>1, <1>4
  <2> HIDE DEF w, h, r
  <2>3. (w \o h) \o r = w \o txQueue
    <3>1. \A x, y, z \in Seq(Item) : (x \o y) \o z = x \o (y \o z)
      BY ConcatAssociative
    <3>2. (w \o h) \o r = w \o (h \o r)
      BY <2>1, <3>1, Zenon
    <3> QED
      BY <2>2, <3>2, Zenon
  <2>4. Carried' = Carried
    BY <2>1, <2>3, Zenon DEF Carried, w
  <2> QED
    BY <1>1, <1>2, <2>1, <2>4, Zenon DEF CarriedInv
<1> QED
  BY <1>3, <1>4, Zenon DEF TransmitComplete

\* Every step of the node keeps the order and the shares.
LEMMA SharesStep ==
  ASSUME NodeOK, OrderInv, CarriedInv, [Next]_vars
  PROVE  OrderInv' /\ CarriedInv'
<1>1. BaseTypeOK /\ BaseInv /\ NodeInv /\ sent \in Seq(Item)
  BY DEF NodeOK, BaseInv, BaseTypeOK
<1>2. ASSUME UNCHANGED <<wire, current, overflow, txQueue, sent>>
      PROVE  CarriedInv'
  <2>1. Carried' = Carried
    BY <1>2, Zenon DEF Carried
  <2> QED
    BY <1>2, <2>1, Zenon DEF CarriedInv, Shared, Packets
<1>3. ASSUME UNCHANGED <<q, sent, nReceived>>
      PROVE  OrderInv'
  BY <1>3, Zenon DEF OrderInv
<1>4. CASE Arrival
  <2>1. PICK item \in Item : Enqueue(item) /\ UNCHANGED devVars
    BY <1>4, Zenon DEF Arrival
  <2>2. sent' = sent
    BY <2>1, Zenon DEF Enqueue, Arrive
  <2>3. UNCHANGED <<wire, current, overflow, txQueue, sent>>
    BY <2>1, <2>2, Zenon DEF devVars
  <2> QED
    BY <1>1, <1>2, <2>1, <2>3, ArrivalOrder, Zenon
<1>5. CASE Departure
  <2>1. PICK item \in Item :
          Send(item) /\ sent' = Append(sent, item) /\ item.id = Head(q).id
    BY <1>1, <1>5, DepartureStep, Zenon
  <2>2. q # <<>> /\ q' = Tail(q) /\ nReceived' = nReceived
    BY <1>5, Zenon DEF Departure, Dequeue, RestartWith, statVars, enqueueStats
  <2>3. OrderInv' /\ \A i \in DOMAIN sent : sent[i].id < item.id
    BY <1>1, <2>1, <2>2, DepartureOrder, Zenon
  <2> QED
    BY <1>1, <2>1, <2>3, SendShares, Zenon
<1>6. CASE EndOfRun \/ WakeUp
  <2>1. UNCHANGED <<q, sent, nReceived>> /\ UNCHANGED devVars
    BY <1>6, Zenon DEF EndOfRun, WakeUp, RestartBlocked, DequeueEmpty, RestartNothing,
       RunEvent, statVars, enqueueStats
  <2> QED
    BY <1>2, <1>3, <2>1, Zenon DEF devVars
<1>7. CASE TransmitComplete
  <2>1. UNCHANGED <<q, sent, nReceived>>
    BY <1>7, Zenon DEF TransmitComplete, statVars, enqueueStats
  <2> QED
    BY <1>1, <1>3, <1>7, <2>1, CompleteShares, Zenon
<1>8. CASE UNCHANGED vars
  BY <1>2, <1>3, <1>8, Zenon DEF vars, baseVars, statVars, enqueueStats, devVars
<1> QED
  BY <1>4, <1>5, <1>6, <1>7, <1>8, Zenon DEF Next

\* The device transmits what the queue disc gives it, each packet once and in
\* the order they came to the node, but for what its queue has no room for; the
\* byte limits count what waits in it (PointToPointNetDevice::Send and
\* TransmitComplete).
THEOREM PointToPointDeviceConserves == Spec => []DeviceConserves
<1>1. Init => OrderInv /\ CarriedInv
  <2> SUFFICES ASSUME Init PROVE OrderInv /\ CarriedInv
    OBVIOUS
  <2>1. /\ q = <<>> /\ sent = <<>> /\ txQueue = <<>> /\ current = <<>>
        /\ wire = <<>> /\ overflow = <<>>
    BY DEF Init, QueueDiscInit
  <2>2. <<>> \in Seq(Item) /\ DOMAIN <<>> = {} /\ (<<>> \o <<>>) \o <<>> = <<>>
    OBVIOUS
  <2>3. OrderInv
    BY <2>1, <2>2, Zenon DEF OrderInv
  <2>4. Carried = <<>>
    BY <2>1, <2>2, Zenon DEF Carried
  <2> QED
    BY <2>1, <2>2, <2>3, <2>4, Zenon DEF CarriedInv, Shared, Packets
<1>2. NodeOK /\ OrderInv /\ CarriedInv /\ [Next]_vars => OrderInv' /\ CarriedInv'
  BY SharesStep
<1>3. NodeOK /\ CarriedInv => DeviceConserves
  BY Zenon DEF NodeOK, NodeInv, Agree, CarriedInv, Shared, DeviceConserves
<1> QED
  BY <1>1, <1>2, <1>3, NodeOKAlways, PTL DEF Spec
=============================================================================
