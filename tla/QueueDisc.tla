----------------------------- MODULE QueueDisc -----------------------------
(***************************************************************************)
(* The base class ns3::QueueDisc (src/src/traffic-control/model/           *)
(* queue-disc.cc): its internal queue, the packet held by a requeue or a   *)
(* peek, the statistics and the Run loop that hands packets to the device. *)
(* A concrete discipline extends this module with its Enqueue, and with    *)
(* its DoDequeue when it does more than pop the head.                      *)
(*                                                                         *)
(* The simulator runs one event at a time.  Run is an event that does      *)
(* several things, so it is split in one step per iteration of its loop;   *)
(* while running holds, only Run takes steps.                              *)
(***************************************************************************)
EXTENDS Integers, Sequences, FiniteSets

CONSTANTS
  TxQueues,      \* the transmission queues of the device
  Capacity,      \* MaxSize, in packets or in size units
  ByteMode,      \* TRUE when MaxSize is given in bytes
  LargestSize,   \* packets have sizes 1..LargestSize, in units
  Ecns,          \* the ECN codepoints the senders use
  Quota,         \* m_quota, the packets one Run may send
  QuotaMax,      \* what Quota wraps to below zero (2^32 - 1 in the code)
  MaxPackets,    \* bound: packets handed to the queue disc
  MaxRunEvents   \* bound: Run events the device has scheduled at once

ASSUME BaseAssumption ==
  /\ TxQueues # {} /\ IsFiniteSet(TxQueues)
  /\ Capacity \in Nat /\ ByteMode \in BOOLEAN
  /\ LargestSize \in Nat \ {0}
  /\ Ecns \subseteq {"NotECT", "ECT", "CE"}
  /\ Quota \in Nat /\ QuotaMax \in Nat \ {0}
  /\ MaxPackets \in Nat /\ MaxRunEvents \in Nat

VARIABLES
  q,          \* internal queue 0
  held,       \* m_requeued: <<>> or the one packet held
  peeked,     \* m_peeked: the packet held was dequeued by a peek
  nPackets,   \* m_nPackets
  nReceived, nEnqueued, nDroppedBefore,   \* m_stats: nTotal...Packets
  nDequeued, nDroppedAfter, nRequeued, nMarked,
  running,    \* m_running
  quota,      \* what is left of the quota of this Run
  stopped,    \* NetDeviceQueue::IsStopped of every transmission queue
  runEvents,  \* Run events scheduled by the device's wake callback
  sent,       \* history: the packets handed to the device, in order
  dropped     \* history: the packets the Drop trace has reported, in order

enqueueStats == <<nReceived, nEnqueued, nDroppedBefore>>
runVars == <<running, quota>>
statVars == <<nPackets, enqueueStats, nDequeued, nDroppedAfter, nRequeued, nMarked>>
baseVars ==
  <<q, held, peeked, statVars, runVars, stopped, runEvents, sent, dropped>>

Item == [id : 1..MaxPackets, size : 1..LargestSize, txq : TxQueues,
         ecn : {"NotECT", "ECT", "CE"}, header : BOOLEAN]

QueueDiscInit ==
  /\ q = <<>> /\ held = <<>> /\ sent = <<>> /\ dropped = <<>>
  /\ peeked = FALSE /\ running = FALSE /\ quota = 0
  /\ nPackets = 0 /\ nReceived = 0 /\ nEnqueued = 0 /\ nDroppedBefore = 0
  /\ nDequeued = 0 /\ nDroppedAfter = 0 /\ nRequeued = 0 /\ nMarked = 0
  /\ stopped = [t \in TxQueues |-> FALSE]
  /\ runEvents = 0

-----------------------------------------------------------------------------
(* Statistics, updated by the traces of the internal queue and by the      *)
(* discipline.                                                             *)

PacketEnqueued ==
  nPackets' = nPackets + 1 /\ nEnqueued' = nEnqueued + 1

\* Mutant: a packet held by a requeue is counted out a second time.
PacketDequeuedAgain(peeking) ==
  nPackets' = nPackets - 1 /\ nDequeued' = nDequeued + 1

\* Does nothing while a peek is in progress.
PacketDequeued(peeking) ==
  IF peeking THEN UNCHANGED <<nPackets, nDequeued>>
  ELSE nPackets' = nPackets - 1 /\ nDequeued' = nDequeued + 1

DropBeforeEnqueue(item) ==
  /\ nDroppedBefore' = nDroppedBefore + 1
  /\ dropped' = Append(dropped, item)

\* Mutant: the drop is traced and not counted.
DropAfterDequeueUncounted(item) ==
  UNCHANGED nDroppedAfter /\ dropped' = Append(dropped, item)

DropAfterDequeue(item) ==
  /\ nDroppedAfter' = nDroppedAfter + 1
  /\ dropped' = Append(dropped, item)

\* Mutant: the codepoint of the packet is not looked at.
MarkableAny(item) == ~item.header

\* Ipv4QueueDiscItem::Mark succeeds on a packet that is already CE.
Markable(item) == ~item.header /\ item.ecn # "NotECT"
Marked(item) == [item EXCEPT !.ecn = "CE"]
BeMarked(item) == item.ecn = "CE"
CountMark == nMarked' = nMarked + 1

-----------------------------------------------------------------------------
(* The internal queue, ns3::Queue<QueueDiscItem>. *)

\* The bytes of a sequence of packets: one element for each unit of each.
Bytes(s) ==
  Cardinality({u \in (1..Len(s)) \X (1..LargestSize) : u[2] <= s[u[1]].size})

CurrentSize(s) == IF ByteMode THEN Bytes(s) ELSE Len(s)

Fits(s, item) ==
  CurrentSize(s) + (IF ByteMode THEN item.size ELSE 1) <= Capacity

\* Queue::DoEnqueue with the traces AddInternalQueue connects; s is what the
\* algorithm made of the queue before.
InternalEnqueue(s, item) ==
  IF Fits(s, item)
  THEN /\ q' = Append(s, item) /\ PacketEnqueued
       /\ UNCHANGED <<nDroppedBefore, dropped>>
  ELSE /\ q' = s /\ DropBeforeEnqueue(item)
       /\ UNCHANGED <<nPackets, nEnqueued>>

\* The discipline refuses the packet itself.
Refuse(item) ==
  DropBeforeEnqueue(item) /\ UNCHANGED <<q, nPackets, nEnqueued>>

-----------------------------------------------------------------------------
(* Run. *)

RunBegin == running' = TRUE /\ quota' = Quota
RunEnd == running' = FALSE /\ UNCHANGED quota

\* One turn of the loop is over: "quota -= 1; if (quota <= 0) break".
QuotaLeft == IF quota = 0 THEN QuotaMax ELSE quota - 1
NextRestart == quota' = QuotaLeft /\ running' = (QuotaLeft # 0)

\* TrafficControlLayer::Send enqueues a new packet, then calls Run.
Arrive(item) ==
  /\ ~running
  /\ nReceived < MaxPackets /\ item.id = nReceived + 1
  /\ item.ecn \in Ecns /\ ~item.header
  /\ nReceived' = nReceived + 1
  /\ RunBegin
  /\ UNCHANGED <<held, peeked, nDequeued, nDroppedAfter, nRequeued>>
  /\ UNCHANGED <<stopped, runEvents, sent>>

\* The device's wake callback schedules Run events.
Scheduled(n) == runEvents' = runEvents + n
Reschedule == \E n \in 0..2 :
  Scheduled(n) /\ (n = 0 \/ runEvents + n <= MaxRunEvents)

\* Mutant: the device gets the packet before its queue is looked at.
TransmitFirst(item, left) ==
  /\ sent' = Append(sent, item)
  /\ \E stop \in BOOLEAN :
       /\ stopped' = [stopped EXCEPT ![item.txq] = stop]
       /\ held' = IF stop THEN <<item>> ELSE <<>>
       /\ nRequeued' = IF stop THEN nRequeued + 1 ELSE nRequeued
       /\ IF left = 0 \/ stop THEN RunEnd ELSE NextRestart
  /\ Reschedule

\* Mutant: one packet is sent in a Run.
TransmitOne(item, left) ==
  /\ held' = <<>> /\ sent' = Append(sent, item) /\ RunEnd
  /\ UNCHANGED <<stopped, nRequeued, runEvents>>

\* Transmit: hand item to the device, which may stop the queue on it (or stop
\* it, and wake it as it begins to transmit), or hold the item when its queue
\* is stopped.  left is m_nPackets at this point.
Transmit(item, left) ==
  IF stopped[item.txq]
  THEN /\ held' = <<item>> /\ nRequeued' = nRequeued + 1
       /\ RunEnd
       /\ UNCHANGED <<stopped, sent, runEvents>>
  ELSE /\ held' = <<>> /\ UNCHANGED nRequeued
       /\ sent' = Append(sent, item) /\ Reschedule
       /\ \E stop \in BOOLEAN :
            /\ stopped' = [stopped EXCEPT ![item.txq] = stop]
            /\ IF left = 0 \/ stop THEN RunEnd ELSE NextRestart

\* DequeuePacket, with a packet held whose queue is not stopped.
RestartHeld ==
  /\ running /\ held # <<>>
  /\ ~stopped[held[1].txq]
  /\ peeked' = FALSE
  /\ PacketDequeued(~peeked)
  /\ Transmit(held[1], nPackets')
  /\ UNCHANGED <<q, enqueueStats, nDroppedAfter, nMarked, dropped>>

\* DequeuePacket returns nothing: Restart is false and the loop ends.
RestartBlocked ==
  /\ running
  /\ IF held # <<>> THEN stopped[held[1].txq]
     ELSE Cardinality(TxQueues) = 1 /\ \A t \in TxQueues : stopped[t]
  /\ RunEnd
  /\ UNCHANGED <<q, held, peeked, statVars, stopped, runEvents, sent, dropped>>

\* Mutant: a packet held by a requeue does not come first.
MayDequeueAhead ==
  running /\ (Cardinality(TxQueues) > 1 \/ \E t \in TxQueues : ~stopped[t])

\* Mutant: the only queue of the device may be stopped.
MayDequeueStopped == running /\ held = <<>>

\* The case where DequeuePacket calls Dequeue, hence DoDequeue.
MayDequeue ==
  /\ running /\ held = <<>>
  /\ Cardinality(TxQueues) > 1 \/ \E t \in TxQueues : ~stopped[t]

\* DoDequeue returns item; the header is added and Transmit is called.
RestartWith(item) ==
  /\ Transmit([item EXCEPT !.header = TRUE], nPackets')
  /\ UNCHANGED <<enqueueStats, nDroppedAfter, peeked, dropped>>

\* DoDequeue returns nothing, so Restart is false.
RestartNothing ==
  RunEnd /\ UNCHANGED <<held, peeked, nRequeued, stopped, runEvents, sent>>

-----------------------------------------------------------------------------
(* The device, as the queue disc sees it: any queue may stop at any time;  *)
(* a wake schedules a Run, even when the queue remains stopped for the     *)
(* byte limits, and a queue does not start again without a wake.           *)

DeviceStop(t) ==
  /\ ~running /\ ~stopped[t]
  /\ stopped' = [stopped EXCEPT ![t] = TRUE]
  /\ UNCHANGED <<q, held, peeked, statVars, runVars, runEvents, sent, dropped>>

\* Mutant: the queue starts again, and no Run is scheduled.
DeviceWakeQuiet(t) ==
  /\ ~running /\ stopped[t] /\ runEvents < MaxRunEvents
  /\ stopped' = [stopped EXCEPT ![t] = FALSE]
  /\ UNCHANGED <<q, held, peeked, statVars, runVars, runEvents, sent, dropped>>

DeviceWake(t) ==
  /\ ~running /\ stopped[t] /\ runEvents < MaxRunEvents
  /\ \E still \in BOOLEAN : stopped' = [stopped EXCEPT ![t] = still]
  /\ Scheduled(1) \/ Scheduled(2)
  /\ UNCHANGED <<q, held, peeked, statVars, runVars, sent, dropped>>

\* The event scheduled by Wake calls Run.
RunEvent ==
  /\ ~running /\ runEvents > 0
  /\ runEvents' = runEvents - 1
  /\ RunBegin
  /\ UNCHANGED <<q, held, peeked, statVars, stopped, sent, dropped>>

\* What does not depend on the discipline.
BaseNext ==
  \/ RestartHeld
  \/ RestartBlocked
  \/ \E t \in TxQueues : DeviceStop(t) \/ DeviceWake(t)
  \/ RunEvent

-----------------------------------------------------------------------------
(* What a queue disc must preserve, whatever its discipline. *)

BaseTypeOK ==
  /\ q \in Seq(Item) /\ sent \in Seq(Item) /\ dropped \in Seq(Item)
  /\ held \in Seq(Item) /\ Len(held) <= 1
  /\ peeked \in BOOLEAN /\ running \in BOOLEAN
  /\ nPackets \in Nat /\ nReceived \in Nat /\ nEnqueued \in Nat
  /\ nDroppedBefore \in Nat /\ nDequeued \in Nat /\ nDroppedAfter \in Nat
  /\ nRequeued \in Nat /\ nMarked \in Nat
  /\ quota \in Nat /\ runEvents \in Nat
  /\ stopped \in [TxQueues -> BOOLEAN]

\* A packet held by a peek is still in the queue disc, a requeued one is out.
HeldInside == IF peeked THEN Len(held) ELSE 0

\* The identities queue-disc.h gives for the statistics (lines 161-164), which
\* Enqueue and Dequeue assert, and what they mean: m_nPackets is the number
\* of packets the queue disc holds, and the drops are those reported.
StatisticsAgree ==
  /\ nReceived = nDroppedBefore + nEnqueued
  /\ nEnqueued = nPackets + nDequeued
  /\ nPackets = Len(q) + HeldInside
  /\ nDroppedBefore + nDroppedAfter = Len(dropped)

\* GetStats computes nTotalSentPackets from the other counters: it is the
\* number of packets the device was given, also while a packet is requeued.
SentCounterExact == nDequeued - Len(held) - nDroppedAfter = Len(sent)

\* The queue disc never sleeps on a packet it could send: when no Run is in
\* progress, whatever it holds waits for a stopped queue of the device or
\* for a Run that is already scheduled.  Run is called by nothing else than
\* an arrival and a wake, so a packet left behind would stay.  The exception
\* is a Run that used up its quota ("todo netif_schedule" in Run).
NoStall ==
  ~running /\ runEvents = 0 /\ quota # 0 =>
    /\ held # <<>> => stopped[held[1].txq]
    /\ q # <<>> => \E t \in TxQueues : stopped[t]

\* The abstract queue this one implements: a packet held by a requeue is the
\* head of the queue; sizes, transmission queues and headers are not seen.
Visible(s) == [i \in DOMAIN s |-> [id |-> s[i].id, ecn |-> s[i].ecn]]
Abstract == INSTANCE AqmQueue WITH
              Senders <- Ecns,
              waiting <- Visible(held \o q),
              delivered <- Visible(sent),
              lost <- {dropped[i].id : i \in DOMAIN dropped}

\* Packets leave in the order they came and at most once, across requeues;
\* only a capable packet is marked, and a mark is never taken back.
ImplementsAqmQueue == Abstract!Spec
=============================================================================
