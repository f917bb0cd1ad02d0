----------------------- MODULE PointToPointNetDevice -----------------------
(***************************************************************************)
(* A root FifoQueueDisc on a ns3::PointToPointNetDevice                    *)
(* (src/src/point-to-point/model/point-to-point-net-device.cc): what the   *)
(* module QueueDisc leaves open of the device is determined here by the    *)
(* device's queue, by its transmitter and by the flow control interface.   *)
(***************************************************************************)
EXTENDS FifoQueueDisc

CONSTANTS
  DevCapacity,   \* MaxSize of the device queue
  DevByteMode,   \* TRUE when it is given in bytes
  Mtu,           \* the device's MTU, in units
  PppHeader,     \* what the PPP header adds to a packet, in units
  HasLimits, MinLimit, MaxLimit, Unset,   \* byte queue limits
  Leftovers      \* values the uninitialised m_adjLimit may have

ASSUME DeviceAssumption ==
  /\ Cardinality(TxQueues) = 1
  /\ DevCapacity \in Nat /\ DevByteMode \in BOOLEAN
  /\ Mtu \in Nat /\ LargestSize <= Mtu /\ PppHeader \in Nat
  /\ HasLimits \in BOOLEAN
  /\ MinLimit \in Nat /\ MaxLimit \in Nat /\ MinLimit <= MaxLimit
  /\ Unset \in Nat
  /\ Leftovers # {} /\ Leftovers \subseteq Int

VARIABLES
  txQueue,   \* m_queue
  current,   \* m_currentPkt: <<>> when m_txMachineState is READY
  iface,     \* the NetDeviceQueue
  wire,      \* history: the packets whose transmission is complete
  overflow   \* history: the packets the device queue had no room for

Iface == INSTANCE NetDeviceQueue

devVars == <<txQueue, current, iface, wire, overflow>>
vars == <<baseVars, devVars>>

Init ==
  /\ QueueDiscInit
  /\ txQueue = <<>> /\ current = <<>> /\ wire = <<>> /\ overflow = <<>>
  /\ \E adj \in Leftovers :
       iface = [byDevice |-> FALSE, byLimits |-> FALSE, wakes |-> 0,
                dql |-> Iface!ResetLimits(adj)]

-----------------------------------------------------------------------------

\* Bytes on the device: AddHeader has put the PPP header on every packet.
FrameBytes(item) == item.size + PppHeader
QueuedBytes(s) == Bytes(s) + Len(s) * PppHeader
DevSize(s) == IF DevByteMode THEN QueuedBytes(s) ELSE Len(s)

DevFits(s, item) ==
  DevSize(s) + (IF DevByteMode THEN FrameBytes(item) ELSE 1) <= DevCapacity

\* Room for another packet, as NetDeviceQueue sees it: for the MTU.
HasRoom(s) == DevSize(s) + (IF DevByteMode THEN Mtu ELSE 1) <= DevCapacity

\* Mutant: the queue starts again, and the queue disc is not told.
UpdateQuiet(f) ==
  /\ iface' = [f EXCEPT !.wakes = 0]
  /\ stopped' = [t \in TxQueues |-> Iface!IsStopped(f)]
  /\ Scheduled(0)

\* The interface becomes f; the Run events it scheduled are pending.
Update(f) ==
  /\ iface' = [f EXCEPT !.wakes = 0]
  /\ stopped' = [t \in TxQueues |-> Iface!IsStopped(f)]
  /\ Scheduled(f.wakes)

\* Take the head of the queue s and transmit it: TransmitStart.
Start(f, s) ==
  /\ current' = <<Head(s)>> /\ txQueue' = Tail(s)
  /\ \E holdOver \in BOOLEAN :
       Update(Iface!PacketDequeued(f, FrameBytes(Head(s)), HasRoom(Tail(s)), holdOver))

\* Send: enqueue the packet, and transmit at once when the device is READY.
Send(item) ==
  LET s == Append(txQueue, item)
      f == Iface!PacketEnqueued(iface, FrameBytes(item), HasRoom(s))
  IN  \/ /\ DevFits(txQueue, item) /\ current = <<>>
         /\ Start(f, s) /\ UNCHANGED <<wire, overflow>>
      \/ /\ DevFits(txQueue, item) /\ current # <<>>
         /\ txQueue' = s /\ Update(f)
         /\ UNCHANGED <<current, wire, overflow>>
      \/ /\ ~DevFits(txQueue, item)
         /\ overflow' = Append(overflow, item)
         /\ Update(Iface!PacketDiscarded(iface))
         /\ UNCHANGED <<txQueue, current, wire>>

\* Mutant: the device does not look at its queue when a packet is out.
TransmitCompleteIdle ==
  /\ ~running /\ current # <<>>
  /\ wire' = wire \o current /\ current' = <<>>
  /\ UNCHANGED <<txQueue, iface, stopped, runEvents>>
  /\ UNCHANGED <<q, held, peeked, statVars, runVars, sent, dropped, overflow>>

\* The event at the end of a transmission.
TransmitComplete ==
  /\ ~running /\ current # <<>>
  /\ runEvents + 2 <= MaxRunEvents
  /\ wire' = wire \o current
  /\ IF txQueue = <<>>
     THEN current' = <<>> /\ UNCHANGED <<txQueue, iface, stopped, runEvents>>
     ELSE Start(iface, txQueue)
  /\ UNCHANGED <<q, held, peeked, statVars, runVars, sent, dropped, overflow>>

-----------------------------------------------------------------------------
(* The node.  A Run that finds a packet held by a requeue is left out: the *)
(* only queue of this device never stops between DequeuePacket and         *)
(* Transmit (NeverRequeued).                                               *)

Arrival == \E item \in Item : Enqueue(item) /\ UNCHANGED devVars

Departure == Dequeue /\ Send(sent'[Len(sent')])

EndOfRun == (RestartBlocked \/ DequeueEmpty) /\ UNCHANGED devVars

WakeUp == RunEvent /\ UNCHANGED devVars

Next == Arrival \/ Departure \/ EndOfRun \/ WakeUp \/ TransmitComplete

Spec == Init /\ [][Next]_vars

\* The simulator runs the events that are scheduled, and an event ends.
FairSpec ==
  /\ Spec
  /\ WF_vars(Departure) /\ WF_vars(EndOfRun)
  /\ WF_vars(WakeUp) /\ WF_vars(TransmitComplete)

-----------------------------------------------------------------------------

\* A packet is requeued only when the queue stops between DequeuePacket and
\* Transmit, which takes a device with several queues.
NeverRequeued == held = <<>> /\ nRequeued = 0

\* A queue that is stopped, by the device or by the limits, has a packet whose
\* departure will look at it again: nothing else ever wakes the queue disc.
\* It holds from the first packet on, whatever m_adjLimit was.
StopHasWaker == Iface!IsStopped(iface) => txQueue # <<>>

\* The transmitter is not idle with packets in the device queue.
WorkConserving == current = <<>> => txQueue = <<>>

\* What the device took in: transmitted, in transmission or in its queue.
Carried == wire \o current \o txQueue
Packets(s) == {s[i] : i \in DOMAIN s}

\* The device transmits what it was given, once and in the order the packets
\* came to the node, but for what it had no room for, and the byte limits
\* count what is in its queue.
DeviceConserves ==
  /\ Packets(sent) = Packets(Carried) \cup Packets(overflow)
  /\ \A i \in DOMAIN Carried :
       /\ \A j \in DOMAIN Carried : i < j => Carried[i].id < Carried[j].id
       /\ \A j \in DOMAIN overflow : Carried[i].id # overflow[j].id
  /\ HasLimits =>
       iface.dql.numQueued - iface.dql.numCompleted = QueuedBytes(txQueue)

\* A packet that the queue disc accepted is eventually on the wire.
In(s, n) == \E i \in DOMAIN s : s[i].id = n
EveryPacketLeaves ==
  \A n \in 1..MaxPackets : In(q, n) ~> In(wire, n)

\* The node behaves, for its queue disc, as any device may: what is proved of
\* a queue disc on the device of module QueueDisc holds on this one.
ImplementsAnyDevice == FifoSpec
=============================================================================
