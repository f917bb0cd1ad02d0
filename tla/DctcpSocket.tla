---------------------------- MODULE DctcpSocket ----------------------------
(***************************************************************************)
(* A connected socket with DCTCP: ns3::TcpDctcp (internet/model/           *)
(* tcp-dctcp.cc) as the congestion control of an ns3::TcpSocketBase        *)
(* (tcp-socket-base.cc).  What is modelled is how congestion marks travel: *)
(* the CE state of the receiver and its delayed acknowledgements, the ECN  *)
(* state the two roles of a socket share, and the echo as the sender sees  *)
(* it.  The windows, the scoreboard and the peer are left open: they       *)
(* decide which packets arrive and when data may be sent.                  *)
(*                                                                         *)
(* Sequence numbers count segments; the first data segment is 1.  The      *)
(* state of the socket is a record, since a handler is a succession of     *)
(* calls that each change it.  The fields below the line are history.      *)
(***************************************************************************)
EXTENDS Integers, FiniteSets, FiniteSetsExt

CONSTANTS
  Segments,        \* the data segments the peer has to send
  OwnSegments,     \* the data segments the socket has to send
  Window,          \* how far ahead of the acknowledged data the peer may send
  DelAckMaxCount,  \* m_delAckMaxCount
  InOrder          \* TRUE on a path that loses and duplicates nothing

ASSUME SocketAssumption ==
  /\ Segments \in Nat /\ OwnSegments \in Nat
  /\ Window \in Nat \ {0} /\ DelAckMaxCount \in Nat \ {0}
  /\ InOrder \in BOOLEAN

VARIABLE sock

EcnStates == {"IDLE", "CE_RCVD", "SENDING_ECE", "ECE_RCVD", "CWR_SENT"}

\* The peer's segments, 1 .. Segments.
Data == 1 .. Segments

\* ECN is negotiated.  The flag of a forked TcpDctcp is uninitialised.
Init ==
  \E leftover \in BOOLEAN :
    sock = [ecnState |-> "IDLE", ecnCESeq |-> 0, ecnEchoSeq |-> 0, ecnCWRSeq |-> 0,
            ceState |-> FALSE, delayedAckReserved |-> FALSE,
            priorRcvNxtFlag |-> leftover, priorRcvNxt |-> 0,
            nextRx |-> 1, ahead |-> {},             \* m_rxBuffer
            delAckCount |-> 0, delAckEvent |-> FALSE,
            head |-> 1, highTx |-> 1,               \* m_txBuffer's head, m_highTxMark
            \* -----------------------------------------------------------
            mark  |-> [g \in Data |-> "none"],      \* codepoint it was accepted with
            first |-> [g \in Data |-> "none"],      \* what acknowledged it first
            inCe    |-> {},                         \* unacknowledged, received in CE
            cut     |-> 0,                          \* highTx at the last reduction
            rewound |-> FALSE]                      \* the last ACK was a rewound one

-----------------------------------------------------------------------------
(* Acknowledgements. *)

\* ACK is set in a packet sent: NextRxSequence is acknowledged, the timer stops.
Acknowledge(s, ece) ==
  [s EXCEPT !.delAckEvent = FALSE, !.delAckCount = 0,
            !.inCe = {g \in @ : g >= s.nextRx}, !.rewound = FALSE,
            !.first = [g \in Data |->
                         IF g < s.nextRx /\ s.first[g] = "none"
                         THEN IF ece THEN "ECE" ELSE "plain"
                         ELSE s.first[g]]]

SendEmptyPacket(s, ece) == Acknowledge(s, ece)

Echoing(s) == s.ecnState \in {"CE_RCVD", "SENDING_ECE"}

\* The acknowledgement every handler sends: with ECE while the marks last.
Answer(s) ==
  IF Echoing(s)
  THEN [SendEmptyPacket(s, TRUE) EXCEPT !.ecnState = "SENDING_ECE"]
  ELSE SendEmptyPacket(s, FALSE)

-----------------------------------------------------------------------------
(* TcpDctcp::CwndEvent. *)

\* Mutant: NextRxSequence stays rewound.
EarlyAckKept(s, ece) ==
  IF s.delayedAckReserved /\ s.priorRcvNxtFlag
  THEN [SendEmptyPacket([s EXCEPT !.nextRx = s.priorRcvNxt], ece)
          EXCEPT !.rewound = TRUE]
  ELSE s

\* The ACK sent when the CE state changes, with NextRxSequence rewound meanwhile.
EarlyAck(s, ece) ==
  IF s.delayedAckReserved /\ s.priorRcvNxtFlag
  THEN [SendEmptyPacket([s EXCEPT !.nextRx = s.priorRcvNxt], ece)
          EXCEPT !.nextRx = s.nextRx, !.rewound = TRUE]
  ELSE s

\* Mutant: where NextRxSequence was is remembered once.
CeState0to1Once(s) ==
  [(IF s.ceState THEN s ELSE EarlyAck(s, FALSE))
     EXCEPT !.priorRcvNxtFlag = TRUE,
            !.priorRcvNxt = IF s.priorRcvNxtFlag THEN @ ELSE s.nextRx,
            !.ceState = TRUE, !.ecnState = "CE_RCVD"]

CeState0to1(s) ==
  [(IF s.ceState THEN s ELSE EarlyAck(s, FALSE))
     EXCEPT !.priorRcvNxtFlag = TRUE, !.priorRcvNxt = s.nextRx,
            !.ceState = TRUE, !.ecnState = "CE_RCVD"]

\* Mutant: an echo under way goes on until CWR.
CeState1to0Echoing(s) ==
  [(IF s.ceState THEN EarlyAck(s, TRUE) ELSE s)
     EXCEPT !.priorRcvNxtFlag = TRUE, !.priorRcvNxt = s.nextRx, !.ceState = FALSE,
            !.ecnState = IF @ = "CE_RCVD" THEN "IDLE" ELSE @]

CeState1to0(s) ==
  [(IF s.ceState THEN EarlyAck(s, TRUE) ELSE s)
     EXCEPT !.priorRcvNxtFlag = TRUE, !.priorRcvNxt = s.nextRx,
            !.ceState = FALSE, !.ecnState = IF Echoing(s) THEN "IDLE" ELSE @]

UpdateAckReserved(s, delayed) == [s EXCEPT !.delayedAckReserved = delayed]

-----------------------------------------------------------------------------
(* Sending data: every data segment acknowledges, none carries ECE. *)

\* One segment: the first new one answers an echo that is not answered yet, a
\* retransmission leaves the ECN state alone.
SendDataPacket(s, isRetransmission) ==
  LET a == Acknowledge(s, FALSE)
      c == IF s.ecnState = "ECE_RCVD" /\ s.ecnEchoSeq > s.ecnCWRSeq
           THEN [a EXCEPT !.ecnCWRSeq = s.highTx, !.ecnState = "CWR_SENT", !.cut = s.highTx]
           ELSE a
  IN  IF isRetransmission THEN a ELSE [c EXCEPT !.highTx = @ + 1]

DoRetransmit(s) == SendDataPacket(s, TRUE)

\* Lost segments again (rtx), then n new ones.
SendPendingData(s, rtx, n) ==
  LET r == IF rtx THEN SendDataPacket(s, TRUE) ELSE s
  IN  IF n = 0 THEN r ELSE [SendDataPacket(r, FALSE) EXCEPT !.highTx = @ + n - 1]

-----------------------------------------------------------------------------
(* Receiving.  A packet p has len (0 or 1 segment), seq, ack, and the flags *)
(* ce, cwr and ece.                                                         *)

\* TcpRxBuffer::Add: the segments between NextRxSequence and the first gap.
FirstGap(held, from) == Min({n \in from .. Segments + 1 : n \notin held})

Add(s, p) ==
  LET held == s.ahead \union {p.seq}
      next == FirstGap(held, s.nextRx)
  IN  [s EXCEPT !.nextRx = next, !.ahead = {g \in held : g > next},
                !.mark[p.seq] = IF p.ce THEN "CE" ELSE "ECT",
                !.inCe = IF s.ceState THEN @ \union {p.seq} ELSE @]

\* Mutant: the timer is taken to be running while an ACK is reserved.
DelayUntimed(s) ==
  IF s.delAckCount + 1 >= DelAckMaxCount
  THEN Answer(UpdateAckReserved(s, FALSE))
  ELSE [UpdateAckReserved(s, TRUE)
          EXCEPT !.delAckCount = @ + 1, !.delAckEvent = @ \/ ~s.delayedAckReserved]

\* An in-sequence segment: the ACK waits for another one or for the timer.
Delay(s) ==
  IF s.delAckCount + 1 >= DelAckMaxCount
  THEN Answer(UpdateAckReserved(s, FALSE))
  ELSE [UpdateAckReserved(s, TRUE) EXCEPT !.delAckCount = @ + 1, !.delAckEvent = TRUE]

ReceivedData(s, p) ==
  LET b == Add(s, p)
  IN  IF p.seq < s.nextRx \/ p.seq \in s.ahead THEN Answer(s)
      ELSE IF b.ahead # {} \/ b.nextRx > s.nextRx + 1
      THEN Answer(UpdateAckReserved(b, FALSE))
      ELSE Delay(b)

\* Mutant: every ECE counts, for all that has been sent.
EchoEvery(s, p) ==
  LET a == [s EXCEPT !.head = p.ack]
  IN  IF p.ece
      THEN [a EXCEPT !.ecnEchoSeq = s.highTx, !.ecnState = "ECE_RCVD"]
      ELSE IF s.ecnState = "ECE_RCVD" THEN [a EXCEPT !.ecnState = "IDLE"] ELSE a

\* ReceivedAck up to ProcessAck: what the echo says.
Echo(s, p) ==
  LET a == [s EXCEPT !.head = p.ack]
  IN  IF p.ack > s.head /\ p.ece
      THEN IF s.ecnEchoSeq < p.ack
           THEN [a EXCEPT !.ecnEchoSeq = p.ack, !.ecnState = "ECE_RCVD"] ELSE a
      ELSE IF s.ecnState = "ECE_RCVD" /\ ~p.ece
      THEN [a EXCEPT !.ecnState = "IDLE"] ELSE a

\* fast: ProcessAck retransmits a segment; then SendPendingData (rtx, n).
ReceivedAck(s, p, fast, rtx, n) ==
  LET e == Echo(s, p)
      r == IF fast THEN DoRetransmit(e) ELSE e
      d == IF p.len > 0 THEN ReceivedData(r, p) ELSE r
  IN  SendPendingData(d, rtx, n)

\* DoForwardUp: CWR ends the echo unless this packet began it.
Cwr(s, p) ==
  IF p.cwr /\ s.ecnState # "CE_RCVD" THEN [s EXCEPT !.ecnState = "IDLE"] ELSE s

\* ForwardUp: a mark counts when it is on a packet later than the last one marked.
CeEvent(s, p) ==
  IF p.ce /\ s.ecnCESeq < p.seq
  THEN CeState0to1([s EXCEPT !.ecnCESeq = p.seq, !.ecnState = "CE_RCVD"])
  ELSE CeState1to0(s)

OutOfRange(s, p) == p.len > 0 /\ p.seq + 1 < s.nextRx

ForwardUp(s, p, fast, rtx, n) ==
  LET c == Cwr(CeEvent(s, p), p)
  IN  IF OutOfRange(s, p) THEN SendEmptyPacket(s, FALSE)
      ELSE IF p.ack < s.head THEN c
      ELSE ReceivedAck(c, p, fast, rtx, n)

-----------------------------------------------------------------------------
(* The environment: what the peer and the path may deliver. *)

PeerSeqs(s) == IF InOrder THEN {s.nextRx} ELSE 1 .. (s.nextRx + Window - 1)

\* New data one handler may send: what the windows leave is left open.
Room(s) == 0 .. (OwnSegments + 1 - s.highTx)

\* Whether data is retransmitted after an ACK of ack: only what it leaves out.
Retransmits(s, ack) == IF ack < s.highTx THEN BOOLEAN ELSE {FALSE}

\* CWR is on new data, once an echo has reached the peer.
MayCwr(s, seq) ==
  /\ \E g \in Data : s.first[g] = "ECE"
  /\ \A g \in Data : g >= seq => s.mark[g] = "none"

\* A data segment arrives, acknowledging as well.
ReceiveSegment ==
  \E seq \in PeerSeqs(sock) \intersect Data, ce, cwr \in BOOLEAN :
    /\ cwr => MayCwr(sock, seq)
    /\ \E ack \in sock.head .. sock.highTx, n \in Room(sock) :
       \E fast, rtx \in Retransmits(sock, ack) :
         sock' = ForwardUp(sock, [len |-> 1, seq |-> seq, ack |-> ack, ce |-> ce,
                                  cwr |-> cwr, ece |-> FALSE], fast, rtx, n)

\* A pure ACK arrives: the last one of the handshake, or one of the socket's
\* data, with the sequence number of the peer's next segment.  Pure ACKs of
\* DCTCP are ECN-capable.  Without data the two occasions to retransmit are one.
ReceivePureAck ==
  /\ sock.highTx > 1 \/ (sock.nextRx = 1 /\ sock.ahead = {})
  /\ \E seq \in PeerSeqs(sock), ce, ece \in BOOLEAN, ack \in 1 .. sock.highTx :
       /\ seq <= Segments + 1
       /\ ece => sock.highTx > 1
       /\ \E n \in Room(sock), rtx \in Retransmits(sock, ack) :
            sock' = ForwardUp(sock, [len |-> 0, seq |-> seq, ack |-> ack, ce |-> ce,
                                     cwr |-> FALSE, ece |-> ece], FALSE, rtx, n)

-----------------------------------------------------------------------------
(* Timers and the application. *)

DelAckTimeout ==
  /\ sock.delAckEvent
  /\ sock' = Answer(UpdateAckReserved([sock EXCEPT !.delAckEvent = FALSE], TRUE))

ReTxTimeout == sock.head < sock.highTx /\ sock' = DoRetransmit(sock)

Send == \E n \in Room(sock) \ {0} : sock' = SendPendingData(sock, FALSE, n)

Next == ReceiveSegment \/ ReceivePureAck \/ DelAckTimeout \/ ReTxTimeout \/ Send

Spec == Init /\ [][Next]_sock

-----------------------------------------------------------------------------
(* Properties. *)

\* The reassembly buffer holds what was received and nothing else, whatever the
\* rewinding of NextRxSequence around EarlyAck.
BufferExact ==
  /\ {g \in Data : sock.mark[g] # "none"} = (1 .. sock.nextRx - 1) \union sock.ahead
  /\ sock.nextRx \notin sock.ahead

Unacknowledged == {g \in Data : g < sock.nextRx /\ sock.first[g] = "none"}

OtherState == {g \in Unacknowledged : (g \in sock.inCe) # sock.ceState}

\* Data in sequence that waits for its acknowledgement was received in the
\* present CE state, but for one segment: the oldest that waits, which came just
\* before the state changed and which the rewound ACK has left out.
OnlyOneLeftOut ==
  \A g \in OtherState : sock.rewound /\ \A h \in Unacknowledged : g <= h

\* Data in sequence waits for its acknowledgement with a timer running
\* (DelAckTimeout: "Timeout value for TCP delayed acks"), but for the rewound
\* ACK, which stops the timer and acknowledges less than has been received.
OnlyRewindingUntimed == Unacknowledged # {} => sock.delAckEvent \/ sock.rewound

\* The socket echoes congestion only in the CE state (tcp.rst: "receiver should
\* not send ECE if it doesn't receive packets with CE flags"), whatever became
\* of the peer's CWR.
EchoOnlyMarks == Echoing(sock) => sock.ceState

\* A marked segment is echoed by the ACK that acknowledges it (tcp.rst: "If CE
\* is set in IP header of incoming packet, send congestion notification to the
\* sender by setting ECE").
MarksEchoed == \A g \in Data : sock.mark[g] = "CE" => sock.first[g] # "plain"

\* The window is reduced once per window of data (tcp.rst: "once for every window
\* of data"): everything sent up to the last CWR has been acknowledged.
OncePerWindow ==
  [][sock'.cut # sock.cut => sock'.head > sock.cut]_sock
=============================================================================
