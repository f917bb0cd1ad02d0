------------------------- MODULE DctcpSocketProofs -------------------------
(***************************************************************************)
(* Proofs about DctcpSocket, for every number of segments, window and      *)
(* count of delayed acknowledgements: the marks a socket echoes, its        *)
(* reassembly buffer and delayed-acknowledgement timer, how often it       *)
(* reduces its window, and what a change of CE state leaves out.           *)
(***************************************************************************)
EXTENDS DctcpSocket, WellFoundedInduction, TLAPS

Fields == {"ecnState", "ecnCESeq", "ecnEchoSeq", "ecnCWRSeq", "ceState",
           "delayedAckReserved", "priorRcvNxtFlag", "priorRcvNxt", "nextRx",
           "ahead", "delAckCount", "delAckEvent", "head", "highTx", "mark",
           "first", "inCe", "cut", "rewound"}

\* A record with the fields of a socket.
IsSocket(s) ==
  /\ s = [f \in Fields |-> s[f]]
  /\ s.ceState \in BOOLEAN
  /\ s.delayedAckReserved \in BOOLEAN /\ s.priorRcvNxtFlag \in BOOLEAN

\* The fields that an acknowledgement leaves alone.
SameCe(s, t) ==
  /\ t.ecnState = s.ecnState /\ t.ceState = s.ceState
  /\ t.delayedAckReserved = s.delayedAckReserved
  /\ t.priorRcvNxtFlag = s.priorRcvNxtFlag

\* An ACK leaves the state of the echo alone.
LEMMA AcknowledgeFields ==
  ASSUME NEW s, IsSocket(s), NEW ece
  PROVE  /\ IsSocket(Acknowledge(s, ece))
         /\ SameCe(s, Acknowledge(s, ece))
BY DEF IsSocket, Fields, SameCe, Acknowledge

\* An echo is of a mark.
EchoesMark(s) == Echoing(s) => s.ceState

SocketInv(s) == IsSocket(s) /\ EchoesMark(s)

\* The invariant of the specification.
IInv == SocketInv(sock)

-----------------------------------------------------------------------------
(* One lemma for each function of the code. *)

\* An answer echoes as long as it should.
LEMMA AnswerInv ==
  ASSUME NEW s, IsSocket(s), EchoesMark(s)
  PROVE  SocketInv(Answer(s))
<1>1. CASE Echoing(s)
  <2> DEFINE a == SendEmptyPacket(s, TRUE)
  <2>1. IsSocket(a) /\ SameCe(s, a)
    BY AcknowledgeFields DEF SendEmptyPacket
  <2>2. Answer(s) = [a EXCEPT !.ecnState = "SENDING_ECE"]
    BY <1>1 DEF Answer
  <2>3. IsSocket(Answer(s)) /\ Answer(s).ceState = a.ceState
    BY <2>1, <2>2 DEF IsSocket, Fields
  <2> QED
    BY <1>1, <2>1, <2>3 DEF SocketInv, EchoesMark, Echoing, SameCe
<1>2. CASE ~Echoing(s)
  <2>1. Answer(s) = Acknowledge(s, FALSE)
    BY <1>2 DEF Answer, SendEmptyPacket
  <2>2. IsSocket(Answer(s)) /\ SameCe(s, Answer(s))
    BY <2>1, AcknowledgeFields
  <2> QED
    BY <1>2, <2>2 DEF SocketInv, EchoesMark, Echoing, SameCe
<1> QED
  BY <1>1, <1>2

\* The early ACK leaves it alone too.
LEMMA EarlyAckFields ==
  ASSUME NEW s, IsSocket(s), NEW ece
  PROVE  LET t == EarlyAck(s, ece) IN IsSocket(t) /\ SameCe(s, t)
<1> DEFINE r == [s EXCEPT !.nextRx = s.priorRcvNxt]
           a == SendEmptyPacket(r, ece)
<1>1. CASE s.delayedAckReserved /\ s.priorRcvNxtFlag
  <2>1. IsSocket(r) /\ SameCe(s, r)
    BY DEF IsSocket, Fields, SameCe
  <2>2. IsSocket(a) /\ SameCe(r, a)
    BY <2>1, AcknowledgeFields DEF SendEmptyPacket
  <2>3. EarlyAck(s, ece) = [a EXCEPT !.nextRx = s.nextRx, !.rewound = TRUE]
    BY <1>1 DEF EarlyAck
  <2> HIDE DEF a, r
  <2> QED
    BY <2>1, <2>2, <2>3 DEF IsSocket, Fields, SameCe
<1>2. CASE ~(s.delayedAckReserved /\ s.priorRcvNxtFlag)
  BY <1>2 DEF EarlyAck, SameCe
<1> QED
  BY <1>1, <1>2

\* The echo begins in the CE state,
LEMMA CeState0to1Inv ==
  ASSUME NEW s, IsSocket(s)
  PROVE  SocketInv(CeState0to1(s)) /\ CeState0to1(s).priorRcvNxtFlag = TRUE
<1> DEFINE t == IF s.ceState THEN s ELSE EarlyAck(s, FALSE)
           c == CeState0to1(s)
<1>1. IsSocket(t)
  BY EarlyAckFields
<1>2. c = [t EXCEPT !.priorRcvNxtFlag = TRUE, !.priorRcvNxt = s.nextRx,
                    !.ceState = TRUE, !.ecnState = "CE_RCVD"]
  BY DEF CeState0to1
<1> HIDE DEF t, c
<1>3. IsSocket(c) /\ c.ceState = TRUE /\ c.priorRcvNxtFlag = TRUE
  BY <1>1, <1>2 DEF IsSocket, Fields
<1> QED
  BY <1>3 DEF SocketInv, EchoesMark, c

\* and does not go on out of it.
LEMMA CeState1to0Inv ==
  ASSUME NEW s, IsSocket(s)
  PROVE  SocketInv(CeState1to0(s)) /\ CeState1to0(s).priorRcvNxtFlag = TRUE
<1> DEFINE t == IF s.ceState THEN EarlyAck(s, TRUE) ELSE s
           c == CeState1to0(s)
<1>1. IsSocket(t) /\ SameCe(s, t)
  BY EarlyAckFields DEF SameCe
<1>2. c = [t EXCEPT !.priorRcvNxtFlag = TRUE, !.priorRcvNxt = s.nextRx, !.ceState = FALSE,
                    !.ecnState = IF Echoing(s) THEN "IDLE" ELSE @]
  BY DEF CeState1to0
<1> HIDE DEF t, c
<1>3. /\ IsSocket(c) /\ c.priorRcvNxtFlag = TRUE
      /\ c.ecnState = IF Echoing(s) THEN "IDLE" ELSE t.ecnState
  BY <1>1, <1>2 DEF IsSocket, Fields
<1>4. ~Echoing(c)
  BY <1>1, <1>3 DEF Echoing, SameCe
<1> QED
  BY <1>3, <1>4 DEF SocketInv, EchoesMark, c

\* ForwardUp tells the congestion control of every packet: from then on it knows
\* where NextRxSequence was.
LEMMA CeEventInv ==
  ASSUME NEW s, SocketInv(s), NEW p
  PROVE  SocketInv(CeEvent(s, p)) /\ CeEvent(s, p).priorRcvNxtFlag = TRUE
<1>1. CASE p.ce /\ s.ecnCESeq < p.seq
  <2> DEFINE r == [s EXCEPT !.ecnCESeq = p.seq, !.ecnState = "CE_RCVD"]
  <2>1. IsSocket(r)
    BY DEF SocketInv, IsSocket, Fields
  <2>2. CeEvent(s, p) = CeState0to1(r)
    BY <1>1 DEF CeEvent
  <2> QED
    BY <2>1, <2>2, CeState0to1Inv
<1>2. CASE ~(p.ce /\ s.ecnCESeq < p.seq)
  BY <1>2, CeState1to0Inv DEF CeEvent, SocketInv
<1> QED
  BY <1>1, <1>2

\* What a call may do to the sender's side: the receiver's invariant survives it.
Kept(s, t) == SocketInv(t) /\ t.priorRcvNxtFlag = s.priorRcvNxtFlag

\* CWR only ever ends an echo.
LEMMA CwrInv ==
  ASSUME NEW s, SocketInv(s), NEW p
  PROVE  Kept(s, Cwr(s, p))
<1> DEFINE t == [s EXCEPT !.ecnState = "IDLE"]
<1>1. Kept(s, t)
  BY DEF Kept, SocketInv, IsSocket, Fields, EchoesMark, Echoing
<1> QED
  BY <1>1 DEF Cwr, Kept

\* The sender's side of an ACK replaces the ECN state, never by an echo.
LEMMA EchoInv ==
  ASSUME NEW s, SocketInv(s), NEW p
  PROVE  Kept(s, Echo(s, p))
<1> DEFINE a == [s EXCEPT !.head = p.ack]
           e == [a EXCEPT !.ecnEchoSeq = p.ack, !.ecnState = "ECE_RCVD"]
           i == [a EXCEPT !.ecnState = "IDLE"]
<1>1. Kept(s, a)
  BY DEF Kept, SocketInv, IsSocket, Fields, EchoesMark, Echoing
<1> HIDE DEF a
<1>2. Kept(s, e) /\ Kept(s, i)
  BY <1>1 DEF Kept, SocketInv, IsSocket, Fields, EchoesMark, Echoing
<1>3. Echo(s, p) \in {a, e, i}
  BY DEF Echo, a
<1> QED
  BY <1>1, <1>2, <1>3

\* A data segment begins no echo.
LEMMA SendDataPacketInv ==
  ASSUME NEW s, SocketInv(s), NEW isRetransmission
  PROVE  Kept(s, SendDataPacket(s, isRetransmission))
<1> DEFINE a == Acknowledge(s, FALSE)
           w == [a EXCEPT !.ecnCWRSeq = s.highTx, !.ecnState = "CWR_SENT", !.cut = s.highTx]
           na == [a EXCEPT !.highTx = @ + 1]
           nw == [w EXCEPT !.highTx = @ + 1]
<1>1. IsSocket(a) /\ SameCe(s, a)
  BY AcknowledgeFields DEF SocketInv
<1>2. SendDataPacket(s, isRetransmission) \in {a, na, nw}
  BY DEF SendDataPacket
<1> HIDE DEF a
<1>3. Kept(s, a)
  BY <1>1 DEF Kept, SocketInv, EchoesMark, Echoing, SameCe
<1>4. Kept(s, w)
  BY <1>3 DEF Kept, SocketInv, IsSocket, Fields, EchoesMark, Echoing
<1>5. Kept(s, na)
  BY <1>3 DEF Kept, SocketInv, IsSocket, Fields, EchoesMark, Echoing
<1> HIDE DEF w
<1>6. Kept(s, nw)
  BY <1>4 DEF Kept, SocketInv, IsSocket, Fields, EchoesMark, Echoing
<1> QED
  BY <1>2, <1>3, <1>5, <1>6

\* However much is sent, and sent again.
LEMMA SendPendingDataInv ==
  ASSUME NEW s, SocketInv(s), NEW rtx, NEW n
  PROVE  Kept(s, SendPendingData(s, rtx, n))
<1> DEFINE r == IF rtx THEN SendDataPacket(s, TRUE) ELSE s
           d == SendDataPacket(r, FALSE)
           t == [d EXCEPT !.highTx = @ + n - 1]
<1>1. Kept(s, r)
  BY SendDataPacketInv DEF Kept
<1>2. SendPendingData(s, rtx, n) \in {r, t}
  BY DEF SendPendingData
<1> HIDE DEF r
<1>3. Kept(s, d)
  BY <1>1, SendDataPacketInv DEF Kept
<1> HIDE DEF d
<1>4. Kept(s, t)
  BY <1>3 DEF Kept, SocketInv, IsSocket, Fields, EchoesMark, Echoing
<1> QED
  BY <1>1, <1>2, <1>4

\* What UpdateAckReserved leaves to an answer.
LEMMA AnswerReserved ==
  ASSUME NEW s, IsSocket(s), EchoesMark(s), NEW delayed \in BOOLEAN
  PROVE  SocketInv(Answer(UpdateAckReserved(s, delayed)))
<1> DEFINE u == UpdateAckReserved(s, delayed)
<1>1. IsSocket(u) /\ EchoesMark(u)
  BY DEF UpdateAckReserved, IsSocket, Fields, EchoesMark, Echoing
<1> QED
  BY <1>1, AnswerInv

\* An ACK that waits does not change the echo.
LEMMA DelayInv ==
  ASSUME NEW s, IsSocket(s), EchoesMark(s)
  PROVE  SocketInv(Delay(s))
<1>1. CASE s.delAckCount + 1 >= DelAckMaxCount
  BY <1>1, AnswerReserved DEF Delay
<1>2. CASE ~(s.delAckCount + 1 >= DelAckMaxCount)
  <2> DEFINE d == [UpdateAckReserved(s, TRUE)
                     EXCEPT !.delAckCount = @ + 1, !.delAckEvent = TRUE]
  <2>1. Delay(s) = d
    BY <1>2 DEF Delay
  <2>2. SocketInv(d)
    BY DEF UpdateAckReserved, SocketInv, IsSocket, Fields, EchoesMark, Echoing
  <2> QED
    BY <2>1, <2>2
<1> QED
  BY <1>1, <1>2

\* Nor does the data taken.
LEMMA ReceivedDataInv ==
  ASSUME NEW s, SocketInv(s), NEW p
  PROVE  SocketInv(ReceivedData(s, p))
<1> DEFINE b == Add(s, p)
<1>1. IsSocket(b) /\ EchoesMark(b)
  <2> DEFINE held == s.ahead \union {p.seq}
             next == FirstGap(held, s.nextRx)
             rest == {g \in held : g > next}
             m == [s.mark EXCEPT ![p.seq] = IF p.ce THEN "CE" ELSE "ECT"]
             h == IF s.ceState THEN s.inCe \union {p.seq} ELSE s.inCe
  <2>1. b = [s EXCEPT !.nextRx = next, !.ahead = rest, !.mark = m,
                      !.inCe = h]
    BY DEF Add, SocketInv, IsSocket, Fields
  <2> HIDE DEF b, rest, next, m, h
  <2> QED
    BY <2>1 DEF SocketInv, IsSocket, Fields, EchoesMark, Echoing
<1>2. SocketInv(Answer(s))
  BY AnswerInv DEF SocketInv
<1>3. SocketInv(Answer(UpdateAckReserved(b, FALSE))) /\ SocketInv(Delay(b))
  BY <1>1, AnswerReserved, DelayInv
<1>4. ReceivedData(s, p) \in {Answer(s), Answer(UpdateAckReserved(b, FALSE)), Delay(b)}
  BY DEF ReceivedData
<1> QED
  BY <1>2, <1>3, <1>4

\* The calls of ReceivedAck, in their order.
LEMMA ReceivedAckInv ==
  ASSUME NEW s, SocketInv(s), s.priorRcvNxtFlag = TRUE,
         NEW p, NEW fast, NEW rtx, NEW n
  PROVE  SocketInv(ReceivedAck(s, p, fast, rtx, n))
<1> DEFINE e == Echo(s, p)
           r == IF fast THEN DoRetransmit(e) ELSE e
           d == IF p.len > 0 THEN ReceivedData(r, p) ELSE r
<1>1. SocketInv(e) /\ e.priorRcvNxtFlag = TRUE
  BY EchoInv DEF Kept
<1> HIDE DEF e
<1>2. SocketInv(r) /\ r.priorRcvNxtFlag = TRUE
  BY <1>1, SendDataPacketInv DEF Kept, DoRetransmit
<1> HIDE DEF r
<1>3. SocketInv(d)
  BY <1>2, ReceivedDataInv
<1>4. ReceivedAck(s, p, fast, rtx, n) = SendPendingData(d, rtx, n)
  BY DEF ReceivedAck, d, r, e
<1> HIDE DEF d
<1> QED
  BY <1>3, <1>4, SendPendingDataInv DEF Kept

\* Every way out of ForwardUp.
LEMMA ForwardUpInv ==
  ASSUME NEW s, SocketInv(s), NEW p, NEW fast, NEW rtx, NEW n
  PROVE  SocketInv(ForwardUp(s, p, fast, rtx, n))
<1> DEFINE c == Cwr(CeEvent(s, p), p)
           a == SendEmptyPacket(s, FALSE)
<1>1. SocketInv(c) /\ c.priorRcvNxtFlag = TRUE
  BY CeEventInv, CwrInv DEF Kept
<1>2. IsSocket(a) /\ SameCe(s, a)
  BY AcknowledgeFields DEF SendEmptyPacket, SocketInv
<1>3. ForwardUp(s, p, fast, rtx, n) \in {a, c, ReceivedAck(c, p, fast, rtx, n)}
  BY DEF ForwardUp
<1> HIDE DEF a, c
<1>4. SocketInv(a)
  BY <1>2 DEF SocketInv, EchoesMark, Echoing, SameCe
<1>5. SocketInv(ReceivedAck(c, p, fast, rtx, n))
  BY <1>1, ReceivedAckInv
<1> QED
  BY <1>1, <1>3, <1>4, <1>5

-----------------------------------------------------------------------------
(* The specification. *)

\* A new socket echoes nothing, whatever the leftover flag.
LEMMA InitIInv == Init => IInv
<1> SUFFICES ASSUME Init PROVE IInv
  OBVIOUS
<1>1. /\ sock.ecnState = "IDLE" /\ sock.ceState = FALSE
      /\ sock.delayedAckReserved = FALSE /\ sock.priorRcvNxtFlag \in BOOLEAN
  BY DEF Init
<1>2. sock = [f \in Fields |-> sock[f]]
  <2> DEFINE none == [g \in Data |-> "none"]
  <2> HIDE DEF none
  <2> QED
    BY DEF Init, Fields, none
<1> QED
  BY <1>1, <1>2 DEF IInv, SocketInv, IsSocket, EchoesMark, Echoing

\* Every step of the socket preserves the invariant.
LEMMA NextIInv == IInv /\ [Next]_sock => IInv'
<1> SUFFICES ASSUME SocketInv(sock), [Next]_sock
             PROVE  SocketInv(sock')
  BY DEF IInv
<1>1. CASE ReceiveSegment
  BY <1>1, ForwardUpInv DEF ReceiveSegment
<1>2. CASE ReceivePureAck
  BY <1>2, ForwardUpInv DEF ReceivePureAck
<1>3. CASE DelAckTimeout
  <2> DEFINE t == [sock EXCEPT !.delAckEvent = FALSE]
  <2>1. IsSocket(t) /\ EchoesMark(t)
    BY DEF SocketInv, IsSocket, Fields, EchoesMark, Echoing
  <2> QED
    BY <1>3, <2>1, AnswerReserved DEF DelAckTimeout
<1>4. CASE ReTxTimeout
  BY <1>4, SendDataPacketInv DEF ReTxTimeout, DoRetransmit, Kept
<1>5. CASE Send
  BY <1>5, SendPendingDataInv DEF Send, Kept
<1>6. CASE UNCHANGED sock
  BY <1>6
<1> QED
  BY <1>1, <1>2, <1>3, <1>4, <1>5, <1>6 DEF Next

\* The invariant always holds.
LEMMA SpecIInv == Spec => []IInv
BY InitIInv, NextIInv, PTL DEF Spec

\* CwndEvent and DoForwardUp: the socket echoes congestion only in the CE state.
THEOREM DctcpEchoesOnlyMarks == Spec => []EchoOnlyMarks
<1>1. IInv => EchoOnlyMarks
  BY DEF IInv, SocketInv, EchoesMark, EchoOnlyMarks
<1> QED
  BY <1>1, SpecIInv, PTL

-----------------------------------------------------------------------------
(* What the receiver keeps for the data, and the sender for the echo.  The  *)
(* calls of a handler change one side or the other, so each call comes with *)
(* the side it leaves alone.                                                *)

SameRx(s, t) == t.nextRx = s.nextRx /\ t.ahead = s.ahead /\ t.mark = s.mark

SameTx(s, t) ==
  /\ t.head = s.head /\ t.highTx = s.highTx /\ t.cut = s.cut
  /\ t.ecnEchoSeq = s.ecnEchoSeq /\ t.ecnCWRSeq = s.ecnCWRSeq

\* A call that touches neither side.
Quiet(s, t) == IsSocket(t) /\ SameRx(s, t) /\ SameTx(s, t)

\* Data in sequence and unacknowledged waits with a timer, or behind a rewound ACK.
Waiting(s) == {g \in Data : g < s.nextRx /\ s.first[g] = "none"}
Timed(s) == Waiting(s) # {} => s.delAckEvent \/ s.rewound

LEMMA AcknowledgeQuiet ==
  ASSUME NEW s, IsSocket(s), NEW ece
  PROVE  Quiet(s, Acknowledge(s, ece)) /\ Waiting(Acknowledge(s, ece)) = {}
<1> DEFINE given == [g \in Data |-> IF g < s.nextRx /\ s.first[g] = "none"
                                   THEN IF ece THEN "ECE" ELSE "plain"
                                   ELSE s.first[g]]
           kept == {g \in s.inCe : g >= s.nextRx}
           a == Acknowledge(s, ece)
<1>1. \A g \in Data : g < s.nextRx => given[g] # "none"
  OBVIOUS
<1>2. a = [s EXCEPT !.delAckEvent = FALSE, !.delAckCount = 0,
                    !.inCe = kept, !.rewound = FALSE, !.first = given]
  BY DEF Acknowledge, IsSocket, Fields
<1> HIDE DEF given, kept, a
<1>3. Quiet(s, a) /\ a.first = given /\ a.nextRx = s.nextRx
  BY <1>2 DEF Quiet, SameRx, SameTx, IsSocket, Fields
<1> QED
  BY <1>1, <1>3 DEF Waiting, a

LEMMA AnswerQuiet ==
  ASSUME NEW s, IsSocket(s)
  PROVE  Quiet(s, Answer(s)) /\ Timed(Answer(s))
<1> DEFINE a == SendEmptyPacket(s, TRUE)
           b == SendEmptyPacket(s, FALSE)
           e == [a EXCEPT !.ecnState = "SENDING_ECE"]
<1>1. Quiet(s, a) /\ Waiting(a) = {} /\ Quiet(s, b) /\ Waiting(b) = {}
  BY AcknowledgeQuiet DEF SendEmptyPacket
<1>2. Answer(s) \in {e, b}
  BY DEF Answer
<1> HIDE DEF a, b
<1>3. Quiet(s, e) /\ e.first = a.first /\ e.nextRx = a.nextRx
  BY <1>1 DEF Quiet, SameRx, SameTx, IsSocket, Fields
<1>4. Waiting(e) = {}
  BY <1>1, <1>3 DEF Waiting
<1> QED
  BY <1>1, <1>2, <1>3, <1>4 DEF Timed

LEMMA ReservedQuiet ==
  ASSUME NEW s, IsSocket(s), NEW delayed \in BOOLEAN
  PROVE  Quiet(s, UpdateAckReserved(s, delayed))
BY DEF UpdateAckReserved, Quiet, SameRx, SameTx, IsSocket, Fields

\* NextRxSequence is put back, and the ACK is known to have been a rewound one.
LEMMA EarlyAckQuiet ==
  ASSUME NEW s, IsSocket(s), Timed(s), NEW ece
  PROVE  Quiet(s, EarlyAck(s, ece)) /\ Timed(EarlyAck(s, ece))
<1> DEFINE r == [s EXCEPT !.nextRx = s.priorRcvNxt]
           a == SendEmptyPacket(r, ece)
           b == [a EXCEPT !.nextRx = s.nextRx, !.rewound = TRUE]
<1>1. IsSocket(r) /\ SameTx(s, r) /\ r.ahead = s.ahead /\ r.mark = s.mark
  BY DEF IsSocket, Fields, SameTx
<1>2. Quiet(r, a)
  BY <1>1, AcknowledgeQuiet DEF SendEmptyPacket
<1>3. EarlyAck(s, ece) \in {b, s}
  BY DEF EarlyAck
<1> HIDE DEF r, a
<1>4. Quiet(s, b) /\ b.rewound = TRUE
  BY <1>1, <1>2 DEF Quiet, SameRx, SameTx, IsSocket, Fields
<1>5. Quiet(s, s)
  BY DEF Quiet, SameRx, SameTx
<1> QED
  BY <1>3, <1>4, <1>5 DEF Timed

\* The congestion control, told of a packet.
LEMMA CeStateQuiet ==
  ASSUME NEW s, IsSocket(s), Timed(s), NEW ece, NEW ce \in BOOLEAN, NEW state,
         NEW early \in BOOLEAN
  PROVE  LET t == IF early THEN EarlyAck(s, ece) ELSE s
             c == [t EXCEPT !.priorRcvNxtFlag = TRUE, !.priorRcvNxt = s.nextRx,
                            !.ceState = ce, !.ecnState = state]
         IN  Quiet(s, c) /\ Timed(c)
<1> DEFINE t == IF early THEN EarlyAck(s, ece) ELSE s
           c == [t EXCEPT !.priorRcvNxtFlag = TRUE, !.priorRcvNxt = s.nextRx,
                          !.ceState = ce, !.ecnState = state]
<1>1. Quiet(s, s)
  BY DEF Quiet, SameRx, SameTx
<1>2. Quiet(s, t) /\ Timed(t)
  BY <1>1, EarlyAckQuiet
<1> HIDE DEF t
<1>3. Quiet(s, c) /\ c.nextRx = t.nextRx /\ c.first = t.first
        /\ c.delAckEvent = t.delAckEvent /\ c.rewound = t.rewound
  BY <1>2 DEF Quiet, SameRx, SameTx, IsSocket, Fields
<1>4. Timed(c)
  BY <1>2, <1>3 DEF Timed, Waiting
<1> QED
  BY <1>3, <1>4 DEF t

LEMMA CeEventQuiet ==
  ASSUME NEW s, IsSocket(s), Timed(s), NEW p
  PROVE  Quiet(s, CeEvent(s, p)) /\ Timed(CeEvent(s, p))
<1>1. CASE p.ce /\ s.ecnCESeq < p.seq
  <2> DEFINE r == [s EXCEPT !.ecnCESeq = p.seq, !.ecnState = "CE_RCVD"]
  <2>1. Quiet(s, r) /\ r.nextRx = s.nextRx /\ r.first = s.first
          /\ r.delAckEvent = s.delAckEvent /\ r.rewound = s.rewound
    BY DEF Quiet, SameRx, SameTx, IsSocket, Fields
  <2>2. CeEvent(s, p) = CeState0to1(r)
    BY <1>1 DEF CeEvent
  <2> HIDE DEF r
  <2>3. IsSocket(r) /\ Timed(r)
    BY <2>1 DEF Timed, Waiting, Quiet, SameRx
  <2>e. (~r.ceState) \in BOOLEAN
    OBVIOUS
  <2> DEFINE t == IF ~r.ceState THEN EarlyAck(r, FALSE) ELSE r
             c == [t EXCEPT !.priorRcvNxtFlag = TRUE, !.priorRcvNxt = r.nextRx,
                            !.ceState = TRUE, !.ecnState = "CE_RCVD"]
  <2>4. Quiet(r, c) /\ Timed(c)
    BY <2>3, <2>e, CeStateQuiet
  <2>5. CeState0to1(r) = c
    BY DEF CeState0to1
  <2> HIDE DEF c
  <2> QED
    BY <2>1, <2>2, <2>4, <2>5 DEF Quiet, SameRx, SameTx
<1>2. CASE ~(p.ce /\ s.ecnCESeq < p.seq)
  <2> DEFINE t == IF s.ceState THEN EarlyAck(s, TRUE) ELSE s
             state == IF Echoing(s) THEN "IDLE" ELSE t.ecnState
             c == [t EXCEPT !.priorRcvNxtFlag = TRUE, !.priorRcvNxt = s.nextRx,
                            !.ceState = FALSE, !.ecnState = state]
  <2>1. s.ceState \in BOOLEAN
    BY DEF IsSocket
  <2> HIDE DEF state
  <2>2. Quiet(s, c) /\ Timed(c)
    BY <2>1, CeStateQuiet
  <2>3. CeState1to0(s) = c
    BY DEF CeState1to0, state
  <2> HIDE DEF c
  <2> QED
    BY <1>2, <2>2, <2>3 DEF CeEvent
<1> QED
  BY <1>1, <1>2

LEMMA CwrQuiet ==
  ASSUME NEW s, IsSocket(s), Timed(s), NEW p
  PROVE  Quiet(s, Cwr(s, p)) /\ Timed(Cwr(s, p))
<1> DEFINE t == [s EXCEPT !.ecnState = "IDLE"]
<1>1. Quiet(s, t) /\ Quiet(s, s) /\ t.first = s.first
        /\ t.delAckEvent = s.delAckEvent /\ t.rewound = s.rewound
  BY DEF Quiet, SameRx, SameTx, IsSocket, Fields
<1>2. Cwr(s, p) \in {s, t}
  BY DEF Cwr
<1> HIDE DEF t
<1>3. Timed(t)
  BY <1>1 DEF Timed, Waiting, Quiet, SameRx
<1> QED
  BY <1>1, <1>2, <1>3

\* An ACK held starts the timer; the timer is all that Delay relies on.
LEMMA DelayQuiet ==
  ASSUME NEW s, IsSocket(s)
  PROVE  Quiet(s, Delay(s)) /\ Timed(Delay(s))
<1> DEFINE u == UpdateAckReserved(s, FALSE)
           w == UpdateAckReserved(s, TRUE)
           d == [w EXCEPT !.delAckCount = @ + 1, !.delAckEvent = TRUE]
<1>1. Quiet(s, u) /\ Quiet(s, w)
  BY ReservedQuiet
<1>2. Delay(s) \in {Answer(u), d}
  BY DEF Delay
<1> HIDE DEF u, w
<1>3. Quiet(u, Answer(u)) /\ Timed(Answer(u))
  BY <1>1, AnswerQuiet DEF Quiet
<1>4. Quiet(s, Answer(u))
  BY <1>1, <1>3 DEF Quiet, SameRx, SameTx
<1>5. Quiet(s, d) /\ d.delAckEvent = TRUE
  BY <1>1 DEF Quiet, SameRx, SameTx, IsSocket, Fields
<1> QED
  BY <1>2, <1>3, <1>4, <1>5 DEF Timed

-----------------------------------------------------------------------------
(* The sender: an echo is for data acknowledged, so the reduction it asks   *)
(* for comes after all that was sent at the last one has been acknowledged. *)

SenderInv(s) ==
  /\ s.head \in Int /\ s.highTx \in Int /\ s.cut \in Int /\ s.ecnEchoSeq \in Int
  /\ s.ecnEchoSeq <= s.head /\ s.ecnCWRSeq = s.cut

\* A call that sends, or is told of an ACK: it leaves the receiver's data alone.
Sends(s, t) ==
  /\ IsSocket(t) /\ SameRx(s, t) /\ SenderInv(t)
  /\ t.cut = s.cut \/ t.head > s.cut

LEMMA EchoSends ==
  ASSUME NEW s, IsSocket(s), Timed(s), SenderInv(s), NEW p, p.ack \in Int, p.ack >= s.head
  PROVE  Sends(s, Echo(s, p)) /\ Timed(Echo(s, p)) /\ Echo(s, p).cut = s.cut
<1> DEFINE a == [s EXCEPT !.head = p.ack]
           e == [a EXCEPT !.ecnEchoSeq = p.ack, !.ecnState = "ECE_RCVD"]
           i == [a EXCEPT !.ecnState = "IDLE"]
<1>1. IsSocket(a) /\ SameRx(s, a) /\ SenderInv(a) /\ a.cut = s.cut /\ a.first = s.first
        /\ a.delAckEvent = s.delAckEvent /\ a.rewound = s.rewound /\ a.head = p.ack
  BY DEF IsSocket, SameRx, SenderInv, Fields
<1>2. Echo(s, p) \in {a, e, i}
  BY DEF Echo
<1> HIDE DEF a
<1>b. IsSocket(e) /\ SameRx(s, e) /\ SenderInv(e) /\ e.cut = s.cut /\ e.first = s.first
        /\ e.delAckEvent = s.delAckEvent /\ e.rewound = s.rewound
  <2>1. /\ IsSocket(e) /\ SameRx(a, e) /\ e.cut = a.cut /\ e.first = a.first
        /\ e.delAckEvent = a.delAckEvent /\ e.rewound = a.rewound /\ e.head = a.head
        /\ e.highTx = a.highTx /\ e.ecnCWRSeq = a.ecnCWRSeq /\ e.ecnEchoSeq = p.ack
    BY <1>1 DEF IsSocket, SameRx, Fields
  <2> HIDE DEF e
  <2> QED
    BY <1>1, <2>1 DEF SameRx, SenderInv
<1>c. IsSocket(i) /\ SameRx(s, i) /\ SenderInv(i) /\ i.cut = s.cut /\ i.first = s.first
        /\ i.delAckEvent = s.delAckEvent /\ i.rewound = s.rewound
  BY <1>1 DEF IsSocket, SameRx, SenderInv, Fields
<1> HIDE DEF e, i
<1>3. ASSUME NEW t \in {a, e, i}
      PROVE  /\ Sends(s, t) /\ t.cut = s.cut /\ t.first = s.first
             /\ t.delAckEvent = s.delAckEvent /\ t.rewound = s.rewound
  BY <1>1, <1>b, <1>c DEF Sends
<1>4. ASSUME NEW t \in {a, e, i} PROVE Timed(t)
  BY <1>3 DEF Sends, Timed, Waiting, SameRx
<1> QED
  BY <1>2, <1>3, <1>4

LEMMA SendDataPacketSends ==
  ASSUME NEW s, IsSocket(s), SenderInv(s), NEW isRetransmission
  PROVE  LET t == SendDataPacket(s, isRetransmission)
         IN  Sends(s, t) /\ Timed(t) /\ t.head = s.head /\ (isRetransmission => t.cut = s.cut)
<1> DEFINE a == Acknowledge(s, FALSE)
           w == [a EXCEPT !.ecnCWRSeq = s.highTx, !.ecnState = "CWR_SENT", !.cut = s.highTx]
           na == [a EXCEPT !.highTx = @ + 1]
           nw == [w EXCEPT !.highTx = @ + 1]
           t == SendDataPacket(s, isRetransmission)
<1>1. Quiet(s, a) /\ Waiting(a) = {}
  BY AcknowledgeQuiet
<1>2. /\ t \in {a, na, nw} /\ (isRetransmission => t = a)
      /\ t = nw => s.ecnEchoSeq > s.ecnCWRSeq \/ t \in {a, na}
  BY DEF SendDataPacket
<1> HIDE DEF a, t
<1>3. ASSUME NEW u \in {a, na}
      PROVE  Sends(s, u) /\ u.head = s.head /\ u.cut = s.cut /\ u.first = a.first
  BY <1>1 DEF Quiet, Sends, SameTx, SenderInv, IsSocket, SameRx, Fields
<1>4. IsSocket(w) /\ SameRx(s, w) /\ w.head = s.head /\ w.cut = s.highTx
        /\ w.ecnCWRSeq = s.highTx /\ w.highTx = s.highTx /\ w.ecnEchoSeq = s.ecnEchoSeq
        /\ w.first = a.first
  BY <1>1 DEF Quiet, SameTx, SameRx, IsSocket, Fields
<1> HIDE DEF w
<1>5. IsSocket(nw) /\ SameRx(s, nw) /\ SenderInv(nw) /\ nw.head = s.head /\ nw.first = a.first
  BY <1>4 DEF SenderInv, SameRx, IsSocket, Fields
<1>6. s.ecnEchoSeq > s.ecnCWRSeq => Sends(s, nw)
  BY <1>5 DEF Sends, SenderInv
<1>7. t.first = a.first /\ t.head = s.head /\ Sends(s, t) /\ (isRetransmission => t.cut = s.cut)
  BY <1>2, <1>3, <1>5, <1>6
<1>8. Timed(t)
  <2>1. t.nextRx = a.nextRx
    BY <1>1, <1>7 DEF Sends, Quiet, SameRx
  <2> QED
    BY <1>1, <1>7, <2>1 DEF Timed, Waiting
<1> QED
  BY <1>7, <1>8 DEF t

LEMMA SendPendingDataSends ==
  ASSUME NEW s, IsSocket(s), Timed(s), SenderInv(s), NEW rtx, NEW n \in Int
  PROVE  LET t == SendPendingData(s, rtx, n) IN Sends(s, t) /\ Timed(t)
<1> DEFINE r == IF rtx THEN SendDataPacket(s, TRUE) ELSE s
           d == SendDataPacket(r, FALSE)
           t == [d EXCEPT !.highTx = @ + n - 1]
<1>1. Sends(s, s)
  BY DEF Sends, SameRx
<1>2. Sends(s, r) /\ Timed(r) /\ r.cut = s.cut /\ r.head = s.head
  BY <1>1, SendDataPacketSends
<1>3. SendPendingData(s, rtx, n) \in {r, t}
  BY DEF SendPendingData
<1> HIDE DEF r
<1>4. Sends(r, d) /\ Timed(d)
  BY <1>2, SendDataPacketSends DEF Sends
<1> HIDE DEF d
<1>5. /\ IsSocket(t) /\ SameRx(d, t) /\ t.head = d.head /\ t.cut = d.cut
      /\ t.ecnEchoSeq = d.ecnEchoSeq /\ t.ecnCWRSeq = d.ecnCWRSeq /\ t.first = d.first
      /\ t.delAckEvent = d.delAckEvent /\ t.rewound = d.rewound
      /\ t.highTx = d.highTx + n - 1
  BY <1>4 DEF Sends, SameRx, IsSocket, Fields
<1> HIDE DEF t
<1>7. Sends(s, t)
  BY <1>2, <1>4, <1>5 DEF Sends, SenderInv, SameRx
<1>6. Timed(t)
  BY <1>4, <1>5 DEF Timed, Waiting, SameRx
<1> QED
  BY <1>2, <1>3, <1>6, <1>7 DEF t

-----------------------------------------------------------------------------
(* The reassembly buffer. *)

Earlier == {pair \in Nat \X Nat : pair[1] < pair[2]}

\* A set of natural numbers has a least one.
LEMMA LeastNatural ==
  ASSUME NEW T \in SUBSET Nat, T # {}
  PROVE  Min(T) \in T /\ \A y \in T : Min(T) <= y
<1>1. OpToRel(<, Nat) = Earlier
  BY Zenon DEF OpToRel, Earlier
<1>2. IsWellFoundedOn(Earlier, Nat)
  BY <1>1, NatLessThanWellFounded, Zenon
<1>3. PICK x \in T : \A y \in T : ~ (<<y, x>> \in Earlier)
  BY <1>2, WFMin, Zenon
<1>4. ASSUME NEW y \in T PROVE x <= y
  <2>1. x \in Nat /\ y \in Nat /\ ~(y < x)
    BY <1>3 DEF Earlier
  <2> QED
    BY <2>1
<1> QED
  BY <1>4 DEF Min

\* The first gap is where the data held ends, no later than behind all of it.
LEMMA FirstGapIsGap ==
  ASSUME NEW held \in SUBSET Data, NEW from \in 1 .. Segments + 1
  PROVE  /\ FirstGap(held, from) \in from .. Segments + 1
         /\ FirstGap(held, from) \notin held
         /\ \A n \in from .. FirstGap(held, from) - 1 : n \in held
<1> DEFINE T == {n \in from .. Segments + 1 : n \notin held}
<1>0. Segments \in Nat
  BY SocketAssumption
<1>1. Segments + 1 \in T
  BY <1>0 DEF Data
<1>2. T \in SUBSET Nat /\ T # {}
  BY <1>0, <1>1
<1>3. Min(T) \in T /\ \A y \in T : Min(T) <= y
  BY <1>2, LeastNatural
<1>4. FirstGap(held, from) = Min(T)
  BY DEF FirstGap
<1> DEFINE m == Min(T)
<1> HIDE DEF m
<1>5. m \in from .. Segments + 1 /\ m \notin held /\ \A y \in T : m <= y
  BY <1>3 DEF m
<1>6. ASSUME NEW n \in from .. m - 1 PROVE n \in held
  BY <1>0, <1>5, <1>6
<1> QED
  BY <1>4, <1>5, <1>6 DEF m

\* The buffer holds what was received and nothing else.
Buffer(s) ==
  /\ s.nextRx \in 1 .. Segments + 1 /\ s.ahead \subseteq Data
  /\ s.mark = [g \in Data |-> s.mark[g]]
  /\ {g \in Data : s.mark[g] # "none"} = (1 .. s.nextRx - 1) \union s.ahead
  /\ s.nextRx \notin s.ahead

LEMMA SameBuffer ==
  ASSUME NEW s, NEW t, SameRx(s, t), Buffer(s)
  PROVE  Buffer(t)
BY DEF SameRx, Buffer

\* A segment in the window and not held is taken, with what it joins up.
LEMMA AddBuffer ==
  ASSUME NEW s, IsSocket(s), Buffer(s), NEW p, p.seq \in Data,
         ~(p.seq < s.nextRx), p.seq \notin s.ahead
  PROVE  IsSocket(Add(s, p)) /\ Buffer(Add(s, p)) /\ SameTx(s, Add(s, p))
<1> DEFINE held == s.ahead \union {p.seq}
           next == FirstGap(held, s.nextRx)
           rest == {g \in held : g > next}
           point == IF p.ce THEN "CE" ELSE "ECT"
           m == [s.mark EXCEPT ![p.seq] = point]
           h == IF s.ceState THEN s.inCe \union {p.seq} ELSE s.inCe
           b == Add(s, p)
<1>0. Segments \in Nat /\ p.seq \in 1 .. Segments /\ held \subseteq Data
  BY SocketAssumption DEF Data, Buffer
<1>1. next \in s.nextRx .. Segments + 1 /\ next \notin held
        /\ \A n \in s.nextRx .. next - 1 : n \in held
  BY <1>0, FirstGapIsGap DEF Buffer
<1>2. b = [s EXCEPT !.nextRx = next, !.ahead = rest, !.mark = m, !.inCe = h]
  BY DEF Add, IsSocket, Fields
<1>3. m = [g \in Data |-> m[g]] /\ point # "none"
        /\ \A g \in Data : m[g] = IF g = p.seq THEN point ELSE s.mark[g]
  BY DEF Buffer
<1> HIDE DEF m, next, point, h
<1>4. {g \in Data : m[g] # "none"} = (1 .. s.nextRx - 1) \union held
  <2>1. {g \in Data : m[g] # "none"} = {g \in Data : s.mark[g] # "none"} \union {p.seq}
    BY <1>3
  <2> QED
    BY <2>1 DEF Buffer
<1>5. (1 .. s.nextRx - 1) \union held = (1 .. next - 1) \union rest
  <2>1. ASSUME NEW g \in Int PROVE g \in held => g # next /\ g \in 1 .. Segments
    BY <1>0, <1>1 DEF Data
  <2>2. s.nextRx \in 1 .. Segments + 1 /\ next \in Int
    BY <1>0, <1>1 DEF Buffer
  <2>3. ASSUME NEW g \in (1 .. s.nextRx - 1) \union held PROVE g \in (1 .. next - 1) \union rest
    <3>1. CASE g \in 1 .. s.nextRx - 1
      BY <1>0, <1>1, <2>2, <3>1
    <3>2. CASE g \in held
      <4>1. g \in Int /\ g >= 1 /\ g # next
        BY <1>0, <1>1, <3>2 DEF Data
      <4> QED
        BY <3>2, <2>2, <4>1
    <3> QED
      BY <2>3, <3>1, <3>2
  <2>4. ASSUME NEW g \in (1 .. next - 1) \union rest PROVE g \in (1 .. s.nextRx - 1) \union held
    <3>1. CASE g \in 1 .. next - 1
      <4>1. g \in 1 .. s.nextRx - 1 \/ g \in s.nextRx .. next - 1
        BY <2>2, <3>1
      <4> QED
        BY <1>1, <4>1
    <3>2. CASE g \in rest
      BY <3>2
    <3> QED
      BY <2>4, <3>1, <3>2
  <2> QED
    BY <2>3, <2>4
<1>6. next \in 1 .. Segments + 1 /\ rest \subseteq Data /\ next \notin rest
  <2>1. s.nextRx \in 1 .. Segments + 1
    BY DEF Buffer
  <2> QED
    BY <1>0, <1>1, <2>1
<1> HIDE DEF rest, held, b
<1>7. /\ IsSocket(b) /\ SameTx(s, b) /\ b.nextRx = next /\ b.ahead = rest /\ b.mark = m
  BY <1>2 DEF IsSocket, SameTx, Fields
<1> QED
  BY <1>3, <1>4, <1>5, <1>6, <1>7 DEF Buffer, b

\* Data out of sequence or a second time is answered at once, other data waits.
LEMMA ReceivedDataBuffer ==
  ASSUME NEW s, IsSocket(s), Buffer(s), NEW p, p.seq \in Data
  PROVE  LET t == ReceivedData(s, p)
         IN  IsSocket(t) /\ Buffer(t) /\ Timed(t) /\ SameTx(s, t)
<1> DEFINE b == Add(s, p)
           u == UpdateAckReserved(b, FALSE)
           t == ReceivedData(s, p)
<1>1. CASE p.seq < s.nextRx \/ p.seq \in s.ahead
  <2>1. t = Answer(s)
    BY <1>1 DEF ReceivedData
  <2>2. Quiet(s, Answer(s)) /\ Timed(Answer(s))
    BY AnswerQuiet
  <2>3. Buffer(Answer(s))
    BY <2>2, SameBuffer DEF Quiet
  <2> QED
    BY <2>1, <2>2, <2>3 DEF Quiet
<1>2. CASE ~(p.seq < s.nextRx \/ p.seq \in s.ahead)
  <2>1. IsSocket(b) /\ Buffer(b) /\ SameTx(s, b)
    BY <1>2, AddBuffer
  <2>2. t \in {Answer(u), Delay(b)}
    BY <1>2 DEF ReceivedData
  <2> HIDE DEF b, t
  <2>3. Quiet(b, u)
    BY <2>1, ReservedQuiet
  <2> HIDE DEF u
  <2>4. Quiet(u, Answer(u)) /\ Timed(Answer(u))
    BY <2>3, AnswerQuiet DEF Quiet
  <2>5. Quiet(b, Answer(u))
    BY <2>3, <2>4 DEF Quiet, SameRx, SameTx
  <2>6. Quiet(b, Delay(b)) /\ Timed(Delay(b))
    BY <2>1, DelayQuiet
  <2>7. Quiet(b, t) /\ Timed(t)
    BY <2>2, <2>4, <2>5, <2>6
  <2>8. Buffer(t) /\ SameTx(s, t)
    BY <2>1, <2>7, SameBuffer DEF Quiet, SameTx
  <2> QED
    BY <2>7, <2>8 DEF Quiet, t
<1> QED
  BY <1>1, <1>2

\* Both sides together.
DataInv(s) == IsSocket(s) /\ Timed(s) /\ SenderInv(s) /\ Buffer(s)
\* What a handler may do to the last reduction.
Reduces(s, t) == t.cut # s.cut => t.head > s.cut

LEMMA QuietData ==
  ASSUME NEW s, DataInv(s), NEW t, Quiet(s, t), Timed(t)
  PROVE  DataInv(t) /\ t.cut = s.cut /\ t.head = s.head
BY SameBuffer DEF DataInv, Quiet, SameTx, SenderInv

LEMMA SendsData ==
  ASSUME NEW s, Buffer(s), NEW t, Sends(s, t), Timed(t)
  PROVE  DataInv(t) /\ Reduces(s, t)
BY SameBuffer DEF DataInv, Sends, Reduces

LEMMA ReceivedAckData ==
  ASSUME NEW s, DataInv(s), NEW p, p.ack \in Int, p.ack >= s.head,
         p.len > 0 => p.seq \in Data, NEW fast, NEW rtx, NEW n \in Int
  PROVE  LET t == ReceivedAck(s, p, fast, rtx, n) IN DataInv(t) /\ Reduces(s, t)
<1> DEFINE e == Echo(s, p)
           r == IF fast THEN DoRetransmit(e) ELSE e
           d == IF p.len > 0 THEN ReceivedData(r, p) ELSE r
           t == SendPendingData(d, rtx, n)
<1>1. DataInv(e) /\ e.cut = s.cut
  BY EchoSends, SendsData DEF DataInv
<1> HIDE DEF e
<1>2. DataInv(r) /\ r.cut = s.cut
  <2>1. CASE fast
    <3>1. r = SendDataPacket(e, TRUE)
      BY <2>1 DEF DoRetransmit
    <3>2. Sends(e, r) /\ Timed(r) /\ r.cut = e.cut
      BY <1>1, <3>1, SendDataPacketSends DEF DataInv
    <3> HIDE DEF r
    <3> QED
      BY <1>1, <3>2, SendsData DEF DataInv
  <2>2. CASE ~fast
    BY <1>1, <2>2
  <2> QED
    BY <2>1, <2>2
<1> HIDE DEF r
<1>3. DataInv(d) /\ d.cut = s.cut
  <2>1. CASE p.len > 0
    <3>1. d = ReceivedData(r, p)
      BY <2>1
    <3>2. IsSocket(d) /\ Buffer(d) /\ Timed(d) /\ SameTx(r, d)
      BY <1>2, <2>1, <3>1, ReceivedDataBuffer DEF DataInv
    <3> HIDE DEF d
    <3> QED
      BY <1>2, <3>2 DEF DataInv, SameTx, SenderInv
  <2>2. CASE ~(p.len > 0)
    BY <1>2, <2>2
  <2> QED
    BY <2>1, <2>2
<1> HIDE DEF d
<1>4. Sends(d, t) /\ Timed(t)
  BY <1>3, SendPendingDataSends DEF DataInv
<1>5. ReceivedAck(s, p, fast, rtx, n) = t
  BY DEF ReceivedAck, d, r, e
<1> HIDE DEF t
<1>6. DataInv(t) /\ Reduces(d, t)
  BY <1>3, <1>4, SendsData DEF DataInv
<1> QED
  BY <1>3, <1>5, <1>6 DEF Reduces

LEMMA ForwardUpData ==
  ASSUME NEW s, DataInv(s), NEW p, p.ack \in Int, p.len > 0 => p.seq \in Data,
         NEW fast, NEW rtx, NEW n \in Int
  PROVE  LET t == ForwardUp(s, p, fast, rtx, n) IN DataInv(t) /\ Reduces(s, t)
<1> DEFINE v == CeEvent(s, p)
           c == Cwr(v, p)
           a == SendEmptyPacket(s, FALSE)
           t == ForwardUp(s, p, fast, rtx, n)
<1>1. DataInv(v) /\ v.cut = s.cut /\ v.head = s.head
  BY CeEventQuiet, QuietData DEF DataInv
<1> HIDE DEF v
<1>2. DataInv(c) /\ c.cut = s.cut /\ c.head = s.head
  <2>1. DataInv(c) /\ c.cut = v.cut /\ c.head = v.head
    BY <1>1, CwrQuiet, QuietData DEF DataInv
  <2> QED
    BY <1>1, <2>1
<1>3. DataInv(a) /\ a.cut = s.cut
  <2>1. Quiet(s, a) /\ Timed(a)
    BY AcknowledgeQuiet DEF SendEmptyPacket, DataInv, Timed
  <2> QED
    BY <2>1, QuietData
<1>4. t = a \/ t = c \/ (~(p.ack < s.head) /\ t = ReceivedAck(c, p, fast, rtx, n))
  BY DEF ForwardUp, c, v
<1> HIDE DEF a, c, t
<1>5. CASE ~(p.ack < s.head) /\ t = ReceivedAck(c, p, fast, rtx, n)
  <2>1. c.head \in Int /\ p.ack >= c.head
    BY <1>2, <1>5 DEF DataInv, SenderInv
  <2>2. DataInv(t) /\ Reduces(c, t)
    BY <1>2, <1>5, <2>1, ReceivedAckData
  <2> QED
    BY <1>2, <2>2 DEF Reduces, t
<1> QED
  BY <1>2, <1>3, <1>4, <1>5 DEF Reduces, t

-----------------------------------------------------------------------------
LEMMA InitDataInv == Init => DataInv(sock)
<1> SUFFICES ASSUME Init PROVE DataInv(sock)
  OBVIOUS
<1>1. IsSocket(sock)
  BY InitIInv DEF IInv, SocketInv
<1> DEFINE none == [g \in Data |-> "none"]
<1>2. /\ sock.nextRx = 1 /\ sock.ahead = {} /\ sock.head = 1 /\ sock.highTx = 1
      /\ sock.cut = 0 /\ sock.ecnEchoSeq = 0 /\ sock.ecnCWRSeq = 0
      /\ sock.mark = none
  <2> HIDE DEF none
  <2> QED
    BY DEF Init, none
<1>3. Timed(sock)
  BY <1>2 DEF Timed, Waiting, Data
<1>4. SenderInv(sock)
  BY <1>2 DEF SenderInv
<1>5. Buffer(sock)
  <2>1. Segments \in Nat
    BY SocketAssumption
  <2>2. {g \in Data : sock.mark[g] # "none"} = {}
    BY <1>2
  <2>3. 1 .. sock.nextRx - 1 = {} /\ sock.mark = [g \in Data |-> sock.mark[g]]
    BY <1>2
  <2> QED
    BY <1>2, <2>1, <2>2, <2>3 DEF Buffer
<1> QED
  BY <1>1, <1>3, <1>4, <1>5 DEF DataInv

LEMMA NextDataInv == DataInv(sock) /\ [Next]_sock => DataInv(sock') /\ Reduces(sock, sock')
<1> SUFFICES ASSUME DataInv(sock), [Next]_sock
             PROVE  DataInv(sock') /\ Reduces(sock, sock')
  OBVIOUS
<1>0. OwnSegments \in Nat /\ sock.head \in Int /\ sock.highTx \in Int
  BY SocketAssumption DEF DataInv, SenderInv
<1>r. Room(sock) \subseteq Int
  BY <1>0 DEF Room
<1>1. CASE ReceiveSegment
  <2>1. PICK seq \in PeerSeqs(sock) \intersect Data, ce, cwr \in BOOLEAN :
          \E ack \in sock.head .. sock.highTx, n \in Room(sock) :
            \E fast, rtx \in Retransmits(sock, ack) :
              sock' = ForwardUp(sock, [len |-> 1, seq |-> seq, ack |-> ack, ce |-> ce,
                                       cwr |-> cwr, ece |-> FALSE], fast, rtx, n)
    BY <1>1 DEF ReceiveSegment
  <2>2. PICK ack \in sock.head .. sock.highTx, n \in Room(sock) :
          \E fast, rtx \in Retransmits(sock, ack) :
            sock' = ForwardUp(sock, [len |-> 1, seq |-> seq, ack |-> ack, ce |-> ce,
                                     cwr |-> cwr, ece |-> FALSE], fast, rtx, n)
    BY <2>1
  <2>3. PICK fast, rtx \in Retransmits(sock, ack) :
            sock' = ForwardUp(sock, [len |-> 1, seq |-> seq, ack |-> ack, ce |-> ce,
                                     cwr |-> cwr, ece |-> FALSE], fast, rtx, n)
    BY <2>2
  <2> DEFINE p == [len |-> 1, seq |-> seq, ack |-> ack, ce |-> ce, cwr |-> cwr, ece |-> FALSE]
  <2>4. p.ack \in Int /\ p.seq \in Data /\ n \in Int
    BY <1>0, <1>r
  <2> HIDE DEF p
  <2>5. sock' = ForwardUp(sock, p, fast, rtx, n)
    BY <2>3 DEF p
  <2> QED
    BY <2>4, <2>5, ForwardUpData
<1>2. CASE ReceivePureAck
  <2>1. PICK seq \in PeerSeqs(sock), ce, ece \in BOOLEAN, ack \in 1 .. sock.highTx :
          \E n \in Room(sock), rtx \in Retransmits(sock, ack) :
            sock' = ForwardUp(sock, [len |-> 0, seq |-> seq, ack |-> ack, ce |-> ce,
                                     cwr |-> FALSE, ece |-> ece], FALSE, rtx, n)
    BY <1>2 DEF ReceivePureAck
  <2>2. PICK n \in Room(sock), rtx \in Retransmits(sock, ack) :
            sock' = ForwardUp(sock, [len |-> 0, seq |-> seq, ack |-> ack, ce |-> ce,
                                     cwr |-> FALSE, ece |-> ece], FALSE, rtx, n)
    BY <2>1
  <2> DEFINE p == [len |-> 0, seq |-> seq, ack |-> ack, ce |-> ce, cwr |-> FALSE, ece |-> ece]
  <2>3. p.ack \in Int /\ ~(p.len > 0) /\ n \in Int
    BY <1>0, <1>r
  <2> HIDE DEF p
  <2>4. sock' = ForwardUp(sock, p, FALSE, rtx, n)
    BY <2>2 DEF p
  <2> QED
    BY <2>3, <2>4, ForwardUpData
<1>3. CASE DelAckTimeout
  <2> DEFINE t == [sock EXCEPT !.delAckEvent = FALSE]
             u == UpdateAckReserved(t, TRUE)
  <2>1. Quiet(sock, t)
    BY DEF DataInv, Quiet, SameRx, SameTx, IsSocket, Fields
  <2>2. sock' = Answer(u)
    BY <1>3 DEF DelAckTimeout
  <2> HIDE DEF t
  <2>3. Quiet(t, u)
    BY <2>1, ReservedQuiet DEF Quiet
  <2> HIDE DEF u
  <2>4. Quiet(u, sock') /\ Timed(sock')
    BY <2>2, <2>3, AnswerQuiet DEF Quiet
  <2>5. Quiet(sock, sock')
    BY <2>1, <2>3, <2>4 DEF Quiet, SameRx, SameTx
  <2> QED
    BY <2>4, <2>5, QuietData DEF Reduces
<1>4. CASE ReTxTimeout
  <2>1. sock' = SendDataPacket(sock, TRUE)
    BY <1>4 DEF ReTxTimeout, DoRetransmit
  <2>2. Sends(sock, sock') /\ Timed(sock')
    BY <2>1, SendDataPacketSends DEF DataInv
  <2> QED
    BY <2>2, SendsData DEF DataInv
<1>5. CASE Send
  <2>1. PICK n \in Room(sock) : sock' = SendPendingData(sock, FALSE, n)
    BY <1>5 DEF Send
  <2>2. Sends(sock, sock') /\ Timed(sock')
    BY <1>r, <2>1, SendPendingDataSends DEF DataInv
  <2> QED
    BY <2>2, SendsData DEF DataInv
<1>6. CASE UNCHANGED sock
  BY <1>6 DEF Reduces
<1> QED
  BY <1>1, <1>2, <1>3, <1>4, <1>5, <1>6 DEF Next

\* The invariant of the specification.
DInv == DataInv(sock)

LEMMA SpecDataInv == Spec => []DInv
<1>1. Init => DInv
  BY InitDataInv DEF DInv
<1>2. DInv /\ [Next]_sock => DInv'
  BY NextDataInv DEF DInv
<1> QED
  BY <1>1, <1>2, PTL DEF Spec

\* The reassembly buffer holds what was received and nothing else, although
\* EarlyAck rewinds NextRxSequence and puts it back (TcpRxBuffer::Add,
\* TcpDctcp::CeState0to1 and CeState1to0).
THEOREM DctcpBufferExact == Spec => []BufferExact
<1>1. DInv => BufferExact
  BY DEF DInv, DataInv, Buffer, BufferExact
<1> QED
  BY <1>1, SpecDataInv, PTL

\* Data in sequence waits for its acknowledgement with a timer running, but for
\* the rewound ACK of TcpDctcp (TcpSocketBase::ReceivedData, SendEmptyPacket).
THEOREM DctcpOnlyRewindingUntimed == Spec => []OnlyRewindingUntimed
<1>1. DInv => OnlyRewindingUntimed
  BY DEF DInv, DataInv, Timed, Waiting, OnlyRewindingUntimed, Unacknowledged
<1> QED
  BY <1>1, SpecDataInv, PTL

\* The window is reduced once per window of data (SendDataPacket and ReceivedAck
\* of TcpSocketBase): all that was sent at the last reduction is acknowledged
\* before the next one.
THEOREM DctcpOncePerWindow == Spec => OncePerWindow
<1>1. DInv /\ [Next]_sock => [sock'.cut # sock.cut => sock'.head > sock.cut]_sock
  BY NextDataInv DEF DInv, Reduces
<1> QED
  BY <1>1, SpecDataInv, PTL DEF Spec, OncePerWindow

-----------------------------------------------------------------------------
(* What a change of CE state leaves out.  Only an ACK held for later keeps  *)
(* data waiting, and where NextRxSequence is rewound to is in front of the  *)
(* last packet taken: the rewound ACK leaves that one segment.              *)

LeftOut(s) == {g \in Waiting(s) : (g \in s.inCe) # s.ceState}
OneLeft(s) == \A g \in LeftOut(s) : s.rewound /\ \A h \in Waiting(s) : g <= h
Recent(s) == \A g \in Waiting(s) : g <= s.priorRcvNxt
Reserved(s) == Waiting(s) # {} => s.delayedAckReserved /\ s.priorRcvNxtFlag
Held(s) == \A g \in s.inCe : g \in Data /\ s.mark[g] # "none"

CeInv(s) ==
  /\ IsSocket(s) /\ s.priorRcvNxt \in Int
  /\ OneLeft(s) /\ Recent(s) /\ Reserved(s) /\ Held(s)

\* A call that takes no data and is not told of a packet; one that leaves the
\* receiver's acknowledgements alone; and one that acknowledges what waits.
Calm(s, t) ==
  /\ IsSocket(t) /\ SameRx(s, t) /\ t.inCe \subseteq s.inCe
  /\ t.priorRcvNxt = s.priorRcvNxt /\ t.priorRcvNxtFlag = s.priorRcvNxtFlag
Alike(s, t) ==
  /\ Calm(s, t) /\ t.inCe = s.inCe /\ t.first = s.first /\ t.ceState = s.ceState
  /\ t.rewound = s.rewound /\ t.delayedAckReserved = s.delayedAckReserved
Settled(s, t) == Calm(s, t) /\ Waiting(t) = {}
Still(s, t) == Alike(s, t) \/ Settled(s, t)

LEMMA NoneWaits ==
  ASSUME NEW t, IsSocket(t), Waiting(t) = {}, Held(t), t.priorRcvNxt \in Int
  PROVE  CeInv(t)
BY DEF CeInv, OneLeft, LeftOut, Recent, Reserved

LEMMA AlikeWaiting ==
  ASSUME NEW s, NEW t, Alike(s, t)
  PROVE  Waiting(t) = Waiting(s) /\ LeftOut(t) = LeftOut(s)
BY DEF Alike, Calm, SameRx, Waiting, LeftOut

LEMMA StillInv ==
  ASSUME NEW s, CeInv(s), NEW t, Still(s, t)
  PROVE  CeInv(t)
<1>1. IsSocket(t) /\ Held(t) /\ t.priorRcvNxt \in Int
  BY DEF Still, Alike, Settled, Calm, CeInv, Held, SameRx
<1>2. CASE Settled(s, t)
  BY <1>1, <1>2, NoneWaits DEF Settled
<1>3. CASE Alike(s, t)
  <2>1. Waiting(t) = Waiting(s) /\ LeftOut(t) = LeftOut(s)
    BY <1>3, AlikeWaiting
  <2>2. OneLeft(t) /\ Recent(t) /\ Reserved(t)
    BY <1>3, <2>1 DEF CeInv, OneLeft, Recent, Reserved, Alike, Calm
  <2> QED
    BY <1>1, <2>2 DEF CeInv
<1> QED
  BY <1>2, <1>3 DEF Still

LEMMA StillAgain ==
  ASSUME NEW r, NEW s, NEW t, Still(r, s), Still(s, t)
  PROVE  Still(r, t)
<1>1. Calm(r, t)
  BY DEF Still, Alike, Settled, Calm, SameRx
<1>2. CASE Settled(s, t)
  BY <1>1, <1>2 DEF Still, Settled
<1>3. CASE Alike(s, t) /\ Settled(r, s)
  BY <1>1, <1>3, AlikeWaiting DEF Still, Settled
<1>4. CASE Alike(s, t) /\ Alike(r, s)
  BY <1>1, <1>4 DEF Still, Alike
<1> QED
  BY <1>2, <1>3, <1>4 DEF Still

LEMMA AcknowledgeSettles ==
  ASSUME NEW s, IsSocket(s), NEW ece
  PROVE  Settled(s, Acknowledge(s, ece))
<1> DEFINE given == [g \in Data |-> IF g < s.nextRx /\ s.first[g] = "none"
                                   THEN IF ece THEN "ECE" ELSE "plain"
                                   ELSE s.first[g]]
           kept == {g \in s.inCe : g >= s.nextRx}
           a == Acknowledge(s, ece)
<1>1. Quiet(s, a) /\ Waiting(a) = {}
  BY AcknowledgeQuiet
<1>2. a = [s EXCEPT !.delAckEvent = FALSE, !.delAckCount = 0,
                    !.inCe = kept, !.rewound = FALSE, !.first = given]
  BY DEF Acknowledge, IsSocket, Fields
<1>3. kept \subseteq s.inCe
  OBVIOUS
<1> HIDE DEF given, kept, a
<1>4. a.inCe = kept /\ a.priorRcvNxt = s.priorRcvNxt /\ a.priorRcvNxtFlag = s.priorRcvNxtFlag
  BY <1>2 DEF IsSocket, Fields
<1> QED
  BY <1>1, <1>3, <1>4 DEF Settled, Calm, Quiet, a

LEMMA AnswerSettles ==
  ASSUME NEW s, IsSocket(s)
  PROVE  Settled(s, Answer(s))
<1> DEFINE a == SendEmptyPacket(s, TRUE)
           b == SendEmptyPacket(s, FALSE)
           e == [a EXCEPT !.ecnState = "SENDING_ECE"]
<1>1. Settled(s, a) /\ Settled(s, b)
  BY AcknowledgeSettles DEF SendEmptyPacket
<1>2. Answer(s) \in {e, b}
  BY DEF Answer
<1> HIDE DEF a, b
<1>3. Calm(s, e) /\ e.first = a.first /\ e.nextRx = a.nextRx
  BY <1>1 DEF Settled, Calm, SameRx, IsSocket, Fields
<1>4. Waiting(e) = {}
  BY <1>1, <1>3 DEF Waiting, Settled
<1> QED
  BY <1>1, <1>2, <1>3, <1>4 DEF Settled

\* UpdateAckReserved matters only to data that waits.
LEMMA AnswerReservedSettles ==
  ASSUME NEW s, IsSocket(s), NEW delayed \in BOOLEAN
  PROVE  Settled(s, Answer(UpdateAckReserved(s, delayed)))
<1> DEFINE u == UpdateAckReserved(s, delayed)
<1>1. Calm(s, u)
  BY DEF UpdateAckReserved, Calm, SameRx, IsSocket, Fields
<1> HIDE DEF u
<1>2. Settled(u, Answer(u))
  BY <1>1, AnswerSettles DEF Calm
<1> QED
  BY <1>1, <1>2 DEF Settled, Calm, SameRx, u

LEMMA CwrStill ==
  ASSUME NEW s, IsSocket(s), NEW p
  PROVE  Still(s, Cwr(s, p))
<1> DEFINE t == [s EXCEPT !.ecnState = "IDLE"]
<1>1. Alike(s, t) /\ Alike(s, s)
  BY DEF Alike, Calm, SameRx, IsSocket, Fields
<1> QED
  BY <1>1 DEF Cwr, Still

LEMMA EchoStill ==
  ASSUME NEW s, IsSocket(s), NEW p
  PROVE  Still(s, Echo(s, p))
<1> DEFINE a == [s EXCEPT !.head = p.ack]
           e == [a EXCEPT !.ecnEchoSeq = p.ack, !.ecnState = "ECE_RCVD"]
           i == [a EXCEPT !.ecnState = "IDLE"]
<1>1. Alike(s, a)
  BY DEF Alike, Calm, SameRx, IsSocket, Fields
<1>2. Echo(s, p) \in {a, e, i}
  BY DEF Echo
<1> HIDE DEF a
<1>3. Alike(s, e) /\ Alike(s, i)
  BY <1>1 DEF Alike, Calm, SameRx, IsSocket, Fields
<1> QED
  BY <1>1, <1>2, <1>3 DEF Still

\* A data segment acknowledges all there is.
LEMMA SendDataPacketStill ==
  ASSUME NEW s, IsSocket(s), NEW isRetransmission
  PROVE  Settled(s, SendDataPacket(s, isRetransmission))
<1> DEFINE a == Acknowledge(s, FALSE)
           w == [a EXCEPT !.ecnCWRSeq = s.highTx, !.ecnState = "CWR_SENT", !.cut = s.highTx]
           na == [a EXCEPT !.highTx = @ + 1]
           nw == [w EXCEPT !.highTx = @ + 1]
<1>1. Settled(s, a)
  BY AcknowledgeSettles
<1>2. SendDataPacket(s, isRetransmission) \in {a, na, nw}
  BY DEF SendDataPacket
<1> HIDE DEF a
<1>3. /\ Calm(s, na) /\ na.first = a.first /\ na.nextRx = a.nextRx
      /\ Calm(s, w) /\ w.first = a.first /\ w.nextRx = a.nextRx
  BY <1>1 DEF Settled, Calm, SameRx, IsSocket, Fields
<1> HIDE DEF w
<1>4. Calm(s, nw) /\ nw.first = a.first /\ nw.nextRx = a.nextRx
  BY <1>3 DEF Calm, SameRx, IsSocket, Fields
<1> HIDE DEF na, nw
<1>5. Waiting(na) = {} /\ Waiting(nw) = {}
  BY <1>1, <1>3, <1>4 DEF Waiting, Settled
<1> QED
  BY <1>1, <1>2, <1>3, <1>4, <1>5 DEF Settled

LEMMA SendPendingDataStill ==
  ASSUME NEW s, IsSocket(s), NEW rtx, NEW n
  PROVE  Still(s, SendPendingData(s, rtx, n))
<1> DEFINE r == IF rtx THEN SendDataPacket(s, TRUE) ELSE s
           d == SendDataPacket(r, FALSE)
           t == [d EXCEPT !.highTx = @ + n - 1]
<1>1. Alike(s, s)
  BY DEF Alike, Calm, SameRx
<1>2. Still(s, r) /\ IsSocket(r)
  BY <1>1, SendDataPacketStill DEF Still, Settled, Calm
<1>3. SendPendingData(s, rtx, n) \in {r, t}
  BY DEF SendPendingData
<1> HIDE DEF r
<1>4. Settled(r, d)
  BY <1>2, SendDataPacketStill
<1> HIDE DEF d
<1>5. Alike(d, t)
  BY <1>4 DEF Settled, Alike, Calm, SameRx, IsSocket, Fields
<1> HIDE DEF t
<1>6. Still(s, d)
  BY <1>2, <1>4, StillAgain DEF Still
<1>7. Still(s, t)
  BY <1>5, <1>6, StillAgain DEF Still
<1> QED
  BY <1>2, <1>3, <1>7 DEF t

\* A packet told of: where NextRxSequence was is where it is.
Told(s, c) ==
  /\ CeInv(c) /\ SameRx(s, c)
  /\ c.priorRcvNxt = s.nextRx /\ c.priorRcvNxtFlag = TRUE

\* What the congestion control is told: with a change of the state, all that
\* waits but the last segment is acknowledged.
LEMMA CeStateChange ==
  ASSUME NEW s, CeInv(s), s.nextRx \in Int, NEW ece, NEW ce \in BOOLEAN, NEW state,
         NEW early \in BOOLEAN, early \/ ce = s.ceState
  PROVE  LET t == IF early THEN EarlyAck(s, ece) ELSE s
             c == [t EXCEPT !.priorRcvNxtFlag = TRUE, !.priorRcvNxt = s.nextRx,
                            !.ceState = ce, !.ecnState = state]
         IN  Told(s, c)
<1> DEFINE prior == s.priorRcvNxt
           given == [g \in Data |-> IF g < prior /\ s.first[g] = "none"
                                   THEN IF ece THEN "ECE" ELSE "plain"
                                   ELSE s.first[g]]
           kept == {g \in s.inCe : g >= prior}
           r == [s EXCEPT !.nextRx = prior]
           a == SendEmptyPacket(r, ece)
           b == [a EXCEPT !.nextRx = s.nextRx, !.rewound = TRUE]
           t == IF early THEN EarlyAck(s, ece) ELSE s
           c == [t EXCEPT !.priorRcvNxtFlag = TRUE, !.priorRcvNxt = s.nextRx,
                          !.ceState = ce, !.ecnState = state]
<1>0. IsSocket(s) /\ prior \in Int /\ Segments \in Nat /\ s.ceState \in BOOLEAN
  BY SocketAssumption DEF CeInv, IsSocket
<1>1. ASSUME IsSocket(t), SameRx(s, t), t.inCe \subseteq s.inCe
      PROVE  /\ IsSocket(c) /\ SameRx(s, c) /\ Held(c) /\ Recent(c)
             /\ c.priorRcvNxt = s.nextRx /\ c.priorRcvNxtFlag = TRUE
             /\ c.inCe = t.inCe /\ c.first = t.first /\ c.nextRx = t.nextRx
             /\ c.ceState = ce /\ c.rewound = t.rewound
             /\ c.delayedAckReserved = t.delayedAckReserved
  <2> HIDE DEF t
  <2>1. /\ IsSocket(c) /\ SameRx(s, c)
        /\ c.priorRcvNxt = s.nextRx /\ c.priorRcvNxtFlag = TRUE
        /\ c.inCe = t.inCe /\ c.first = t.first /\ c.nextRx = t.nextRx
        /\ c.ceState = ce /\ c.rewound = t.rewound
        /\ c.delayedAckReserved = t.delayedAckReserved
    BY <1>1 DEF IsSocket, SameRx, Fields
  <2> HIDE DEF c
  <2>2. Held(c)
    BY <1>1, <2>1 DEF CeInv, Held, SameRx
  <2>3. Recent(c)
    BY <1>0, <2>1 DEF Recent, Waiting, Data, SameRx
  <2> QED
    BY <2>1, <2>2, <2>3
<1>2. CASE early /\ s.delayedAckReserved /\ s.priorRcvNxtFlag
  <2>1. IsSocket(r) /\ SameTx(s, r) /\ r.ahead = s.ahead /\ r.mark = s.mark
          /\ r.nextRx = prior /\ r.first = s.first /\ r.inCe = s.inCe
          /\ r.delayedAckReserved = s.delayedAckReserved
    BY <1>0 DEF IsSocket, Fields, SameTx
  <2>2. a = [r EXCEPT !.delAckEvent = FALSE, !.delAckCount = 0,
                      !.inCe = kept, !.rewound = FALSE, !.first = given]
    BY <2>1 DEF SendEmptyPacket, Acknowledge, IsSocket, Fields
  <2>3. t = b
    BY <1>2 DEF EarlyAck
  <2> HIDE DEF given, kept, r, a
  <2>4. /\ IsSocket(a) /\ a.ahead = s.ahead /\ a.mark = s.mark /\ a.inCe = kept
        /\ a.first = given /\ a.delayedAckReserved = s.delayedAckReserved
    BY <2>1, <2>2 DEF IsSocket, Fields
  <2>5. /\ IsSocket(b) /\ SameRx(s, b) /\ b.inCe = kept /\ b.first = given
        /\ b.rewound = TRUE /\ b.delayedAckReserved = s.delayedAckReserved
    BY <2>4 DEF IsSocket, SameRx, Fields
  <2>6. kept \subseteq s.inCe
    BY DEF kept
  <2> HIDE DEF t, b, c
  <2>7. /\ IsSocket(c) /\ SameRx(s, c) /\ Held(c) /\ Recent(c)
        /\ c.priorRcvNxt = s.nextRx /\ c.priorRcvNxtFlag = TRUE
        /\ c.first = given /\ c.nextRx = s.nextRx /\ c.rewound = TRUE
        /\ c.delayedAckReserved = TRUE
    BY <1>1, <1>2, <2>3, <2>5, <2>6 DEF SameRx
  <2>8. ASSUME NEW g \in Waiting(c) PROVE g = prior
    <3>1. g \in Data /\ g \in Int /\ g < s.nextRx /\ given[g] = "none"
      BY <1>0, <2>7 DEF Waiting, Data
    <3>2. s.first[g] = "none" /\ ~(g < prior)
      BY <3>1 DEF given
    <3>3. g <= prior
      BY <3>1, <3>2 DEF CeInv, Recent, Waiting
    <3> QED
      BY <1>0, <3>1, <3>2, <3>3
  <2>9. OneLeft(c)
    BY <1>0, <2>7, <2>8 DEF OneLeft, LeftOut
  <2> QED
    BY <1>0, <2>7, <2>9 DEF Told, CeInv, Reserved, c, t
<1>3. CASE early /\ ~(s.delayedAckReserved /\ s.priorRcvNxtFlag)
  <2>1. t = s /\ Waiting(s) = {}
    BY <1>3 DEF EarlyAck, CeInv, Reserved
  <2> HIDE DEF t, c
  <2>2. /\ IsSocket(c) /\ SameRx(s, c) /\ Held(c) /\ c.first = s.first
        /\ c.nextRx = s.nextRx /\ c.priorRcvNxt = s.nextRx /\ c.priorRcvNxtFlag = TRUE
    BY <1>0, <1>1, <2>1 DEF SameRx
  <2>3. Waiting(c) = {}
    BY <2>1, <2>2 DEF Waiting
  <2> QED
    BY <1>0, <2>2, <2>3, NoneWaits DEF Told, c, t
<1>4. CASE ~early
  <2>1. t = s /\ ce = s.ceState
    BY <1>0, <1>4
  <2> HIDE DEF t, c
  <2>2. /\ IsSocket(c) /\ SameRx(s, c) /\ Held(c) /\ Recent(c) /\ c.first = s.first
        /\ c.nextRx = s.nextRx /\ c.priorRcvNxt = s.nextRx /\ c.priorRcvNxtFlag = TRUE
        /\ c.inCe = s.inCe /\ c.ceState = s.ceState /\ c.rewound = s.rewound
        /\ c.delayedAckReserved = s.delayedAckReserved
    BY <1>0, <1>1, <2>1 DEF SameRx
  <2>3. Waiting(c) = Waiting(s) /\ LeftOut(c) = LeftOut(s)
    BY <2>2 DEF Waiting, LeftOut
  <2>4. OneLeft(c) /\ Reserved(c)
    BY <2>2, <2>3 DEF CeInv, OneLeft, Reserved
  <2> QED
    BY <2>2, <2>4 DEF Told, CeInv, c, t
<1> QED
  BY <1>2, <1>3, <1>4

\* What holds from then on until the packet is taken: where NextRxSequence was
\* is where it is.
Ready(s) == CeInv(s) /\ Buffer(s) /\ s.priorRcvNxt = s.nextRx /\ s.priorRcvNxtFlag = TRUE

LEMMA StillReady ==
  ASSUME NEW s, Ready(s), NEW t, Still(s, t)
  PROVE  Ready(t)
<1>1. Calm(s, t)
  BY DEF Still, Alike, Settled
<1> QED
  BY <1>1, StillInv, SameBuffer DEF Ready, Calm, SameRx

LEMMA CeEventReady ==
  ASSUME NEW s, CeInv(s), Buffer(s), NEW p
  PROVE  Ready(CeEvent(s, p))
<1>1. s.nextRx \in Int /\ s.ceState \in BOOLEAN
  BY SocketAssumption DEF Buffer, CeInv, IsSocket
<1>2. CASE p.ce /\ s.ecnCESeq < p.seq
  <2> DEFINE r == [s EXCEPT !.ecnCESeq = p.seq, !.ecnState = "CE_RCVD"]
  <2>1. Alike(s, r)
    BY DEF CeInv, Alike, Calm, SameRx, IsSocket, Fields
  <2>2. CeEvent(s, p) = CeState0to1(r)
    BY <1>2 DEF CeEvent
  <2> HIDE DEF r
  <2>3. CeInv(r) /\ Buffer(r) /\ r.nextRx = s.nextRx /\ r.ceState \in BOOLEAN
    BY <1>1, <2>1, StillInv, SameBuffer DEF Still, Alike, Calm, SameRx
  <2> DEFINE t == IF ~r.ceState THEN EarlyAck(r, FALSE) ELSE r
             c == [t EXCEPT !.priorRcvNxtFlag = TRUE, !.priorRcvNxt = r.nextRx,
                            !.ceState = TRUE, !.ecnState = "CE_RCVD"]
  <2>4. (~r.ceState) \in BOOLEAN /\ (~r.ceState \/ TRUE = r.ceState)
    BY <2>3
  <2>n. CeInv(r) /\ r.nextRx \in Int /\ TRUE \in BOOLEAN
    BY <1>1, <2>3
  <2>5. Told(r, c)
    BY <2>4, <2>n, CeStateChange, Zenon
  <2>6. CeState0to1(r) = c
    BY DEF CeState0to1
  <2> HIDE DEF c
  <2> QED
    BY <2>2, <2>3, <2>5, <2>6, SameBuffer DEF Ready, Told, SameRx
<1>3. CASE ~(p.ce /\ s.ecnCESeq < p.seq)
  <2> DEFINE t == IF s.ceState THEN EarlyAck(s, TRUE) ELSE s
             state == IF Echoing(s) THEN "IDLE" ELSE t.ecnState
             c == [t EXCEPT !.priorRcvNxtFlag = TRUE, !.priorRcvNxt = s.nextRx,
                            !.ceState = FALSE, !.ecnState = state]
  <2>1. s.ceState \in BOOLEAN /\ (s.ceState \/ FALSE = s.ceState)
    BY <1>1
  <2> HIDE DEF state
  <2>n. CeInv(s) /\ s.nextRx \in Int /\ FALSE \in BOOLEAN
    BY <1>1
  <2>2. Told(s, c)
    BY <2>1, <2>n, CeStateChange, Zenon
  <2>3. CeState1to0(s) = c
    BY DEF CeState1to0, state
  <2>4. CeEvent(s, p) = c
    BY <1>3, <2>3 DEF CeEvent
  <2> HIDE DEF c
  <2> QED
    BY <2>2, <2>4, SameBuffer DEF Ready, Told, SameRx
<1> QED
  BY <1>2, <1>3

\* What is counted to the CE state has been received.
LEMMA AddHeld ==
  ASSUME NEW s, Ready(s), NEW p, p.seq \in Data
  PROVE  Add(s, p).priorRcvNxt = s.priorRcvNxt /\ Held(Add(s, p))
<1> DEFINE held == s.ahead \union {p.seq}
           next == FirstGap(held, s.nextRx)
           rest == {g \in held : g > next}
           point == IF p.ce THEN "CE" ELSE "ECT"
           m == [s.mark EXCEPT ![p.seq] = point]
           h == IF s.ceState THEN s.inCe \union {p.seq} ELSE s.inCe
           b == Add(s, p)
<1>1. b = [s EXCEPT !.nextRx = next, !.ahead = rest, !.mark = m, !.inCe = h]
  BY DEF Add, Ready, CeInv, IsSocket, Fields
<1>2. \A g \in Data : m[g] = IF g = p.seq THEN point ELSE s.mark[g]
  BY DEF Ready, Buffer
<1>3. point # "none" /\ \A g \in h : g \in s.inCe \/ g = p.seq
  OBVIOUS
<1> HIDE DEF next, rest, m, point, h, b
<1>4. b.priorRcvNxt = s.priorRcvNxt /\ b.inCe = h /\ b.mark = m
  BY <1>1 DEF Ready, CeInv, IsSocket, Fields
<1>5. \A g \in s.inCe : g \in Data /\ s.mark[g] # "none"
  BY DEF Ready, CeInv, Held
<1> QED
  BY <1>2, <1>3, <1>4, <1>5 DEF Held, b

\* An in-sequence segment is counted to the state it came in; its ACK is
\* reserved, and it is the last one taken.
LEMMA DelayCe ==
  ASSUME NEW s, Ready(s), NEW p, p.seq \in Data,
         ~(p.seq < s.nextRx \/ p.seq \in s.ahead),
         Add(s, p).ahead = {}, ~(Add(s, p).nextRx > s.nextRx + 1)
  PROVE  CeInv(Delay(Add(s, p)))
<1> DEFINE held == s.ahead \union {p.seq}
           next == FirstGap(held, s.nextRx)
           rest == {g \in held : g > next}
           point == IF p.ce THEN "CE" ELSE "ECT"
           m == [s.mark EXCEPT ![p.seq] = point]
           h == IF s.ceState THEN s.inCe \union {p.seq} ELSE s.inCe
           b == Add(s, p)
           w == UpdateAckReserved(b, TRUE)
           d == [w EXCEPT !.delAckCount = @ + 1, !.delAckEvent = TRUE]
<1>0. Segments \in Nat /\ Data = 1 .. Segments /\ IsSocket(s) /\ s.ceState \in BOOLEAN
  BY SocketAssumption DEF Data, Ready, CeInv, IsSocket
<1>1. b = [s EXCEPT !.nextRx = next, !.ahead = rest, !.mark = m, !.inCe = h]
  BY <1>0 DEF Add, IsSocket, Fields
<1>2. next \in s.nextRx .. Segments + 1 /\ next \notin held
  <2>1. held \subseteq Data /\ s.nextRx \in 1 .. Segments + 1
    BY DEF Ready, Buffer
  <2> QED
    BY <2>1, FirstGapIsGap
<1>3. point # "none" /\ \A g \in Data : m[g] = IF g = p.seq THEN point ELSE s.mark[g]
  BY DEF Ready, Buffer
<1> HIDE DEF next, m, point, h
<1>4. /\ IsSocket(b) /\ b.nextRx = next /\ b.ahead = rest /\ b.mark = m /\ b.inCe = h
      /\ b.first = s.first /\ b.ceState = s.ceState /\ b.rewound = s.rewound
      /\ b.priorRcvNxt = s.priorRcvNxt /\ b.priorRcvNxtFlag = s.priorRcvNxtFlag
  BY <1>0, <1>1 DEF IsSocket, Fields
<1>5. p.seq = s.nextRx /\ next = s.nextRx + 1
  <2>1. s.nextRx \in Int /\ p.seq \in Int /\ next \in Int
    BY <1>0, <1>2 DEF Ready, Buffer
  <2>2. ~(p.seq > next) /\ p.seq # next
    BY <1>2, <1>4
  <2>3. ~(p.seq < s.nextRx) /\ ~(next > s.nextRx + 1)
    BY <1>4
  <2> HIDE DEF b
  <2> QED
    BY <1>2, <2>1, <2>2, <2>3
<1>6. p.seq \notin s.inCe
  <2>1. p.seq \notin (1 .. s.nextRx - 1) \union s.ahead
    BY <1>5 DEF Ready, Buffer
  <2>2. s.mark[p.seq] = "none"
    BY <2>1 DEF Ready, Buffer
  <2> QED
    BY <2>2 DEF Ready, CeInv, Held
<1>7. p.seq \in h <=> s.ceState
  BY <1>0, <1>6 DEF h
<1>8. \A g \in Data : g # p.seq => (g \in h <=> g \in s.inCe)
  BY DEF h
<1>9. \A g \in h : g \in Data /\ m[g] # "none"
  <2>1. \A g \in s.inCe : g \in Data /\ s.mark[g] # "none"
    BY DEF Ready, CeInv, Held
  <2>2. \A g \in h : g \in s.inCe \/ g = p.seq
    BY DEF h
  <2> QED
    BY <1>3, <2>1, <2>2
<1>10. Delay(b) = Answer(UpdateAckReserved(b, FALSE)) \/ Delay(b) = d
  BY DEF Delay
<1>11. s.priorRcvNxt \in Int /\ s.priorRcvNxt = s.nextRx /\ s.priorRcvNxtFlag = TRUE
  BY DEF Ready, CeInv
<1> HIDE DEF b
<1>12. ASSUME NEW t, Settled(b, t) PROVE CeInv(t)
  <2>1. IsSocket(t) /\ Waiting(t) = {} /\ t.priorRcvNxt \in Int /\ Held(t)
    BY <1>4, <1>9, <1>11, <1>12 DEF Settled, Calm, SameRx, Held
  <2> QED
    BY <2>1, NoneWaits
<1>13. CeInv(d)
  <2>1. /\ IsSocket(d) /\ d.nextRx = next /\ d.mark = m /\ d.inCe = h
        /\ d.first = s.first /\ d.ceState = s.ceState /\ d.rewound = s.rewound
        /\ d.priorRcvNxt = s.priorRcvNxt /\ d.priorRcvNxtFlag = TRUE
        /\ d.delayedAckReserved = TRUE
    BY <1>4, <1>11 DEF UpdateAckReserved, IsSocket, Fields
  <2> HIDE DEF d, w
  <2>2. \A g \in Waiting(d) : g = p.seq \/ g \in Waiting(s)
    BY <1>0, <1>5, <2>1 DEF Waiting
  <2>3. \A g \in Waiting(s) : g \in Data /\ g < p.seq
    BY <1>0, <1>5 DEF Waiting
  <2>4. Recent(d)
    BY <1>0, <1>5, <1>11, <2>1, <2>2, <2>3 DEF Recent
  <2>5. OneLeft(d)
    <3>1. SUFFICES ASSUME NEW g \in LeftOut(d)
                   PROVE  d.rewound /\ \A f \in Waiting(d) : g <= f
      BY DEF OneLeft
    <3>2. g \in Waiting(d) /\ (g \in h) # s.ceState
      BY <2>1 DEF LeftOut
    <3>3. g # p.seq
      BY <1>0, <1>7, <3>2
    <3>4. g \in Waiting(s) /\ g \in Data /\ g < p.seq
      BY <2>2, <2>3, <3>2, <3>3
    <3>5. g \in LeftOut(s)
      BY <1>8, <3>2, <3>3, <3>4 DEF LeftOut
    <3>6. s.rewound /\ \A f \in Waiting(s) : g <= f
      BY <3>5 DEF Ready, CeInv, OneLeft
    <3> QED
      BY <1>0, <2>1, <2>2, <3>4, <3>6
  <2> QED
    BY <1>9, <1>11, <2>1, <2>4, <2>5 DEF CeInv, Reserved, Held
<1>14. Settled(b, Answer(UpdateAckReserved(b, FALSE)))
  BY <1>4, AnswerReservedSettles
<1> QED
  BY <1>10, <1>12, <1>13, <1>14 DEF b

LEMMA ReceivedDataCe ==
  ASSUME NEW s, Ready(s), NEW p, p.seq \in Data
  PROVE  CeInv(ReceivedData(s, p))
<1> DEFINE b == Add(s, p)
           t == ReceivedData(s, p)
<1>1. CASE p.seq < s.nextRx \/ p.seq \in s.ahead
  <2>1. t = Answer(s)
    BY <1>1 DEF ReceivedData
  <2>2. Settled(s, Answer(s))
    BY AnswerSettles DEF Ready, CeInv
  <2> QED
    BY <2>1, <2>2, StillInv DEF Still, Ready
<1>2. CASE /\ ~(p.seq < s.nextRx \/ p.seq \in s.ahead)
           /\ b.ahead # {} \/ b.nextRx > s.nextRx + 1
  <2>1. t = Answer(UpdateAckReserved(b, FALSE))
    BY <1>2 DEF ReceivedData
  <2>2. IsSocket(b)
    BY <1>2, AddBuffer DEF Ready, CeInv
  <2>3. Settled(b, t)
    BY <2>1, <2>2, AnswerReservedSettles
  <2>4. b.priorRcvNxt = s.priorRcvNxt /\ Held(b)
    BY <1>2, AddHeld
  <2> HIDE DEF b, t
  <2>5. IsSocket(t) /\ Waiting(t) = {} /\ t.priorRcvNxt \in Int /\ Held(t)
    BY <2>3, <2>4 DEF Settled, Calm, SameRx, Held, Ready, CeInv
  <2> QED
    BY <2>5, NoneWaits DEF t
<1>3. CASE /\ ~(p.seq < s.nextRx \/ p.seq \in s.ahead)
           /\ ~(b.ahead # {} \/ b.nextRx > s.nextRx + 1)
  <2>1. t = Delay(b)
    BY <1>3 DEF ReceivedData
  <2> QED
    BY <1>3, <2>1, DelayCe
<1> QED
  BY <1>1, <1>2, <1>3

LEMMA ReceivedAckCe ==
  ASSUME NEW s, Ready(s), NEW p, p.len > 0 => p.seq \in Data,
         NEW fast, NEW rtx, NEW n
  PROVE  CeInv(ReceivedAck(s, p, fast, rtx, n))
<1> DEFINE e == Echo(s, p)
           r == IF fast THEN DoRetransmit(e) ELSE e
           d == IF p.len > 0 THEN ReceivedData(r, p) ELSE r
           t == SendPendingData(d, rtx, n)
<1>1. Ready(e)
  BY EchoStill, StillReady DEF Ready, CeInv
<1> HIDE DEF e
<1>2. Ready(r)
  <2>1. IsSocket(e)
    BY <1>1 DEF Ready, CeInv
  <2>2. Settled(e, DoRetransmit(e))
    BY <2>1, SendDataPacketStill DEF DoRetransmit
  <2> QED
    BY <1>1, <2>2, StillReady DEF Still
<1> HIDE DEF r
<1>3. CeInv(d)
  BY <1>2, ReceivedDataCe DEF Ready
<1> HIDE DEF d
<1>4. Still(d, t)
  BY <1>3, SendPendingDataStill DEF CeInv
<1>5. ReceivedAck(s, p, fast, rtx, n) = t
  BY DEF ReceivedAck, d, r, e
<1> HIDE DEF t
<1> QED
  BY <1>3, <1>4, <1>5, StillInv

LEMMA ForwardUpCe ==
  ASSUME NEW s, CeInv(s), Buffer(s), NEW p, p.len > 0 => p.seq \in Data,
         NEW fast, NEW rtx, NEW n
  PROVE  CeInv(ForwardUp(s, p, fast, rtx, n))
<1> DEFINE v == CeEvent(s, p)
           c == Cwr(v, p)
           a == SendEmptyPacket(s, FALSE)
           t == ForwardUp(s, p, fast, rtx, n)
<1>1. Ready(v)
  BY CeEventReady
<1> HIDE DEF v
<1>2. Ready(c)
  BY <1>1, CwrStill, StillReady DEF Ready, CeInv
<1>3. Settled(s, a)
  BY AcknowledgeSettles DEF SendEmptyPacket, CeInv
<1>4. CeInv(a)
  BY <1>3, StillInv DEF Still
<1>5. t = a \/ t = c \/ t = ReceivedAck(c, p, fast, rtx, n)
  BY DEF ForwardUp, c, v
<1> HIDE DEF a, c
<1>6. CeInv(c) /\ CeInv(ReceivedAck(c, p, fast, rtx, n))
  BY <1>2, ReceivedAckCe DEF Ready
<1> QED
  BY <1>4, <1>5, <1>6

LEMMA InitCeInv == Init => CeInv(sock)
<1> SUFFICES ASSUME Init PROVE CeInv(sock)
  OBVIOUS
<1>1. IsSocket(sock)
  BY InitIInv DEF IInv, SocketInv
<1>2. sock.nextRx = 1 /\ sock.inCe = {} /\ sock.priorRcvNxt = 0
  BY DEF Init
<1>3. Waiting(sock) = {}
  BY <1>2 DEF Waiting, Data
<1> QED
  BY <1>1, <1>2, <1>3, NoneWaits DEF Held

LEMMA NextCeInv == DInv /\ CeInv(sock) /\ [Next]_sock => CeInv(sock')
<1> SUFFICES ASSUME Buffer(sock), CeInv(sock), [Next]_sock
             PROVE  CeInv(sock')
  BY DEF DInv, DataInv
<1>0. IsSocket(sock)
  BY DEF CeInv
<1>1. CASE ReceiveSegment
  <2>0. PICK seq \in Data, ce, cwr \in BOOLEAN : \E ack, n, fast, rtx :
          sock' = ForwardUp(sock, [len |-> 1, seq |-> seq, ack |-> ack, ce |-> ce,
                                   cwr |-> cwr, ece |-> FALSE], fast, rtx, n)
    BY <1>1 DEF ReceiveSegment
  <2>1. PICK ack, n, fast, rtx :
          sock' = ForwardUp(sock, [len |-> 1, seq |-> seq, ack |-> ack, ce |-> ce,
                                   cwr |-> cwr, ece |-> FALSE], fast, rtx, n)
    BY <2>0
  <2> DEFINE p == [len |-> 1, seq |-> seq, ack |-> ack, ce |-> ce, cwr |-> cwr, ece |-> FALSE]
  <2>2. p.len > 0 => p.seq \in Data
    OBVIOUS
  <2> HIDE DEF p
  <2>3. sock' = ForwardUp(sock, p, fast, rtx, n)
    BY <2>1 DEF p
  <2> QED
    BY <2>2, <2>3, ForwardUpCe
<1>2. CASE ReceivePureAck
  <2>1. PICK seq, ce, ece, ack, n, rtx :
          sock' = ForwardUp(sock, [len |-> 0, seq |-> seq, ack |-> ack, ce |-> ce,
                                   cwr |-> FALSE, ece |-> ece], FALSE, rtx, n)
    BY <1>2 DEF ReceivePureAck
  <2> DEFINE p == [len |-> 0, seq |-> seq, ack |-> ack, ce |-> ce, cwr |-> FALSE, ece |-> ece]
  <2>2. p.len > 0 => p.seq \in Data
    OBVIOUS
  <2> HIDE DEF p
  <2>3. sock' = ForwardUp(sock, p, FALSE, rtx, n)
    BY <2>1 DEF p
  <2> QED
    BY <2>2, <2>3, ForwardUpCe
<1>3. CASE DelAckTimeout
  <2> DEFINE t == [sock EXCEPT !.delAckEvent = FALSE]
  <2>1. Calm(sock, t)
    BY <1>0 DEF Calm, SameRx, IsSocket, Fields
  <2>2. sock' = Answer(UpdateAckReserved(t, TRUE))
    BY <1>3 DEF DelAckTimeout
  <2> HIDE DEF t
  <2>3. Settled(t, sock')
    BY <2>1, <2>2, AnswerReservedSettles DEF Calm
  <2>4. Settled(sock, sock')
    BY <2>1, <2>3 DEF Settled, Calm, SameRx
  <2> QED
    BY <2>4, StillInv DEF Still
<1>4. CASE ReTxTimeout
  BY <1>0, <1>4, SendDataPacketStill, StillInv DEF ReTxTimeout, DoRetransmit, Still
<1>5. CASE Send
  BY <1>0, <1>5, SendPendingDataStill, StillInv DEF Send
<1>6. CASE UNCHANGED sock
  BY <1>6
<1> QED
  BY <1>1, <1>2, <1>3, <1>4, <1>5, <1>6 DEF Next

\* Data in sequence that waits for its acknowledgement was received in the
\* present CE state, but for the oldest that waits, left out by a rewound ACK
\* (TcpDctcp::CeState0to1 and CeState1to0).
THEOREM DctcpOnlyOneLeftOut == Spec => []OnlyOneLeftOut
<1> DEFINE I == CeInv(sock)
<1>1. Init => I
  BY InitCeInv
<1>2. DInv /\ I /\ [Next]_sock => I'
  BY NextCeInv
<1>3. I => OnlyOneLeftOut
  BY DEF CeInv, OneLeft, LeftOut, Waiting, OnlyOneLeftOut, OtherState, Unacknowledged
<1> HIDE DEF I
<1> QED
  BY <1>1, <1>2, <1>3, SpecDataInv, PTL DEF Spec
=============================================================================
