---------------------------- MODULE RedAlgorithm ----------------------------
(***************************************************************************)
(* The random early detection that ns3::RedQueueDisc runs on arrivals and  *)
(* that RedQueueFrontDisc and RedQueueMMDisc, which repeat its code word   *)
(* for word, run on departures.                                            *)
(*                                                                         *)
(* The average queue is kept as its integer part, which is what the        *)
(* comparisons with the integer thresholds see.  With QW = 1, as in the    *)
(* data-centre scenarios of src/scratch, it is the exact queue size.       *)
(***************************************************************************)
EXTENDS QueueDisc

CONSTANTS
  MinTh, MaxTh,        \* m_minTh, m_maxTh
  InstantQueue,        \* m_qW = 1: the average is the instantaneous queue
  IsGentle, IsWait,    \* m_isGentle, m_isWait
  IsNs1Compat,         \* m_isNs1Compat
  UseEcn, UseHardDrop, \* m_useEcn, m_useHardDrop
  LInterm,             \* m_lInterm: the maximum probability is 1 / LInterm
  MaxCount             \* bound: m_count saturates here

ASSUME RedAssumption ==
  /\ MinTh \in Nat /\ MaxTh \in Nat \ {0} /\ MinTh <= MaxTh
  /\ {InstantQueue, IsGentle, IsWait, IsNs1Compat} \subseteq BOOLEAN
  /\ {UseEcn, UseHardDrop} \subseteq BOOLEAN
  /\ LInterm \in Nat \ {0} /\ MaxCount \in Nat \ {0}

VARIABLES
  qAvg,   \* m_qAvg, its integer part
  count,  \* m_count, packets since the last early mark
  old,    \* m_old, the average has been above MinTh
  idle,   \* m_idle
  decisions,  \* history: how often the algorithm has decided
  early       \* history: which of its decisions were early signals

decisionVars == <<decisions, early>>
redVars == <<qAvg, count, old, idle, decisionVars>>
vars == <<baseVars, redVars>>

Init ==
  /\ QueueDiscInit
  /\ qAvg = 0 /\ count = 0 /\ old = FALSE /\ idle = TRUE
  /\ decisions = 0 /\ early = {}

-----------------------------------------------------------------------------
(* The averages Estimator can return: a convex combination of the old      *)
(* average and the queue, decayed further after an idle period.            *)
Estimator(nQueued) ==
  IF InstantQueue THEN {nQueued}
  ELSE {a \in 0..(qAvg + nQueued) :
          /\ a <= qAvg \/ a <= nQueued
          /\ idle \/ a >= qAvg \/ a >= nQueued}

\* CalculatePNew with exact averages: a numerator over ProbDen.
ThDiff == IF MaxTh = MinTh THEN 1 ELSE MaxTh - MinTh
ProbDen == ThDiff * LInterm * MaxTh
Capped(p) == IF p > ProbDen THEN ProbDen ELSE p
CalculatePNew(avg) ==
  IF avg >= MaxTh
  THEN IF IsGentle
       THEN Capped(((LInterm - 1) * avg + 2 * MaxTh) * ThDiff - ThDiff * LInterm * MaxTh)
       ELSE ProbDen
  ELSE Capped((avg - MinTh) * MaxTh)

\* What "u <= ModifyP (p)" can give, for a random u in (0, 1).  Sizes and
\* fractional averages only change how likely an outcome is.
DropEarly(avg, cnt) ==
  LET p  == CalculatePNew(avg)
      cp == cnt * p
  IN  IF ByteMode \/ ~InstantQueue THEN BOOLEAN
      ELSE IF p = 0 THEN {FALSE}
      ELSE IF IsWait THEN IF cp < ProbDen THEN {FALSE}
                          ELSE IF cp < 2 * ProbDen /\ p < 2 * ProbDen - cp
                               THEN BOOLEAN ELSE {TRUE}
      ELSE IF cp < ProbDen /\ p < ProbDen - cp THEN BOOLEAN ELSE {TRUE}

ForcedTh == IF IsGentle THEN 2 * MaxTh ELSE MaxTh

CountUp == IF count < MaxCount THEN count + 1 ELSE MaxCount

\* Mutant: an early signal does not start the count anew.
CountKept(signal) == CountUp

\* m_count after DropEarly, which resets it when it signals.
CountAfter(signal) == IF signal THEN 0 ELSE CountUp

\* The first half of DoEnqueue (of DoDequeue in the variants): with avg chosen,
\* the type of drop follows, and the variables of the algorithm are updated.
Forced(avg, nQueued) == avg >= MinTh /\ nQueued > 1 /\ avg >= ForcedTh

Decide(avg, nQueued, type) ==
  /\ qAvg' = avg /\ idle' = FALSE
  /\ \/ /\ avg < MinTh \/ nQueued <= 1
        /\ type = "none" /\ old' = FALSE /\ count' = CountUp
     \/ /\ Forced(avg, nQueued)
        /\ type = "forced" /\ UNCHANGED old
     \/ /\ avg >= MinTh /\ nQueued > 1 /\ avg < ForcedTh /\ ~old
        /\ type = "none" /\ old' = TRUE /\ count' = 1
     \/ /\ avg >= MinTh /\ nQueued > 1 /\ avg < ForcedTh /\ old
        /\ UNCHANGED old
        /\ \E signal \in DropEarly(avg, CountUp) :
             /\ type = IF signal THEN "unforced" ELSE "none"
             /\ count' = CountAfter(signal)
  /\ decisions' = decisions + 1
  /\ early' = early \cup {n \in {decisions + 1} : type = "unforced"}

\* Mutant: UseHardDrop is read the wrong way round.
CanForceMarkHard(item) == UseHardDrop /\ UseEcn /\ Markable(item)

CanForceMark(item) == ~UseHardDrop /\ UseEcn /\ Markable(item)

-----------------------------------------------------------------------------

HistoryOK == decisions \in Nat /\ early \subseteq 1..decisions

TypeOK ==
  /\ BaseTypeOK
  /\ qAvg \in Nat /\ count \in 0..MaxCount
  /\ old \in BOOLEAN /\ idle \in BOOLEAN
  /\ HistoryOK

\* The packets of s that carry a mark.
MarkedIn(s) == Cardinality({i \in DOMAIN s : BeMarked(s[i])})

\* nTotalMarkedPackets is the number of packets that carry a mark set here:
\* no packet is marked twice, whether on arrival or later by a random peek
\* (the senders' own CE packets aside).
EachMarkCountedOnce ==
  nMarked =
    MarkedIn(sent) + MarkedIn(held) + MarkedIn(q) + MarkedIn(dropped)

\* "True to use ECN (packets are marked instead of being dropped)": unless
\* UseHardDrop is set, a capable packet is lost only on arrival, and only to
\* a full queue.
CapableLostOnlyWhenFull ==
  [][\A i \in DOMAIN dropped' \ DOMAIN dropped :
       dropped'[i].ecn # "NotECT" =>
         nReceived' > nReceived /\ ~Fits(q, dropped'[i])]_vars

\* Waiting spaces the early signals: more than LInterm decisions after the
\* last one, or after the start, before the next, whatever forced signals and
\* changes of the average come between, and never two in succession.
EarlySignalsSpaced ==
  \A i \in early \cup {0}, j \in early : i < j => j - i > LInterm
=============================================================================
