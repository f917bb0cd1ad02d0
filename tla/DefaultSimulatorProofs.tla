----------------------- MODULE DefaultSimulatorProofs -----------------------
(***************************************************************************)
(* Proofs about DefaultSimulatorImpl.  For any schedulers, delays and      *)
(* bounds: the flag the main thread reads without the lock tells whether   *)
(* other threads handed over events.  Over the list scheduler: an EventId  *)
(* expires when its event is gone, and the simulator implements            *)
(* EventQueue.                                                             *)
(***************************************************************************)
EXTENDS DefaultSimulatorImpl, WellFoundedInduction, NaturalsInduction,
        FiniteSetTheorems, TLAPS

\* In the critical section of ScheduleWithContext the event is in the list
\* before the flag says so.
FlagInv ==
  /\ pushing \in BOOLEAN /\ noneWithContext \in BOOLEAN
  /\ withContext \in Seq(Delays)
  /\ pushing => withContext # <<>>
  /\ FlagTracksList

-----------------------------------------------------------------------------
LEMMA FlagRest ==
  ASSUME FlagInv, UNCHANGED handed
  PROVE  FlagInv'
BY Zenon DEF FlagInv, FlagTracksList, handed

LEMMA FlagPush ==
  ASSUME FlagInv, NEW d \in Delays, Push(d)
  PROVE  FlagInv'
<1>1. /\ withContext' \in Seq(Delays) /\ withContext' # <<>>
  BY DEF FlagInv, Push
<1>2. pushing' = TRUE /\ noneWithContext' = noneWithContext
  BY DEF Push
<1> QED
  BY <1>1, <1>2, Zenon DEF FlagInv, FlagTracksList

LEMMA FlagPushed ==
  ASSUME FlagInv, Pushed
  PROVE  FlagInv'
BY Zenon DEF FlagInv, FlagTracksList, Pushed

\* The main thread takes the events, under the lock.
LEMMA FlagTakeIn ==
  ASSUME FlagInv, TakeIn
  PROVE  FlagInv'
<1>1. withContext' = <<>> /\ noneWithContext' = TRUE /\ pushing' = pushing /\ ~pushing
  BY DEF TakeIn, Swap
<1>2. <<>> \in Seq(Delays)
  OBVIOUS
<1> QED
  BY <1>1, <1>2, Zenon DEF FlagInv, FlagTracksList

LEMMA FlagNext ==
  ASSUME FlagInv, [Next]_vars
  PROVE  FlagInv'
<1>1. CASE Program \/ Run \/ ProcessOneEvent \/ Invoked \/ RunEnds \/ UNCHANGED vars
  <2>1. UNCHANGED handed
    BY <1>1, Zenon DEF Program, Schedule, Remove, Cancel, Stop, SetScheduler, Run,
       ProcessOneEvent, Invoked, RunEnds, handed, vars
  <2> QED
    BY <2>1, FlagRest
<1>2. CASE TakeIn
  BY <1>2, FlagTakeIn
<1>3. CASE Pushed
  BY <1>3, FlagPushed
<1>4. ASSUME NEW d \in Delays, Push(d) PROVE FlagInv'
  BY <1>4, FlagPush
<1> QED
  BY <1>1, <1>2, <1>3, <1>4 DEF Next, MainLoop

\* No event handed over is overlooked, and the list is not locked in vain:
\* m_eventsWithContextEmpty, which ProcessEventsWithContext reads without the
\* lock, agrees with the list whenever no thread is in the critical section.
THEOREM SimulatorFlagTracksList == Spec => []FlagTracksList
<1>1. ASSUME Init PROVE FlagInv
  <2>1. withContext = <<>> /\ withContext \in Seq(Delays)
    BY <1>1 DEF Init
  <2>2. noneWithContext = TRUE /\ pushing = FALSE
    BY <1>1 DEF Init
  <2> QED
    BY <2>1, <2>2, Zenon DEF FlagInv, FlagTracksList
<1>2. FlagInv /\ [Next]_vars => FlagInv'
  BY FlagNext
<1>3. FlagInv => FlagTracksList
  BY DEF FlagInv
<1> QED
  BY <1>1, <1>2, <1>3, PTL DEF Spec


-----------------------------------------------------------------------------
(* Naturals: least elements, and functions defined by recursion. *)

Earlier == {p \in Nat \X Nat : p[1] < p[2]}

\* A set of naturals has a least one.
LEMMA LeastOf ==
  ASSUME NEW T \in SUBSET Nat, T # {}
  PROVE  \E x \in T : \A y \in T : x <= y
<1>1. OpToRel(<, Nat) = Earlier
  BY Zenon DEF OpToRel, Earlier
<1>2. IsWellFoundedOn(Earlier, Nat)
  BY <1>1, NatLessThanWellFounded, Zenon
<1>3. PICK x \in T : \A y \in T : ~ (<<y, x>> \in Earlier)
  BY <1>2, WFMin, Zenon
<1>4. ASSUME NEW y \in T PROVE x <= y
  <2>1. x \in Nat /\ y \in Nat /\ ~(y < x)
    BY <1>3 DEF Earlier
  <2> QED
    BY <2>1
<1> QED
  BY <1>4

\* Induction up to n over sets: what holds at 0 and goes from each number to
\* the next holds of all.
LEMMA StepByStep ==
  ASSUME NEW n \in Nat, NEW A, 0 \in A, \A k \in 1 .. n : k - 1 \in A => k \in A
  PROVE  0 .. n \subseteq A
<1> DEFINE T == {k \in 0 .. n : k \notin A}
<1>1. SUFFICES ASSUME T # {} PROVE FALSE
  BY DEF T
<1>2. T \in SUBSET Nat
  BY DEF T
<1>3. PICK x \in T : \A y \in T : x <= y
  BY <1>1, <1>2, LeastOf
<1>4. x \in 0 .. n /\ x \notin A
  BY <1>3 DEF T
<1>5. x \in 1 .. n /\ x - 1 \in 0 .. n
  BY <1>4
<1>6. x - 1 \notin A
  BY <1>4, <1>5
<1>7. x - 1 \in T
  BY <1>5, <1>6 DEF T
<1> QED
  BY <1>3, <1>5, <1>7

\* A function f defined by recursion from base exists when each step leads
\* from the values S[k - 1] allowed at k - 1 to one allowed at k.
Recursive(f, n, base, step) ==
  f = [k \in 0 .. n |-> IF k = 0 THEN base ELSE step[k][f[k - 1]]]
Leads(step, n, S) == \A k \in 1 .. n : \A x \in S[k - 1] : step[k][x] \in S[k]
Within(f, n, S) == \A k \in 0 .. n : f[k] \in S[k]

LEMMA RecursionDefines ==
  ASSUME NEW n \in Nat, NEW S, NEW base, base \in S[0], NEW step, Leads(step, n, S)
  PROVE  \E f : Recursive(f, n, base, step) /\ Within(f, n, S)
<1> DEFINE Good(f, m) ==
      /\ f = [k \in 0 .. m |-> IF k = 0 THEN base ELSE step[k][f[k - 1]]]
      /\ \A k \in 0 .. m : f[k] \in S[k]
    A == {m \in 0 .. n : \E f : Good(f, m)}
<1> USE DEF Leads
<1>1. 0 \in A
  <2> DEFINE f == [k \in 0 .. 0 |-> base]
  <2>1. 0 .. 0 = {0}
    OBVIOUS
  <2>2. f = [k \in 0 .. 0 |-> IF k = 0 THEN base ELSE step[k][f[k - 1]]]
    BY <2>1, Zenon
  <2>3. \A k \in 0 .. 0 : f[k] \in S[k]
    BY <2>1
  <2>4. \E h : Good(h, 0)
    <3> HIDE DEF f
    <3> WITNESS f
    <3> QED
      BY <2>2, <2>3
  <2>5. 0 \in 0 .. n
    OBVIOUS
  <2> QED
    BY <2>4, <2>5, Zenon
<1>2. ASSUME NEW m \in 1 .. n, m - 1 \in A PROVE m \in A
  <2>1. PICK f : Good(f, m - 1)
    BY <1>2
  <2> DEFINE g == [k \in 0 .. m |-> IF k = m THEN step[m][f[m - 1]] ELSE f[k]]
  <2>2. /\ m \in Nat /\ m # 0 /\ m - 1 \in 0 .. m - 1
        /\ \A k \in 0 .. m : k # m => k \in 0 .. m - 1
        /\ \A k \in 0 .. m : k # 0 => k - 1 \in 0 .. m /\ k - 1 # m /\ k - 1 \in 0 .. m - 1
    OBVIOUS
  <2>3. \A k \in 0 .. m - 1 : f[k] = IF k = 0 THEN base ELSE step[k][f[k - 1]]
    BY <2>1, Zenon
  <2>4. \A k \in 0 .. m - 1 : f[k] \in S[k]
    BY <2>1
  <2>5. step[m][f[m - 1]] \in S[m]
    BY <2>2, <2>4
  <2>6. ASSUME NEW k \in 0 .. m
        PROVE  g[k] = (IF k = 0 THEN base ELSE step[k][g[k - 1]]) /\ g[k] \in S[k]
    <3>1. CASE k = m
      <4>1. g[k] = step[m][f[m - 1]] /\ g[m - 1] = f[m - 1]
        BY <2>2, <3>1
      <4> HIDE DEF g
      <4> QED
        BY <2>2, <2>5, <3>1, <4>1
    <3>2. CASE k # m
      <4>1. g[k] = f[k] /\ (k # 0 => g[k - 1] = f[k - 1]) /\ k \in 0 .. m - 1
        BY <2>2, <3>2
      <4> HIDE DEF g
      <4> QED
        BY <2>3, <2>4, <4>1
    <3> QED
      BY <3>1, <3>2
  <2>7. g = [k \in 0 .. m |-> g[k]]
    OBVIOUS
  <2>8. Good(g, m)
    <3> HIDE DEF g
    <3>1. [k \in 0 .. m |-> g[k]] = [k \in 0 .. m |-> IF k = 0 THEN base ELSE step[k][g[k - 1]]]
      BY <2>6
    <3> QED
      BY <2>6, <2>7, <3>1, Zenon
  <2>9. \E h : Good(h, m)
    <3> HIDE DEF g, Good
    <3> QED
      BY <2>8
  <2>10. m \in 0 .. n
    OBVIOUS
  <2> QED
    BY <2>9, <2>10, Zenon
<1> HIDE DEF A
<1>3. n \in A
  BY <1>1, <1>2, StepByStep
<1> QED
  BY <1>3 DEF A, Recursive, Within

-----------------------------------------------------------------------------
(* ListScheduler: a list in the order of the keys, each uid once. *)

Event == [ts : Nat, uid : Nat]

Ordered(list) ==
  /\ list \in Seq(Event)
  /\ \A i, j \in DOMAIN list : i < j => Before(list[i], list[j]) /\ list[i].uid # list[j].uid

\* The elements of a sequence with one more, and with one less.
LEMMA InsertAtElements ==
  ASSUME NEW S, NEW s \in Seq(S), NEW e \in S, NEW p \in 1 .. Len(s) + 1,
         NEW t, t = Seqs!InsertAt(s, p, e)
  PROVE  /\ t \in Seq(S) /\ Len(t) = Len(s) + 1
         /\ t[p] = e
         /\ \A i \in 1 .. p - 1 : t[i] = s[i]
         /\ \A i \in p + 1 .. Len(s) + 1 : t[i] = s[i - 1]
<1> DEFINE a == SubSeq(s, 1, p - 1)  b == SubSeq(s, p, Len(s))
<1>1. /\ a \in Seq(S) /\ Len(a) = p - 1 /\ \A i \in 1 .. p - 1 : a[i] = s[i]
  OBVIOUS
<1>2. /\ b \in Seq(S) /\ Len(b) = Len(s) - p + 1
      /\ \A i \in 1 .. Len(s) - p + 1 : b[i] = s[p + i - 1]
  OBVIOUS
<1>3. t = a \o <<e>> \o b
  BY DEF Seqs!InsertAt
<1> HIDE DEF a, b
<1> DEFINE c == a \o <<e>>
<1>4. /\ c \in Seq(S) /\ Len(c) = p /\ c[p] = e /\ \A i \in 1 .. p - 1 : c[i] = s[i]
  BY <1>1
<1>5. t = c \o b
  BY <1>3
<1> HIDE DEF c
<1>6. /\ t \in Seq(S) /\ Len(t) = Len(s) + 1 /\ \A i \in 1 .. p : t[i] = c[i]
      /\ \A i \in p + 1 .. Len(s) + 1 : t[i] = b[i - p]
  BY <1>2, <1>4, <1>5
<1>7. ASSUME NEW i \in p + 1 .. Len(s) + 1 PROVE t[i] = s[i - 1]
  <2>1. i - p \in 1 .. Len(s) - p + 1 /\ p + (i - p) - 1 = i - 1
    OBVIOUS
  <2> QED
    BY <1>2, <1>6, <2>1
<1> QED
  BY <1>4, <1>6, <1>7

LEMMA RemoveAtElements ==
  ASSUME NEW S, NEW s \in Seq(S), NEW p \in 1 .. Len(s),
         NEW t, t = Seqs!RemoveAt(s, p)
  PROVE  /\ t \in Seq(S) /\ Len(t) = Len(s) - 1
         /\ \A i \in 1 .. p - 1 : t[i] = s[i]
         /\ \A i \in p .. Len(s) - 1 : t[i] = s[i + 1]
<1> DEFINE a == SubSeq(s, 1, p - 1)  b == SubSeq(s, p + 1, Len(s))
<1>1. /\ a \in Seq(S) /\ Len(a) = p - 1 /\ \A i \in 1 .. p - 1 : a[i] = s[i]
  OBVIOUS
<1>2. /\ b \in Seq(S) /\ Len(b) = Len(s) - p
      /\ \A i \in 1 .. Len(s) - p : b[i] = s[p + i]
  OBVIOUS
<1>3. t = a \o b
  BY DEF Seqs!RemoveAt
<1> HIDE DEF a, b
<1>4. /\ t \in Seq(S) /\ Len(t) = Len(s) - 1 /\ \A i \in 1 .. p - 1 : t[i] = a[i]
      /\ \A i \in p .. Len(s) - 1 : t[i] = b[i - (p - 1)]
  <2>0. a \in Seq(S) /\ b \in Seq(S)
    BY <1>1, <1>2
  <2>1. t \in Seq(S) /\ Len(t) = Len(a) + Len(b)
    BY <1>3, <2>0
  <2>5. Len(t) = Len(s) - 1
    BY <1>1, <1>2, <2>1
  <2>2. \A i \in 1 .. Len(a) + Len(b) : t[i] = IF i <= Len(a) THEN a[i] ELSE b[i - Len(a)]
    BY <1>1, <1>2, <1>3
  <2>3. \A i \in 1 .. p - 1 : i \in 1 .. Len(a) + Len(b) /\ i <= Len(a)
    BY <1>1, <1>2
  <2>4. \A i \in p .. Len(s) - 1 : i \in 1 .. Len(a) + Len(b) /\ ~(i <= Len(a))
    BY <1>1, <1>2
  <2> QED
    BY <1>1, <2>1, <2>2, <2>3, <2>4, <2>5
<1>5. ASSUME NEW i \in p .. Len(s) - 1 PROVE t[i] = s[i + 1]
  <2>1. i - (p - 1) \in 1 .. Len(s) - p /\ p + (i - (p - 1)) = i + 1
    OBVIOUS
  <2> QED
    BY <1>2, <1>4, <2>1
<1> QED
  BY <1>1, <1>4, <1>5

\* Keys are in a linear order when uids differ.
LEMMA BeforeOrder ==
  ASSUME NEW a \in Event, NEW b \in Event, NEW c \in Event
  PROVE  /\ ~(Before(a, b) /\ Before(b, a))
         /\ Before(a, b) /\ Before(b, c) => Before(a, c)
         /\ a.uid # b.uid => Before(a, b) \/ Before(b, a)
         /\ ~Before(a, a)
BY DEF Before, Event

\* ListScheduler::Insert puts the event behind all that are before it.
LEMMA ListInsertOrdered ==
  ASSUME NEW list, Ordered(list), NEW ev \in Event,
         \A e \in ListEvents(list) : e.uid # ev.uid
  PROVE  /\ Ordered(ListInsert(list, ev))
         /\ ListEvents(ListInsert(list, ev)) = ListEvents(list) \cup {ev}
         /\ Len(ListInsert(list, ev)) = Len(list) + 1
<1>1. list \in Seq(Event) /\ DOMAIN list = 1 .. Len(list) /\ Len(list) \in Nat
  BY DEF Ordered
<1> DEFINE later == {i \in DOMAIN list : Before(ev, list[i])}
           place == IF later = {} THEN Len(list) + 1
                    ELSE CHOOSE i \in later : \A j \in later : i <= j
<1>2. later # {} => place \in later /\ \A j \in later : place <= j
  <2>1. later \in SUBSET Nat
    BY <1>1
  <2> QED
    BY <2>1, LeastOf
<1>3. PICK p : p = place
  OBVIOUS
<1>4. /\ p \in 1 .. Len(list) + 1
      /\ p <= Len(list) => Before(ev, list[p])
      /\ \A j \in 1 .. p - 1 : ~Before(ev, list[j])
  <2>1. CASE later = {}
    BY <1>1, <1>3, <2>1
  <2>2. CASE later # {}
    <3>1. p \in later /\ \A j \in later : p <= j
      BY <1>2, <1>3, <2>2
    <3>2. \A j \in later : j \in 1 .. Len(list) /\ Before(ev, list[j])
      BY <1>1
    <3>3. \A j \in 1 .. Len(list) : Before(ev, list[j]) => j \in later
      BY <1>1
    <3> HIDE DEF later
    <3> QED
      BY <1>1, <3>1, <3>2, <3>3
  <2> QED
    BY <2>1, <2>2
<1>5. ListInsert(list, ev) = Seqs!InsertAt(list, p, ev)
  BY <1>3 DEF ListInsert
<1> HIDE DEF later, place
<1>6. PICK t : t = ListInsert(list, ev)
  OBVIOUS
<1>7. /\ t \in Seq(Event) /\ Len(t) = Len(list) + 1
      /\ t[p] = ev
      /\ \A i \in 1 .. p - 1 : t[i] = list[i]
      /\ \A i \in p + 1 .. Len(list) + 1 : t[i] = list[i - 1]
  <2>1. t = Seqs!InsertAt(list, p, ev) /\ list \in Seq(Event) /\ p \in 1 .. Len(list) + 1
    BY <1>1, <1>4, <1>5, <1>6
  <2> QED
    BY <2>1, InsertAtElements
<1>8. \A i \in 1 .. Len(list) : list[i] \in Event /\ list[i].uid # ev.uid
  BY <1>1 DEF ListEvents
<1>9. \A i, j \in 1 .. Len(list) : i < j => Before(list[i], list[j]) /\ list[i].uid # list[j].uid
  BY <1>1 DEF Ordered
<1>10. \A i \in 1 .. p - 1 : Before(list[i], ev)
  BY <1>1, <1>4, <1>8, BeforeOrder
<1>11. \A i \in p .. Len(list) : Before(ev, list[i])
  <2> SUFFICES ASSUME NEW i \in p .. Len(list) PROVE Before(ev, list[i])
    OBVIOUS
  <2>1. p \in 1 .. Len(list) /\ i \in 1 .. Len(list) /\ Before(ev, list[p])
    BY <1>1, <1>4
  <2>2. i = p \/ p < i
    BY <1>1, <1>4
  <2>3. CASE p < i
    BY <1>8, <1>9, <2>1, <2>3, BeforeOrder
  <2> QED
    BY <2>1, <2>2, <2>3
<1>12. ASSUME NEW i \in 1 .. Len(t), NEW j \in 1 .. Len(t), i < j
       PROVE  Before(t[i], t[j]) /\ t[i].uid # t[j].uid
  <2>1. CASE j < p
    <3>1. i \in 1 .. p - 1 /\ j \in 1 .. p - 1 /\ i \in 1 .. Len(list) /\ j \in 1 .. Len(list)
      BY <1>1, <1>4, <1>7, <1>12, <2>1
    <3> QED
      BY <1>7, <1>9, <1>12, <3>1
  <2>2. CASE j = p
    <3>1. i \in 1 .. p - 1 /\ i \in 1 .. Len(list)
      BY <1>1, <1>4, <1>7, <1>12, <2>2
    <3> QED
      BY <1>7, <1>8, <1>10, <2>2, <3>1
  <2>3. CASE p < j /\ i < p
    <3>1. i \in 1 .. p - 1 /\ i \in 1 .. Len(list) /\ j \in p + 1 .. Len(list) + 1
          /\ j - 1 \in 1 .. Len(list) /\ i < j - 1
      BY <1>1, <1>4, <1>7, <1>12, <2>3
    <3> QED
      BY <1>7, <1>9, <3>1
  <2>4. CASE p < j /\ i = p
    <3>1. j \in p + 1 .. Len(list) + 1 /\ j - 1 \in p .. Len(list) /\ j - 1 \in 1 .. Len(list)
      BY <1>1, <1>4, <1>7, <1>12, <2>4
    <3> QED
      BY <1>7, <1>8, <1>11, <2>4, <3>1
  <2>5. CASE p < i
    <3>1. /\ i \in p + 1 .. Len(list) + 1 /\ j \in p + 1 .. Len(list) + 1
          /\ i - 1 \in 1 .. Len(list) /\ j - 1 \in 1 .. Len(list) /\ i - 1 < j - 1
      BY <1>1, <1>4, <1>7, <1>12, <2>5
    <3> QED
      BY <1>7, <1>9, <3>1
  <2>6. i \in Nat /\ j \in Nat /\ p \in Nat
    BY <1>1, <1>4, <1>7
  <2> QED
    BY <1>12, <2>1, <2>2, <2>3, <2>4, <2>5, <2>6
<1>13. Ordered(t)
  BY <1>7, <1>12 DEF Ordered
<1>14. ListEvents(t) = ListEvents(list) \cup {ev}
  <2>1. ASSUME NEW i \in 1 .. Len(t) PROVE t[i] \in ListEvents(list) \cup {ev}
    <3>1. CASE i < p
      <4>1. i \in 1 .. p - 1 /\ i \in DOMAIN list
        BY <1>1, <1>4, <1>7, <3>1
      <4> QED
        BY <1>7, <4>1 DEF ListEvents
    <3>2. CASE i = p
      BY <1>7, <3>2
    <3>3. CASE p < i
      <4>1. i \in p + 1 .. Len(list) + 1 /\ i - 1 \in DOMAIN list
        BY <1>1, <1>4, <1>7, <3>3
      <4> QED
        BY <1>7, <4>1 DEF ListEvents
    <3> QED
      BY <1>1, <1>4, <1>7, <3>1, <3>2, <3>3
  <2>2. ASSUME NEW i \in 1 .. Len(list) PROVE \E j \in DOMAIN t : t[j] = list[i]
    <3>1. DOMAIN t = 1 .. Len(list) + 1
      BY <1>1, <1>7
    <3>2. CASE i < p
      <4>1. i \in 1 .. p - 1 /\ i \in 1 .. Len(list) + 1
        BY <1>1, <1>4, <3>2
      <4> QED
        BY <1>7, <3>1, <4>1
    <3>3. CASE ~(i < p)
      <4>1. i + 1 \in p + 1 .. Len(list) + 1 /\ i + 1 \in 1 .. Len(list) + 1 /\ i + 1 - 1 = i
        BY <1>1, <1>4, <3>3
      <4>2. t[i + 1] = list[i]
        BY <1>7, <4>1
      <4> QED
        BY <3>1, <4>1, <4>2
    <3> QED
      BY <3>2, <3>3
  <2>3. p \in DOMAIN t /\ DOMAIN t = 1 .. Len(t)
    BY <1>1, <1>4, <1>7
  <2> QED
    BY <1>1, <1>7, <2>1, <2>2, <2>3 DEF ListEvents
<1> QED
  BY <1>6, <1>7, <1>13, <1>14

\* The head is the earliest event, and what the scheduler returns.
LEMMA ListHead ==
  ASSUME NEW list, Ordered(list), list # <<>>
  PROVE  /\ Head(list) \in ListEvents(list) /\ Head(list) \in Event
         /\ \A e \in ListEvents(list) \ {Head(list)} : Before(Head(list), e)
         /\ Earliest(ListEvents(list)) = Head(list)
         /\ Ordered(Tail(list)) /\ Len(Tail(list)) = Len(list) - 1
         /\ ListEvents(Tail(list)) = ListEvents(list) \ {Head(list)}
         /\ \A e \in ListEvents(Tail(list)) : e.uid # Head(list).uid
<1>1. /\ list \in Seq(Event) /\ DOMAIN list = 1 .. Len(list) /\ Len(list) \in Nat \ {0}
      /\ Head(list) = list[1] /\ 1 \in DOMAIN list /\ list[1] \in Event
  BY DEF Ordered
<1>2. \A i, j \in 1 .. Len(list) : i < j => Before(list[i], list[j]) /\ list[i].uid # list[j].uid
  BY <1>1 DEF Ordered
<1>3. PICK h : h = Head(list)
  OBVIOUS
<1>4. PICK t : t = Tail(list)
  OBVIOUS
<1>5. /\ t \in Seq(Event) /\ Len(t) = Len(list) - 1 /\ DOMAIN t = 1 .. Len(list) - 1
      /\ \A i \in 1 .. Len(list) - 1 : t[i] = list[i + 1]
  BY <1>1, <1>4
<1>6. h \in ListEvents(list) /\ h \in Event /\ h = list[1]
  BY <1>1, <1>3 DEF ListEvents
<1>7. \A i \in 1 .. Len(list) : i # 1 => Before(h, list[i]) /\ list[i].uid # h.uid
  BY <1>1, <1>2, <1>6
<1>8. \A e \in ListEvents(list) \ {h} : Before(h, e)
  BY <1>1, <1>6, <1>7 DEF ListEvents
<1>9. Earliest(ListEvents(list)) = h
  <2>1. \A e \in ListEvents(list) : e \in Event
    BY <1>1 DEF ListEvents
  <2>2. ASSUME NEW x \in ListEvents(list), \A f \in ListEvents(list) \ {x} : Before(x, f)
        PROVE  x = h
    BY <1>6, <1>8, <2>1, <2>2, BeforeOrder
  <2> QED
    BY <1>6, <1>8, <2>2 DEF Earliest
<1>10. Ordered(t)
  <2>1. ASSUME NEW i \in 1 .. Len(list) - 1, NEW j \in 1 .. Len(list) - 1, i < j
        PROVE  Before(t[i], t[j]) /\ t[i].uid # t[j].uid
    <3>1. i + 1 \in 1 .. Len(list) /\ j + 1 \in 1 .. Len(list) /\ i + 1 < j + 1
      BY <1>1, <2>1
    <3> QED
      BY <1>2, <1>5, <3>1
  <2> QED
    BY <1>5, <2>1 DEF Ordered
<1>11. ListEvents(t) = ListEvents(list) \ {h} /\ \A e \in ListEvents(t) : e.uid # h.uid
  <2>1. ASSUME NEW i \in 1 .. Len(list) - 1
        PROVE  t[i] \in ListEvents(list) /\ t[i] # h /\ t[i].uid # h.uid
    <3>1. i + 1 \in 1 .. Len(list) /\ i + 1 # 1
      BY <1>1
    <3>2. t[i] = list[i + 1] /\ list[i + 1].uid # h.uid
      BY <1>5, <1>7, <3>1
    <3> QED
      BY <1>1, <3>1, <3>2 DEF ListEvents
  <2>2. ASSUME NEW i \in 1 .. Len(list), list[i] # h
        PROVE  \E j \in DOMAIN t : t[j] = list[i]
    <3>1. i - 1 \in 1 .. Len(list) - 1 /\ i - 1 + 1 = i
      BY <1>1, <1>6, <2>2
    <3>2. t[i - 1] = list[i]
      BY <1>5, <3>1
    <3> QED
      BY <1>5, <3>1, <3>2
  <2>3. ASSUME NEW e \in ListEvents(t)
        PROVE  e \in ListEvents(list) \ {h} /\ e.uid # h.uid
    BY <1>5, <2>1 DEF ListEvents
  <2>4. ASSUME NEW e \in ListEvents(list) \ {h} PROVE e \in ListEvents(t)
    <3>1. PICK i \in 1 .. Len(list) : list[i] = e
      BY <1>1 DEF ListEvents
    <3>2. PICK j \in DOMAIN t : t[j] = list[i]
      BY <2>2, <3>1
    <3> QED
      BY <3>1, <3>2 DEF ListEvents
  <2> QED
    BY <2>3, <2>4
<1> QED
  BY <1>3, <1>4, <1>5, <1>6, <1>8, <1>9, <1>10, <1>11

\* ListScheduler::Remove, of an event that is there, removes that one.
LEMMA ListRemoveOrdered ==
  ASSUME NEW list, Ordered(list), NEW ev \in ListEvents(list)
  PROVE  /\ Ordered(ListRemove(list, ev))
         /\ ListEvents(ListRemove(list, ev)) = ListEvents(list) \ {ev}
<1>1. list \in Seq(Event) /\ DOMAIN list = 1 .. Len(list) /\ Len(list) \in Nat
  BY DEF Ordered
<1>2. \A i, j \in 1 .. Len(list) : i < j => Before(list[i], list[j]) /\ list[i].uid # list[j].uid
  BY <1>1 DEF Ordered
<1>3. PICK m \in 1 .. Len(list) : list[m] = ev
  BY <1>1 DEF ListEvents
<1>4. \A i \in 1 .. Len(list) : list[i].uid = ev.uid => i = m
  BY <1>1, <1>2, <1>3
<1>5. (CHOOSE i \in DOMAIN list : list[i].uid = ev.uid) = m
  BY <1>1, <1>3, <1>4
<1>6. PICK t : t = ListRemove(list, ev)
  OBVIOUS
<1>7. t = Seqs!RemoveAt(list, m)
  BY <1>5, <1>6 DEF ListRemove
<1>8. /\ t \in Seq(Event) /\ Len(t) = Len(list) - 1
      /\ \A i \in 1 .. m - 1 : t[i] = list[i]
      /\ \A i \in m .. Len(list) - 1 : t[i] = list[i + 1]
  <2>1. list \in Seq(Event) /\ m \in 1 .. Len(list) /\ t = Seqs!RemoveAt(list, m)
    BY <1>1, <1>7
  <2> QED
    BY <2>1, RemoveAtElements
<1>9. \A i \in 1 .. Len(list) - 1 :
        \E k \in 1 .. Len(list) : /\ t[i] = list[k] /\ k # m
                                  /\ (i < m /\ k = i) \/ (i >= m /\ k = i + 1)
  <2> TAKE i \in 1 .. Len(list) - 1
  <2>1. CASE i < m
    <3>1. i \in 1 .. m - 1 /\ i \in 1 .. Len(list) /\ i # m
      BY <1>1, <2>1
    <3> QED
      BY <1>8, <2>1, <3>1
  <2>2. CASE ~(i < m)
    <3>1. i \in m .. Len(list) - 1 /\ i + 1 \in 1 .. Len(list) /\ i + 1 # m /\ i >= m
      BY <1>1, <2>2
    <3> QED
      BY <1>8, <3>1
  <2> QED
    BY <2>1, <2>2
<1>10. Ordered(t)
  <2>1. ASSUME NEW i \in 1 .. Len(list) - 1, NEW j \in 1 .. Len(list) - 1, i < j
        PROVE  Before(t[i], t[j]) /\ t[i].uid # t[j].uid
    <3>1. PICK k \in 1 .. Len(list) : t[i] = list[k]
                                      /\ ((i < m /\ k = i) \/ (i >= m /\ k = i + 1))
      BY <1>9
    <3>2. PICK l \in 1 .. Len(list) : t[j] = list[l]
                                      /\ ((j < m /\ l = j) \/ (j >= m /\ l = j + 1))
      BY <1>9
    <3>3. k < l
      BY <2>1, <3>1, <3>2
    <3> QED
      BY <1>2, <3>1, <3>2, <3>3
  <2> QED
    BY <1>1, <1>8, <2>1 DEF Ordered
<1>11. ListEvents(t) = ListEvents(list) \ {ev}
  <2>1. ASSUME NEW i \in 1 .. Len(list) - 1 PROVE t[i] \in ListEvents(list) \ {ev}
    <3>1. PICK k \in 1 .. Len(list) : t[i] = list[k] /\ k # m
      BY <1>9
    <3>2. list[k] # ev
      BY <1>4, <3>1
    <3> QED
      BY <1>1, <3>1, <3>2 DEF ListEvents
  <2>2. ASSUME NEW i \in 1 .. Len(list), list[i] # ev
        PROVE  \E j \in 1 .. Len(list) - 1 : t[j] = list[i]
    <3>1. CASE i < m
      <4>1. i \in 1 .. m - 1 /\ i \in 1 .. Len(list) - 1
        BY <1>1, <3>1
      <4> QED
        BY <1>8, <4>1
    <3>2. CASE ~(i < m)
      <4>1. i - 1 \in m .. Len(list) - 1 /\ i - 1 \in 1 .. Len(list) - 1 /\ i - 1 + 1 = i
        BY <1>1, <1>3, <2>2, <3>2
      <4>2. t[i - 1] = list[i]
        BY <1>8, <4>1
      <4> QED
        BY <4>1, <4>2
    <3> QED
      BY <3>1, <3>2
  <2>3. DOMAIN t = 1 .. Len(list) - 1
    BY <1>1, <1>8
  <2>4. ASSUME NEW e \in ListEvents(t) PROVE e \in ListEvents(list) \ {ev}
    BY <2>1, <2>3 DEF ListEvents
  <2>5. ASSUME NEW e \in ListEvents(list) \ {ev} PROVE e \in ListEvents(t)
    <3>1. PICK i \in 1 .. Len(list) : list[i] = e
      BY <1>1 DEF ListEvents
    <3>2. PICK j \in 1 .. Len(list) - 1 : t[j] = list[i]
      BY <2>2, <3>1
    <3> QED
      BY <2>3, <3>1, <3>2 DEF ListEvents
  <2> QED
    BY <2>4, <2>5
<1> QED
  BY <1>6, <1>10, <1>11

-----------------------------------------------------------------------------
(* The operations of Scheduler on a list. *)

Lists == {s \in [type : {"list"}, data : Seq(Event)] : Ordered(s.data)}

LEMMA NewList == NewScheduler("list") \in Lists /\ EventsOf(NewScheduler("list")) = {}
<1>1. NewScheduler("list") = [type |-> "list", data |-> <<>>]
  BY DEF NewScheduler
<1>2. <<>> \in Seq(Event) /\ DOMAIN <<>> = {}
  OBVIOUS
<1>3. Ordered(<<>>) /\ ListEvents(<<>>) = {}
  BY <1>2 DEF Ordered, ListEvents
<1>4. PICK s : s = NewScheduler("list")
  OBVIOUS
<1>5. s.type = "list" /\ s.data = <<>>
  BY <1>1, <1>4
<1>7. s \in [type : {"list"}, data : Seq(Event)]
  <2> DEFINE d == <<>>  T == Seq(Event)
  <2>1. d \in T /\ s = [type |-> "list", data |-> d]
    BY <1>1, <1>2, <1>4
  <2> HIDE DEF d, T
  <2>2. s \in [type : {"list"}, data : T]
    BY <2>1
  <2> QED
    BY <2>2 DEF T
<1>6. s \in Lists /\ EventsOf(s) = {}
  BY <1>3, <1>5, <1>7 DEF Lists, EventsOf
<1> QED
  BY <1>4, <1>6

LEMMA InsertInList ==
  ASSUME NEW s \in Lists, NEW ev \in Event, \A e \in EventsOf(s) : e.uid # ev.uid
  PROVE  /\ Insert(s, ev) \in Lists
         /\ EventsOf(Insert(s, ev)) = EventsOf(s) \cup {ev}
<1>1. s.type = "list" /\ Ordered(s.data) /\ s = [type |-> "list", data |-> s.data]
  BY DEF Lists
<1>2. EventsOf(s) = ListEvents(s.data)
  BY <1>1 DEF EventsOf
<1>3. Insert(s, ev) = [type |-> "list", data |-> ListInsert(s.data, ev)]
  BY <1>1 DEF Insert
<1>4. /\ Ordered(ListInsert(s.data, ev))
      /\ ListEvents(ListInsert(s.data, ev)) = ListEvents(s.data) \cup {ev}
  BY <1>1, <1>2, ListInsertOrdered
<1>5. ListInsert(s.data, ev) \in Seq(Event)
  BY <1>4 DEF Ordered
<1> QED
  BY <1>2, <1>3, <1>4, <1>5 DEF Lists, EventsOf

LEMMA NextInList ==
  ASSUME NEW s \in Lists, EventsOf(s) # {}
  PROVE  /\ PeekNext(s) \in EventsOf(s) /\ PeekNext(s) \in Event
         /\ PeekNext(s) = Earliest(EventsOf(s))
         /\ \A e \in EventsOf(s) \ {PeekNext(s)} : Before(PeekNext(s), e)
         /\ RemoveNext(s) \in Lists
         /\ EventsOf(RemoveNext(s)) = EventsOf(s) \ {PeekNext(s)}
         /\ \A e \in EventsOf(RemoveNext(s)) : e.uid # PeekNext(s).uid
         /\ Len(s.data) \in Nat \ {0} /\ Len(RemoveNext(s).data) = Len(s.data) - 1
<1>1. s.type = "list" /\ Ordered(s.data) /\ s = [type |-> "list", data |-> s.data]
  BY DEF Lists
<1>2. EventsOf(s) = ListEvents(s.data)
  BY <1>1 DEF EventsOf
<1>3. s.data \in Seq(Event) /\ s.data # <<>> /\ Len(s.data) \in Nat \ {0}
  BY <1>1, <1>2 DEF Ordered, ListEvents
<1>4. PeekNext(s) = Head(s.data) /\ RemoveNext(s) = [type |-> "list", data |-> Tail(s.data)]
  <2>1. PeekNext(s) = Head(s.data)
    BY <1>1 DEF PeekNext
  <2>2. RemoveNext(s) = [s EXCEPT !.data = Tail(s.data)]
    BY <1>1 DEF RemoveNext
  <2>3. [s EXCEPT !.data = Tail(s.data)] = [type |-> "list", data |-> Tail(s.data)]
    <3>1. PICK d : d = Tail(s.data)
      OBVIOUS
    <3>2. [s EXCEPT !.data = d] = [type |-> "list", data |-> d]
      BY <1>1
    <3> QED
      BY <3>1, <3>2
  <2> QED
    BY <2>1, <2>2, <2>3
<1>5. /\ Head(s.data) \in ListEvents(s.data) /\ Head(s.data) \in Event
      /\ \A e \in ListEvents(s.data) \ {Head(s.data)} : Before(Head(s.data), e)
      /\ Earliest(ListEvents(s.data)) = Head(s.data)
      /\ Ordered(Tail(s.data)) /\ Len(Tail(s.data)) = Len(s.data) - 1
      /\ ListEvents(Tail(s.data)) = ListEvents(s.data) \ {Head(s.data)}
      /\ \A e \in ListEvents(Tail(s.data)) : e.uid # Head(s.data).uid
  BY <1>1, <1>3, ListHead
<1>6. Tail(s.data) \in Seq(Event)
  BY <1>5 DEF Ordered
<1>7. EventsOf(RemoveNext(s)) = ListEvents(Tail(s.data)) /\ RemoveNext(s) \in Lists
      /\ RemoveNext(s).data = Tail(s.data)
  <2>1. PICK t : t = RemoveNext(s)
    OBVIOUS
  <2>2. t.type = "list" /\ t.data = Tail(s.data) /\ t \in [type : {"list"}, data : Seq(Event)]
    BY <1>4, <1>6, <2>1
  <2>3. EventsOf(t) = ListEvents(t.data) /\ t \in Lists
    BY <1>5, <2>2 DEF EventsOf, Lists
  <2> QED
    BY <2>1, <2>2, <2>3
<1> QED
  BY <1>2, <1>3, <1>4, <1>5, <1>7

LEMMA RemoveInList ==
  ASSUME NEW s \in Lists, NEW ev \in EventsOf(s)
  PROVE  RemoveEvent(s, ev) \in Lists /\ EventsOf(RemoveEvent(s, ev)) = EventsOf(s) \ {ev}
<1>1. s.type = "list" /\ Ordered(s.data) /\ s = [type |-> "list", data |-> s.data]
  BY DEF Lists
<1>2. EventsOf(s) = ListEvents(s.data)
  BY <1>1 DEF EventsOf
<1>3. RemoveEvent(s, ev) = [type |-> "list", data |-> ListRemove(s.data, ev)]
  BY <1>1 DEF RemoveEvent
<1>4. /\ Ordered(ListRemove(s.data, ev))
      /\ ListEvents(ListRemove(s.data, ev)) = ListEvents(s.data) \ {ev}
  BY <1>1, <1>2, ListRemoveOrdered
<1>5. ListRemove(s.data, ev) \in Seq(Event)
  BY <1>4 DEF Ordered
<1> QED
  BY <1>2, <1>3, <1>4, <1>5 DEF Lists, EventsOf

LEMMA ListTypes ==
  ASSUME NEW s \in Lists, NEW e \in EventsOf(s)
  PROVE  e \in Event
BY DEF Lists, EventsOf, ListEvents

\* The events that other threads handed over, and the program's own stay.
Given(j) == [ts |-> currentTs + withContext[j], uid |-> uid + j - 1]

LEMMA TakenInList ==
  ASSUME events \in Lists, uid \in Nat, currentTs \in Nat, withContext \in Seq(Nat),
         \A e \in EventsOf(events) : e.uid < uid
  PROVE  /\ Taken \in Lists
         /\ EventsOf(Taken) = EventsOf(events) \cup {Given(j) : j \in 1 .. Len(withContext)}
<1> DEFINE n == Len(withContext)
           S == [k \in 0 .. n |->
                   {s \in Lists : EventsOf(s) = EventsOf(events) \cup {Given(j) : j \in 1 .. k}}]
           step == [k \in 1 .. n |-> [x \in S[k - 1] |-> Insert(x, Given(k))]]
           Rec(f) == f = [k \in 0 .. n |->
                            IF k = 0 THEN events
                            ELSE Insert(f[k - 1],
                                        [ts |-> currentTs + withContext[k], uid |-> uid + k - 1])]
           g == CHOOSE f : Rec(f)
<1>1. n \in Nat /\ \A j \in 1 .. n : Given(j) \in Event /\ Given(j).uid = uid + j - 1
  BY DEF Given, Event
<1>2. events \in S[0]
  <2>1. 0 \in 0 .. n /\ 1 .. 0 = {}
    BY <1>1
  <2> QED
    BY <2>1
<1>3. ASSUME NEW k \in 1 .. n, NEW x \in S[k - 1] PROVE Insert(x, Given(k)) \in S[k]
  <2>1. k \in 0 .. n /\ k - 1 \in 0 .. n /\ 1 .. k = (1 .. k - 1) \cup {k}
    BY <1>1
  <2>2. x \in Lists /\ EventsOf(x) = EventsOf(events) \cup {Given(j) : j \in 1 .. k - 1}
    BY <2>1
  <2>3. ASSUME NEW e \in EventsOf(x) PROVE e.uid # Given(k).uid
    <3>1. CASE e \in EventsOf(events)
      <4>1. e.uid < uid /\ e \in Event /\ Given(k).uid = uid + k - 1
        BY <1>1, <3>1, ListTypes
      <4> QED
        BY <4>1 DEF Event
    <3>2. ASSUME NEW j \in 1 .. k - 1, e = Given(j) PROVE e.uid # Given(k).uid
      <4>1. j \in 1 .. n /\ j < k
        BY <1>1
      <4> QED
        BY <1>1, <3>2, <4>1
    <3> QED
      BY <2>2, <3>1, <3>2
  <2>4. /\ Insert(x, Given(k)) \in Lists
        /\ EventsOf(Insert(x, Given(k))) = EventsOf(x) \cup {Given(k)}
    BY <1>1, <2>2, <2>3, InsertInList
  <2>5. EventsOf(x) \cup {Given(k)} = EventsOf(events) \cup {Given(j) : j \in 1 .. k}
    BY <2>1, <2>2
  <2> QED
    BY <2>1, <2>4, <2>5
<1> HIDE DEF S
<1>4. \A k \in 1 .. n : \A x \in S[k - 1] : step[k][x] \in S[k]
  BY <1>3
<1>5. PICK f : /\ f = [k \in 0 .. n |-> IF k = 0 THEN events ELSE step[k][f[k - 1]]]
               /\ \A k \in 0 .. n : f[k] \in S[k]
  <2> HIDE DEF step, n
  <2>1. n \in Nat /\ Leads(step, n, S)
    BY <1>1, <1>4 DEF Leads
  <2>2. \E f : Recursive(f, n, events, step) /\ Within(f, n, S)
    BY <1>2, <2>1, RecursionDefines, Zenon
  <2> QED
    BY <2>2, Zenon DEF Recursive, Within
<1>6. Rec(f)
  <2>1. ASSUME NEW k \in 1 .. n PROVE step[k][f[k - 1]] = Insert(f[k - 1], Given(k))
    <3>1. k - 1 \in 0 .. n
      BY <1>1
    <3> QED
      BY <1>5, <3>1
  <2>2. ASSUME NEW k \in 0 .. n
        PROVE  (IF k = 0 THEN events ELSE step[k][f[k - 1]])
               = (IF k = 0 THEN events ELSE Insert(f[k - 1], Given(k)))
    <3>1. k = 0 \/ k \in 1 .. n
      BY <1>1
    <3> QED
      BY <2>1, <3>1
  <2>3. f = [k \in 0 .. n |-> IF k = 0 THEN events ELSE Insert(f[k - 1], Given(k))]
    BY <1>5, <2>2, Zenon
  <2> QED
    BY <2>3, Zenon DEF Given
<1>7. Rec(g)
  BY <1>6, Zenon
<1>8. Taken = g[n]
  BY DEF Taken
<1> HIDE DEF g
<1>9. \A k \in 0 .. n : g[k] = IF k = 0 THEN events ELSE Insert(g[k - 1], Given(k))
  BY <1>7, Zenon DEF Given
<1> DEFINE A == {k \in 0 .. n : g[k] \in S[k]}
<1>10. 0 \in A
  BY <1>1, <1>2, <1>9
<1>11. ASSUME NEW k \in 1 .. n, k - 1 \in A PROVE k \in A
  <2>1. k \in 0 .. n /\ k # 0 /\ g[k - 1] \in S[k - 1]
    BY <1>1, <1>11
  <2>2. g[k] = Insert(g[k - 1], Given(k))
    BY <1>9, <2>1
  <2> QED
    BY <1>3, <2>1, <2>2
<1>12. 0 .. n \subseteq A
  <2> HIDE DEF A, n
  <2> QED
    BY <1>1, <1>10, <1>11, StepByStep
<1>13. g[n] \in S[n] /\ n \in 0 .. n
  BY <1>1, <1>12
<1> QED
  BY <1>8, <1>13 DEF S

\* A list holds each event once.
LEMMA ListCardinality ==
  ASSUME NEW s \in Lists
  PROVE  Cardinality(EventsOf(s)) = Len(s.data) /\ Len(s.data) \in Nat
<1>1. /\ s.data \in Seq(Event) /\ EventsOf(s) = ListEvents(s.data)
      /\ DOMAIN s.data = 1 .. Len(s.data) /\ Len(s.data) \in Nat
  BY DEF Lists, Ordered, EventsOf
<1>2. \A i, j \in 1 .. Len(s.data) : i < j => s.data[i] # s.data[j]
  BY <1>1 DEF Lists, Ordered
<1> DEFINE D == 1 .. Len(s.data)  E == ListEvents(s.data)
           f == [i \in D |-> s.data[i]]
<1>3. \A i, j \in D : s.data[i] = s.data[j] => i = j
  BY <1>1, <1>2
<1>4. /\ \A i \in D : s.data[i] \in E
      /\ \A e \in E : \E i \in D : s.data[i] = e
  BY <1>1 DEF ListEvents
<1> HIDE DEF D, E
<1>5. f \in Bijection(D, E)
  BY <1>3, <1>4 DEF Bijection, Injection, Surjection, IsInjective
<1>6. IsFiniteSet(D) /\ Cardinality(D) = Len(s.data)
  BY <1>1, FS_Interval DEF D
<1>7. ExistsBijection(D, E)
  BY <1>5 DEF ExistsBijection
<1>8. Cardinality(E) = Cardinality(D)
  BY <1>6, <1>7, FS_Bijection
<1> QED
  BY <1>1, <1>6, <1>8 DEF E

\* SetScheduler moves every event, and no other.
LEMMA MovedToList ==
  ASSUME events \in Lists
  PROVE  Moved("list") \in Lists /\ EventsOf(Moved("list")) = EventsOf(events)
<1> DEFINE n == Cardinality(EventsOf(events))
           S == [k \in 0 .. n |->
                   {m \in [from : Lists, to : Lists] :
                      /\ Len(m.from.data) = n - k
                      /\ EventsOf(m.from) \cup EventsOf(m.to) = EventsOf(events)
                      /\ \A a \in EventsOf(m.from), b \in EventsOf(m.to) : a.uid # b.uid}]
           base == [from |-> events, to |-> NewScheduler("list")]
           Move(m) == [from |-> RemoveNext(m.from), to |-> Insert(m.to, PeekNext(m.from))]
           step == [k \in 1 .. n |-> [x \in S[k - 1] |-> Move(x)]]
           Rec(f) == f = [k \in 0 .. n |->
                            IF k = 0 THEN [from |-> events, to |-> NewScheduler("list")]
                            ELSE [from |-> RemoveNext(f[k - 1].from),
                                  to |-> Insert(f[k - 1].to, PeekNext(f[k - 1].from))]]
           g == CHOOSE f : Rec(f)
<1>1. n \in Nat /\ Len(events.data) = n
  BY ListCardinality
<1>2. base \in S[0]
  <2>1. 0 \in 0 .. n /\ n - 0 = n
    BY <1>1
  <2>2. base.from = events /\ base.to = NewScheduler("list") /\ base \in [from : Lists, to : Lists]
    BY NewList
  <2> HIDE DEF base
  <2> QED
    BY <1>1, <2>1, <2>2, NewList
<1>3. ASSUME NEW k \in 1 .. n, NEW x \in S[k - 1] PROVE Move(x) \in S[k]
  <2>1. k \in 0 .. n /\ k - 1 \in 0 .. n /\ n - (k - 1) \in Nat \ {0} /\ n - k = n - (k - 1) - 1
    BY <1>1
  <2>2. /\ x.from \in Lists /\ x.to \in Lists /\ Len(x.from.data) = n - (k - 1)
        /\ EventsOf(x.from) \cup EventsOf(x.to) = EventsOf(events)
        /\ \A a \in EventsOf(x.from), b \in EventsOf(x.to) : a.uid # b.uid
    BY <2>1
  <2>3. EventsOf(x.from) # {}
    <3>1. /\ x.from.data \in Seq(Event) /\ Len(x.from.data) \in Nat \ {0}
          /\ EventsOf(x.from) = ListEvents(x.from.data)
      BY <2>1, <2>2 DEF Lists, EventsOf
    <3>2. 1 \in DOMAIN x.from.data
      BY <3>1
    <3>3. x.from.data[1] \in ListEvents(x.from.data)
      BY <3>2, Zenon DEF ListEvents
    <3> QED
      BY <3>1, <3>3
  <2>4. PICK p : p = PeekNext(x.from)
    OBVIOUS
  <2>5. PICK r : r = RemoveNext(x.from)
    OBVIOUS
  <2>6. /\ p \in EventsOf(x.from) /\ p \in Event /\ r \in Lists
        /\ EventsOf(r) = EventsOf(x.from) \ {p}
        /\ \A e \in EventsOf(r) : e.uid # p.uid
        /\ Len(r.data) = Len(x.from.data) - 1
    BY <2>2, <2>3, <2>4, <2>5, NextInList
  <2>7. PICK t : t = Insert(x.to, p)
    OBVIOUS
  <2>8. t \in Lists /\ EventsOf(t) = EventsOf(x.to) \cup {p}
    <3>1. \A e \in EventsOf(x.to) : e.uid # p.uid
      BY <2>2, <2>6
    <3> QED
      BY <2>2, <2>6, <2>7, <3>1, InsertInList
  <2>9. /\ Len(r.data) = n - k
        /\ EventsOf(r) \cup EventsOf(t) = EventsOf(events)
        /\ \A a \in EventsOf(r), b \in EventsOf(t) : a.uid # b.uid
    <3>1. Len(r.data) = n - k
      BY <2>1, <2>2, <2>6
    <3>2. EventsOf(r) \cup EventsOf(t) = EventsOf(events)
      BY <2>2, <2>6, <2>8
    <3>3. \A a \in EventsOf(r), b \in EventsOf(t) : a.uid # b.uid
      BY <2>2, <2>6, <2>8
    <3> QED
      BY <3>1, <3>2, <3>3
  <2>10. Move(x) = [from |-> r, to |-> t]
    BY <2>4, <2>5, <2>7
  <2>11. PICK m : m = [from |-> r, to |-> t]
    OBVIOUS
  <2>12. m \in [from : Lists, to : Lists] /\ m.from = r /\ m.to = t
    BY <2>6, <2>8, <2>11
  <2>13. m \in S[k]
    <3> HIDE DEF n, Move
    <3> QED
      BY <2>1, <2>9, <2>12
  <2> QED
    BY <2>10, <2>11, <2>13
<1> HIDE DEF S, Move
<1>4. \A k \in 1 .. n : \A x \in S[k - 1] : step[k][x] \in S[k]
  BY <1>3
<1>5. PICK f : /\ f = [k \in 0 .. n |-> IF k = 0 THEN base ELSE step[k][f[k - 1]]]
               /\ \A k \in 0 .. n : f[k] \in S[k]
  <2> HIDE DEF step, n, base
  <2>1. n \in Nat /\ Leads(step, n, S)
    BY <1>1, <1>4 DEF Leads
  <2>2. \E f : Recursive(f, n, base, step) /\ Within(f, n, S)
    BY <1>2, <2>1, RecursionDefines, Zenon
  <2> QED
    BY <2>2, Zenon DEF Recursive, Within
<1>6. Rec(f)
  <2> HIDE DEF base, n
  <2>1. ASSUME NEW k \in 1 .. n PROVE step[k][f[k - 1]] = Move(f[k - 1])
    <3>1. k - 1 \in 0 .. n
      BY <1>1
    <3> QED
      BY <1>5, <3>1
  <2>2. ASSUME NEW k \in 0 .. n
        PROVE  (IF k = 0 THEN base ELSE step[k][f[k - 1]])
               = (IF k = 0 THEN base ELSE Move(f[k - 1]))
    <3>1. k = 0 \/ k \in 1 .. n
      BY <1>1
    <3> QED
      BY <2>1, <3>1
  <2>3. f = [k \in 0 .. n |-> IF k = 0 THEN base ELSE Move(f[k - 1])]
    BY <1>5, <2>2, Zenon
  <2> QED
    BY <2>3, Zenon DEF Move, base
<1>7. Rec(g)
  BY <1>6, Zenon
<1>8. Moved("list") = g[n].to
  BY DEF Moved
<1> HIDE DEF g
<1>9. \A k \in 0 .. n : g[k] = IF k = 0 THEN base ELSE Move(g[k - 1])
  BY <1>7, Zenon DEF Move
<1> DEFINE A == {k \in 0 .. n : g[k] \in S[k]}
<1> HIDE DEF base
<1>10. 0 \in A
  BY <1>1, <1>2, <1>9
<1>11. ASSUME NEW k \in 1 .. n, k - 1 \in A PROVE k \in A
  <2>1. k \in 0 .. n /\ k # 0 /\ g[k - 1] \in S[k - 1]
    BY <1>1, <1>11
  <2>2. g[k] = Move(g[k - 1])
    BY <1>9, <2>1
  <2> QED
    BY <1>3, <2>1, <2>2
<1>12. 0 .. n \subseteq A
  <2> HIDE DEF A, n
  <2> QED
    BY <1>1, <1>10, <1>11, StepByStep
<1>13. g[n] \in S[n] /\ n \in 0 .. n /\ n - n = 0
  BY <1>1, <1>12
<1>14. PICK m : m = g[n]
  OBVIOUS
<1>15. /\ m.from \in Lists /\ m.to \in Lists /\ Len(m.from.data) = 0
       /\ EventsOf(m.from) \cup EventsOf(m.to) = EventsOf(events)
  <2> HIDE DEF n
  <2> QED
    BY <1>13, <1>14 DEF S
<1>16. EventsOf(m.from) = {}
  BY <1>15 DEF Lists, EventsOf, ListEvents
<1> QED
  BY <1>8, <1>14, <1>15, <1>16

-----------------------------------------------------------------------------
(* The simulator over a list. *)

Present == [ts |-> currentTs, uid |-> currentUid]

\* What is known of uids and times: events that wait come after the present
\* one, and what the program or a thread schedules next comes after them all.
ScheduleInv ==
  /\ events \in Lists
  /\ uid \in Nat /\ currentTs \in Nat /\ currentUid \in Nat /\ currentUid < uid
  /\ withContext \in Seq(Nat)
  /\ \A e \in EventsOf(events) : e.uid < uid /\ Before(Present, e)
  /\ ids \subseteq Event /\ \A id \in ids : id.uid < uid
  /\ \A u \in cancelled : u \in Nat /\ u < uid
  /\ ExpiredExact

\* IsExpired in terms of the order of keys.
LEMMA ExpiredIsPast ==
  ASSUME NEW id \in Event, currentTs \in Nat, currentUid \in Nat
  PROVE  IsExpired(id) <=> ~Before(Present, id) \/ id.uid \in cancelled
BY DEF IsExpired, Before, Present, Event

\* ExpiredExact, in terms of the order.
LEMMA ExactOrder ==
  ASSUME ids \subseteq Event, currentTs \in Nat, currentUid \in Nat
  PROVE  ExpiredExact <=>
           \A id \in ids : id.uid \notin cancelled
                             => (id \in EventsOf(events) <=> Before(Present, id))
BY ExpiredIsPast DEF ExpiredExact

LEMMA ScheduleInvInit ==
  ASSUME Types = {"list"}, Init
  PROVE  ScheduleInv
<1>1. events = NewScheduler("list")
  BY DEF Init
<1>2. <<>> \in Seq(Nat)
  OBVIOUS
<1> QED
  BY <1>1, <1>2, NewList DEF Init, ScheduleInv, ExpiredExact

\* A step that only adds events, numbered as they come and not in the past,
\* and the ids of some of them.
LEMMA AddedInv ==
  ASSUME ScheduleInv, events' \in Lists, UNCHANGED <<clock, cancelled>>,
         uid' \in Nat, uid <= uid', withContext' \in Seq(Nat),
         NEW new \in SUBSET Event, EventsOf(events') = EventsOf(events) \cup new,
         \A e \in new : uid <= e.uid /\ e.uid < uid' /\ currentTs <= e.ts,
         \/ ids' = ids
         \/ \E e \in new : ids' = ids \cup {e}
  PROVE  ScheduleInv'
<1>1. /\ uid \in Nat /\ currentTs \in Nat /\ currentUid \in Nat /\ currentUid < uid
      /\ currentTs' = currentTs /\ currentUid' = currentUid /\ cancelled' = cancelled
      /\ Present' = Present /\ Present.ts = currentTs /\ Present.uid = currentUid
      /\ ids \subseteq Event
  BY DEF ScheduleInv, clock, Present
<1>2. EventsOf(events)' = EventsOf(events) \cup new
  OBVIOUS
<1>3. \A e \in EventsOf(events) : e \in Event /\ e.uid < uid /\ Before(Present, e)
  BY ListTypes DEF ScheduleInv
<1>4. \A e \in new : e.uid \in Nat /\ e.ts \in Nat /\ e.uid < uid' /\ Before(Present, e)
  BY <1>1 DEF Event, Before
<1>5. \A e \in EventsOf(events)' : e.uid < uid' /\ Before(Present, e)'
  <2>1. \A e \in EventsOf(events) : e.uid < uid'
    BY <1>1, <1>3 DEF Event
  <2> QED
    BY <1>1, <1>2, <1>3, <1>4, <2>1 DEF Before
<1>6. ids' \subseteq Event /\ \A id \in ids' : id.uid < uid'
  <2>1. \A id \in ids : id \in Event /\ id.uid < uid
    BY DEF ScheduleInv
  <2>2. \A id \in ids : id.uid < uid'
    BY <1>1, <2>1 DEF Event
  <2> QED
    BY <1>1, <1>4, <2>2
<1>7. \A u \in cancelled' : u \in Nat /\ u < uid'
  <2>1. \A u \in cancelled : u \in Nat /\ u < uid
    BY DEF ScheduleInv
  <2> QED
    BY <1>1, <2>1
<1>8. \A id \in ids' : id.uid \notin cancelled'
                         => (id \in EventsOf(events)' <=> Before(Present, id)')
  <2>1. ASSUME NEW id \in ids, id.uid \notin cancelled
        PROVE  id \in EventsOf(events)' <=> Before(Present, id)
    <3>1. id \in EventsOf(events) <=> Before(Present, id)
      BY <1>1, <2>1, ExactOrder DEF ScheduleInv
    <3>2. id \notin new
      <4>1. id.uid \in Nat /\ id.uid < uid
        BY DEF ScheduleInv, Event
      <4> QED
        BY <1>1, <1>4, <4>1
    <3> QED
      BY <1>2, <3>1, <3>2
  <2>2. \A id \in new : id \in EventsOf(events)' /\ Before(Present, id)
    BY <1>2, <1>4
  <2> QED
    BY <1>1, <2>1, <2>2 DEF Before
<1>9. ExpiredExact'
  <2>1. (\A id \in ids : id.uid \notin cancelled
                           => (id \in EventsOf(events) <=> Before(Present, id)))'
    BY <1>8
  <2> QED
    BY <1>1, <1>6, <2>1, ExpiredIsPast DEF ExpiredExact, IsExpired, Before, Present, Event
<1> QED
  BY <1>1, <1>5, <1>6, <1>7, <1>9 DEF ScheduleInv

\* To EventQueue events that are numbered one after the other arrive.
LEMMA AddedArrives ==
  ASSUME NEW delays \in Seq(Nat), UNCHANGED <<clock, cancelled>>,
         EventsOf(events') = EventsOf(events)
           \cup {[ts |-> currentTs + delays[k], uid |-> uid + k - 1] : k \in 1 .. Len(delays)},
         uid' = uid + Len(delays)
  PROVE  Promise!Arrive(delays)
<1> DEFINE last == [ts |-> currentTs, uid |-> currentUid]
<1>1. currentTs' = currentTs /\ currentUid' = currentUid /\ cancelled' = cancelled
  BY DEF clock
<1>2. DOMAIN delays = 1 .. Len(delays) /\ last.ts = currentTs
  OBVIOUS
<1>3. EventsOf(events)' = EventsOf(events)
           \cup {[ts |-> last.ts + delays[k], uid |-> uid + k - 1] : k \in DOMAIN delays}
  BY <1>2
<1>4. last' = last
  BY <1>1
<1> QED
  BY <1>1, <1>3, <1>4, Zenon DEF Promise!Arrive, Promise!Numbered

\* The next event runs: it is the earliest, and all that wait come after it.
LEMMA ProcessOneEventInv ==
  ASSUME ScheduleInv, ProcessOneEvent
  PROVE  ScheduleInv' /\ Promise!Take /\ currentTs' >= currentTs
<1>1. /\ uid \in Nat /\ currentTs \in Nat /\ currentUid \in Nat
      /\ events \in Lists /\ ids \subseteq Event
  BY DEF ScheduleInv
<1>2. PICK p : p = PeekNext(events)
  OBVIOUS
<1>3. /\ EventsOf(events) # {} /\ currentTs' = p.ts /\ currentUid' = p.uid
      /\ events' = RemoveNext(events) /\ uid' = uid /\ ids' = ids /\ cancelled' = cancelled
      /\ withContext' = withContext
  BY <1>2 DEF ProcessOneEvent, IsEmpty, handed
<1>4. /\ p \in EventsOf(events) /\ p \in Event /\ p = Earliest(EventsOf(events))
      /\ \A e \in EventsOf(events) \ {p} : Before(p, e)
      /\ events' \in Lists /\ EventsOf(events)' = EventsOf(events) \ {p}
      /\ \A e \in EventsOf(events)' : e.uid # p.uid
  BY <1>1, <1>2, <1>3, NextInList
<1>5. Present \in Event /\ Present' = p
  BY <1>1, <1>3, <1>4 DEF Present, Event
<1>6. Before(Present, p) /\ p.uid < uid
  BY <1>4 DEF ScheduleInv
<1>7. \A e \in EventsOf(events)' : e \in Event /\ e.uid < uid /\ Before(p, e)
  BY <1>1, <1>4, ListTypes DEF ScheduleInv
<1>8. \A id \in ids : id.uid \notin cancelled
                        => (id \in EventsOf(events) <=> Before(Present, id))
  BY <1>1, ExactOrder DEF ScheduleInv
<1>9. ASSUME NEW id \in ids, id.uid \notin cancelled
      PROVE  id \in EventsOf(events)' <=> Before(p, id)
  <2>1. id \in Event
    BY <1>1
  <2>2. ASSUME Before(p, id) PROVE id \in EventsOf(events)'
    <3>1. Before(Present, id) /\ id # p
      BY <1>4, <1>5, <1>6, <2>1, <2>2, BeforeOrder
    <3> QED
      BY <1>4, <1>8, <1>9, <3>1
  <2> QED
    BY <1>7, <2>2
<1>10. ExpiredExact'
  <2>1. currentTs' \in Nat /\ currentUid' \in Nat /\ ids' \subseteq Event
    BY <1>1, <1>3, <1>4 DEF Event
  <2>2. (\A id \in ids : IsExpired(id) <=> ~Before(Present, id) \/ id.uid \in cancelled)'
    BY <2>1 DEF IsExpired, Before, Present, Event
  <2>3. \A id \in ids' : Before(Present, id)' <=> Before(p, id)
    BY <1>5 DEF Before
  <2> QED
    BY <1>3, <1>9, <2>2, <2>3 DEF ExpiredExact
<1>11. \A e \in EventsOf(events)' : e.uid < uid' /\ Before(Present, e)'
  BY <1>3, <1>5, <1>7 DEF Before
<1>12. /\ events' \in Lists /\ uid' \in Nat /\ currentTs' \in Nat /\ currentUid' \in Nat
       /\ currentUid' < uid'
  BY <1>1, <1>3, <1>4, <1>6 DEF Event
<1>13. ScheduleInv'
  BY <1>3, <1>10, <1>11, <1>12 DEF ScheduleInv
<1>14. currentTs' >= currentTs
  BY <1>1, <1>3, <1>4, <1>6 DEF Before, Present, Event
<1>15. Promise!Earliest(EventsOf(events)) = p
  BY <1>4 DEF Promise!Earliest, Earliest, Promise!Before, Before
<1>16. [ts |-> currentTs, uid |-> currentUid]' = p
  BY <1>5 DEF Present
<1> QED
  BY <1>3, <1>4, <1>13, <1>14, <1>15, <1>16 DEF Promise!Take

\* Remove finds the event: it is not expired, so it is there.
LEMMA RemoveInv ==
  ASSUME ScheduleInv, NEW id \in ids, Remove(id)
  PROVE  ScheduleInv' /\ id \in EventsOf(events) /\ Promise!Withdraw(id)
<1>1. /\ uid \in Nat /\ currentTs \in Nat /\ currentUid \in Nat /\ currentUid < uid
      /\ events \in Lists /\ ids \subseteq Event /\ id \in Event /\ id.uid < uid
  BY DEF ScheduleInv
<1>2. /\ events' = RemoveEvent(events, id) /\ cancelled' = cancelled \cup {id.uid}
      /\ uid' = uid /\ currentTs' = currentTs /\ currentUid' = currentUid
      /\ ids' = ids /\ withContext' = withContext
  BY DEF Remove, clock, handed
<1>3. id \in EventsOf(events) /\ id.uid \notin cancelled
  BY DEF Remove, ScheduleInv, ExpiredExact
<1>4. events' \in Lists /\ EventsOf(events)' = EventsOf(events) \ {id}
  BY <1>1, <1>2, <1>3, RemoveInList
<1>5. \A e \in EventsOf(events)' : e.uid < uid /\ Before(Present, e)
  BY <1>4 DEF ScheduleInv
<1>6. \A e \in ids : e.uid \notin cancelled => (e \in EventsOf(events) <=> Before(Present, e))
  BY <1>1, ExactOrder DEF ScheduleInv
<1>7. ExpiredExact'
  <2>1. (\A e \in ids : IsExpired(e) <=> ~Before(Present, e) \/ e.uid \in cancelled)'
    BY <1>1, <1>2 DEF IsExpired, Before, Present, Event
  <2>2. \A e \in ids' : Before(Present, e)' <=> Before(Present, e)
    BY <1>2 DEF Before, Present
  <2>3. \A e \in ids : e # id => (e \in EventsOf(events)' <=> e \in EventsOf(events))
    BY <1>4
  <2> QED
    BY <1>2, <1>6, <2>1, <2>2, <2>3 DEF ExpiredExact
<1>8. \A u \in cancelled' : u \in Nat /\ u < uid
  BY <1>1, <1>2 DEF ScheduleInv, Event
<1>9. \A e \in EventsOf(events)' : e.uid < uid' /\ Before(Present, e)'
  BY <1>2, <1>5 DEF Before, Present
<1>10. ScheduleInv'
  BY <1>1, <1>2, <1>4, <1>7, <1>8, <1>9 DEF ScheduleInv
<1>11. [ts |-> currentTs, uid |-> currentUid]' = [ts |-> currentTs, uid |-> currentUid]
  BY <1>2
<1> QED
  BY <1>2, <1>3, <1>4, <1>10, <1>11 DEF Promise!Withdraw

\* Cancel leaves the event where it is and marks it.
LEMMA CancelInv ==
  ASSUME ScheduleInv, NEW id \in ids, Cancel(id)
  PROVE  ScheduleInv' /\ id \in EventsOf(events) /\ Promise!Withdraw(id)
<1>1. /\ uid \in Nat /\ currentTs \in Nat /\ currentUid \in Nat
      /\ ids \subseteq Event /\ id \in Event /\ id.uid < uid
  BY DEF ScheduleInv
<1>2. /\ events' = events /\ cancelled' = cancelled \cup {id.uid}
      /\ uid' = uid /\ currentTs' = currentTs /\ currentUid' = currentUid
      /\ ids' = ids /\ withContext' = withContext
  BY DEF Cancel, clock, handed
<1>3. EventsOf(events)' = EventsOf(events)
  BY <1>2
<1>4. \A e \in ids : e.uid \notin cancelled => (e \in EventsOf(events) <=> Before(Present, e))
  BY <1>1, ExactOrder DEF ScheduleInv
<1>5. ExpiredExact'
  <2>1. (\A e \in ids : IsExpired(e) <=> ~Before(Present, e) \/ e.uid \in cancelled)'
    BY <1>1, <1>2 DEF IsExpired, Before, Present, Event
  <2>2. \A e \in ids' : Before(Present, e)' <=> Before(Present, e)
    BY <1>2 DEF Before, Present
  <2> QED
    BY <1>2, <1>3, <1>4, <2>1, <2>2 DEF ExpiredExact
<1>6. \A u \in cancelled' : u \in Nat /\ u < uid
  BY <1>1, <1>2 DEF ScheduleInv, Event
<1>7. \A e \in EventsOf(events)' : e.uid < uid' /\ Before(Present, e)'
  BY <1>2, <1>3 DEF ScheduleInv, Before, Present
<1>8. /\ events' \in Lists /\ currentUid' < uid' /\ withContext' \in Seq(Nat)
      /\ \A e \in ids' : e.uid < uid'
  BY <1>2 DEF ScheduleInv
<1>9. ScheduleInv'
  BY <1>1, <1>2, <1>5, <1>6, <1>7, <1>8 DEF ScheduleInv
<1>10. id \in EventsOf(events) /\ id.uid \notin cancelled
  BY DEF Cancel, ScheduleInv, ExpiredExact
<1>11. [ts |-> currentTs, uid |-> currentUid]' = [ts |-> currentTs, uid |-> currentUid]
  BY <1>2
<1> QED
  BY <1>2, <1>3, <1>9, <1>10, <1>11 DEF Promise!Withdraw

\* A step of the simulator is one of EventQueue, or none; time does not go back.
QueueStep ==
  /\ Promise!Next \/ UNCHANGED Promise!qvars
  /\ currentTs' >= currentTs

LEMMA ScheduleStep ==
  ASSUME ScheduleInv, NEW d \in Delays, Schedule(d)
  PROVE  ScheduleInv' /\ QueueStep
<1>1. /\ events \in Lists /\ uid \in Nat /\ currentTs \in Nat /\ d \in Nat
      /\ withContext \in Seq(Nat)
      /\ \A e \in EventsOf(events) : e \in Event /\ e.uid < uid
  BY SimulatorAssumption, ListTypes DEF ScheduleInv
<1>2. PICK ev : ev = [ts |-> currentTs + d, uid |-> uid]
  OBVIOUS
<1>3. ev \in Event /\ ev.ts = currentTs + d /\ ev.uid = uid
  BY <1>1, <1>2 DEF Event
<1>4. /\ events' = Insert(events, ev) /\ ids' = ids \cup {ev} /\ uid' = uid + 1
      /\ UNCHANGED <<clock, cancelled>> /\ withContext' = withContext
  BY <1>2 DEF Schedule, handed
<1>5. \A e \in EventsOf(events) : e.uid # ev.uid
  BY <1>1, <1>3 DEF Event
<1>6. events' \in Lists /\ EventsOf(events') = EventsOf(events) \cup {ev}
  BY <1>1, <1>3, <1>4, <1>5, InsertInList
<1> DEFINE new == {ev}
<1>7. /\ uid' \in Nat /\ uid <= uid' /\ withContext' \in Seq(Nat) /\ new \in SUBSET Event
      /\ \A e \in new : uid <= e.uid /\ e.uid < uid' /\ currentTs <= e.ts
      /\ \E e \in new : ids' = ids \cup {e}
  BY <1>1, <1>3, <1>4
<1>8. EventsOf(events') = EventsOf(events) \cup new
  BY <1>6
<1> HIDE DEF new
<1>9. ScheduleInv'
  BY <1>4, <1>6, <1>7, <1>8, AddedInv, Zenon
<1>10. /\ <<d>> \in Seq(Nat) /\ Len(<<d>>) = 1
       /\ {ev} = {[ts |-> currentTs + <<d>>[k], uid |-> uid + k - 1] : k \in 1 .. Len(<<d>>)}
  BY <1>1, <1>2
<1>11. Promise!Arrive(<<d>>)
  BY <1>4, <1>6, <1>10, AddedArrives
<1> QED
  BY <1>1, <1>4, <1>9, <1>11 DEF QueueStep, Promise!Next, Promise!Schedule, clock

LEMMA TakeInStep ==
  ASSUME ScheduleInv, TakeIn
  PROVE  ScheduleInv' /\ QueueStep
<1> DEFINE n == Len(withContext)  new == {Given(j) : j \in 1 .. n}
<1>1. /\ events \in Lists /\ uid \in Nat /\ currentTs \in Nat /\ withContext \in Seq(Nat)
      /\ n \in Nat /\ \A e \in EventsOf(events) : e.uid < uid
  BY DEF ScheduleInv
<1>2. /\ events' = Taken /\ uid' = uid + n /\ withContext' = <<>> /\ ids' = ids
      /\ UNCHANGED <<clock, cancelled>>
  BY DEF TakeIn, Swap
<1>3. events' \in Lists /\ EventsOf(events') = EventsOf(events) \cup new
  BY <1>1, <1>2, TakenInList
<1>4. \A j \in 1 .. n : /\ Given(j) \in Event /\ uid <= Given(j).uid
                        /\ Given(j).uid < uid + n /\ currentTs <= Given(j).ts
  BY <1>1 DEF Given, Event
<1>5. new \in SUBSET Event /\ \A e \in new : uid <= e.uid /\ e.uid < uid' /\ currentTs <= e.ts
  BY <1>2, <1>4
<1>6. uid' \in Nat /\ uid <= uid' /\ withContext' \in Seq(Nat)
  BY <1>1, <1>2
<1>7. new = {[ts |-> currentTs + withContext[k], uid |-> uid + k - 1] :
              k \in 1 .. Len(withContext)}
  BY Zenon DEF Given
<1> HIDE DEF new
<1>8. ScheduleInv'
  BY <1>2, <1>3, <1>5, <1>6, AddedInv, Zenon
<1>9. Promise!Arrive(withContext)
  BY <1>1, <1>2, <1>3, <1>7, AddedArrives
<1> QED
  BY <1>1, <1>2, <1>8, <1>9 DEF QueueStep, Promise!Next, Promise!TakeIn, clock

\* The other steps leave the events and the present alone.
LEMMA QuietInv ==
  ASSUME ScheduleInv, events' \in Lists, EventsOf(events') = EventsOf(events),
         withContext' \in Seq(Nat), UNCHANGED <<uid, clock, ids, cancelled>>
  PROVE  ScheduleInv' /\ currentTs' >= currentTs
<1>1. uid \in Nat /\ currentTs \in Nat
  BY DEF ScheduleInv
<1> DEFINE new == {}
<1>2. EventsOf(events') = EventsOf(events) \cup new
  OBVIOUS
<1>3. new \in SUBSET Event /\ \A e \in new : uid <= e.uid /\ e.uid < uid' /\ currentTs <= e.ts
  OBVIOUS
<1>4. uid' \in Nat /\ uid <= uid' /\ ids' = ids /\ UNCHANGED <<clock, cancelled>>
  BY <1>1
<1> HIDE DEF new
<1>5. ScheduleInv'
  BY <1>2, <1>3, <1>4, AddedInv, Zenon
<1> QED
  BY <1>1, <1>5 DEF clock

LEMMA QuietStep ==
  ASSUME ScheduleInv, events' \in Lists, EventsOf(events') = EventsOf(events),
         UNCHANGED <<uid, clock, ids, cancelled, withContext>>
  PROVE  ScheduleInv' /\ QueueStep
<1>1. withContext' \in Seq(Nat)
  BY DEF ScheduleInv
<1>2. ScheduleInv' /\ currentTs' >= currentTs
  BY <1>1, QuietInv
<1>3. UNCHANGED Promise!qvars
  BY DEF Promise!qvars, clock
<1> QED
  BY <1>2, <1>3 DEF QueueStep

LEMMA SetSchedulerStep ==
  ASSUME Types = {"list"}, ScheduleInv, NEW t \in Types, SetScheduler(t)
  PROVE  ScheduleInv' /\ QueueStep
<1>1. events' = Moved("list") /\ UNCHANGED <<uid, clock, ids, cancelled, withContext>>
  BY DEF SetScheduler, handed
<1>2. events \in Lists
  BY DEF ScheduleInv
<1>3. events' \in Lists /\ EventsOf(events') = EventsOf(events)
  BY <1>1, <1>2, MovedToList
<1> QED
  BY <1>1, <1>3, QuietStep

LEMMA SimulatorStep ==
  ASSUME Types = {"list"}, ScheduleInv, [Next]_vars
  PROVE  ScheduleInv' /\ QueueStep
<1>1. events \in Lists /\ withContext \in Seq(Nat) /\ currentTs \in Nat
  BY DEF ScheduleInv
<1>2. CASE Stop \/ Pushed \/ Run \/ Invoked \/ RunEnds \/ UNCHANGED vars
  <2>1. events' = events /\ UNCHANGED <<uid, clock, ids, cancelled, withContext>>
    BY <1>2, Zenon DEF Stop, Pushed, Run, Invoked, RunEnds, clock, handed, vars
  <2> QED
    BY <1>1, <2>1, QuietStep
<1>3. ASSUME NEW d \in Delays, Push(d) PROVE ScheduleInv' /\ QueueStep
  <2>1. /\ events' = events /\ UNCHANGED <<uid, clock, ids, cancelled>>
        /\ withContext' = Append(withContext, d)
    BY <1>3 DEF Push
  <2>2. withContext' \in Seq(Nat)
    BY <1>1, <2>1, SimulatorAssumption
  <2>3. ScheduleInv' /\ currentTs' >= currentTs
    BY <1>1, <2>1, <2>2, QuietInv
  <2>4. Promise!HandOver(d)
    BY <2>1 DEF Promise!HandOver, clock
  <2> QED
    BY <2>3, <2>4 DEF QueueStep, Promise!Next
<1>4. ASSUME NEW id \in ids, Remove(id) PROVE ScheduleInv' /\ QueueStep
  <2>1. currentTs' = currentTs
    BY <1>4 DEF Remove, clock
  <2> QED
    BY <1>1, <1>4, <2>1, RemoveInv DEF QueueStep, Promise!Next
<1>5. ASSUME NEW id \in ids, Cancel(id) PROVE ScheduleInv' /\ QueueStep
  <2>1. currentTs' = currentTs
    BY <1>5 DEF Cancel, clock
  <2> QED
    BY <1>1, <1>5, <2>1, CancelInv DEF QueueStep, Promise!Next
<1>6. CASE ProcessOneEvent
  BY <1>6, ProcessOneEventInv DEF QueueStep, Promise!Next
<1>7. CASE Program
  BY <1>2, <1>4, <1>5, <1>7, ScheduleStep, SetSchedulerStep, Zenon DEF Program
<1>8. CASE MainLoop
  BY <1>2, <1>6, <1>8, TakeInStep, Zenon DEF MainLoop
<1> QED
  BY <1>2, <1>3, <1>7, <1>8, Zenon DEF Next

\* IsExpired, which looks only at the present event and at the EventId, is
\* right about every EventId over a list, so that Remove and Cancel do nothing
\* to an event that ran, and Remove finds each of the others.
THEOREM SimulatorExpiredExact ==
  ASSUME Types = {"list"}
  PROVE  Spec => []ExpiredExact
<1>1. Init => ScheduleInv
  BY ScheduleInvInit
<1>2. ScheduleInv /\ [Next]_vars => ScheduleInv'
  BY SimulatorStep
<1>3. ScheduleInv => ExpiredExact
  BY DEF ScheduleInv
<1> QED
  BY <1>1, <1>2, <1>3, PTL DEF Spec

\* Over a list every event that Schedule numbers or a thread hands over comes
\* to wait at its time, and waits until it runs or the program removes it; the
\* simulator runs the earliest event that waits, and among those the oldest,
\* whenever the program cancels events and moves them to another list.
THEOREM SimulatorImplementsEventQueue ==
  ASSUME Types = {"list"}
  PROVE  Spec => ImplementsEventQueue
<1>1. Init => ScheduleInv
  BY ScheduleInvInit
<1>2. ASSUME Init PROVE Promise!Init
  <2>1. /\ EventsOf(events) = {} /\ currentTs = 0 /\ currentUid = 0
        /\ uid = 4 /\ withContext = <<>> /\ cancelled = {}
    BY <1>2, NewList DEF Init
  <2> QED
    BY <2>1 DEF Promise!Init
<1>3. ScheduleInv /\ [Next]_vars => ScheduleInv'
  BY SimulatorStep
<1>4. ScheduleInv /\ [Next]_vars => [Promise!Next]_(Promise!qvars)
  BY SimulatorStep DEF QueueStep
<1> QED
  BY <1>1, <1>2, <1>3, <1>4, PTL DEF Spec, ImplementsEventQueue, Promise!Spec

\* Simulation time does not go back over a list, also when events are removed,
\* which is when it does over the heap: the assertion of ProcessOneEvent.
THEOREM SimulatorTimeMonotone ==
  ASSUME Types = {"list"}
  PROVE  Spec => TimeMonotone
<1>1. Init => ScheduleInv
  BY ScheduleInvInit
<1>2. ScheduleInv /\ [Next]_vars => ScheduleInv'
  BY SimulatorStep
<1>3. ScheduleInv /\ [Next]_vars => [currentTs' >= currentTs]_vars
  BY SimulatorStep DEF QueueStep
<1> QED
  BY <1>1, <1>2, <1>3, PTL DEF Spec, TimeMonotone
=============================================================================
