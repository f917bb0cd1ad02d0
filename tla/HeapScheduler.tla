--------------------------- MODULE HeapScheduler ---------------------------
(***************************************************************************)
(* ns3::HeapScheduler (core/model/heap-scheduler.cc): a binary heap in an  *)
(* array whose element 1 is the root.                                      *)
(***************************************************************************)
EXTENDS Naturals, Sequences, ListScheduler

Parent(i) == i \div 2
LeftChild(i) == 2 * i
RightChild(i) == 2 * i + 1

IsBottom(h, i) == i > Len(h)
IsLessStrictly(h, a, b) == Before(h[a], h[b])
Smallest(h, a, b) == IF IsLessStrictly(h, a, b) THEN a ELSE b
Exch(h, a, b) == [h EXCEPT ![a] = h[b], ![b] = h[a]]
PopBack(h) == SubSeq(h, 1, Len(h) - 1)

\* The heap after the last element rises to its place.
BottomUp(h) ==
  LET up[g \in Seq(ListEvents(h)), i \in 1 .. Len(h)] ==
        IF i # 1 /\ IsLessStrictly(g, i, Parent(i))
        THEN up[Exch(g, i, Parent(i)), Parent(i)] ELSE g
  IN  up[h, Len(h)]

\* The heap after the element at start sinks to its place.
TopDown(h, start) ==
  LET down[g \in Seq(ListEvents(h)), i \in Nat] ==
        IF IsBottom(g, LeftChild(i)) THEN g
        ELSE LET child == IF IsBottom(g, RightChild(i)) THEN LeftChild(i)
                          ELSE Smallest(g, LeftChild(i), RightChild(i))
             IN  IF IsLessStrictly(g, i, child) THEN g
                 ELSE down[Exch(g, i, child), child]
  IN  down[h, start]

HeapInsert(h, ev) == BottomUp(Append(h, ev))

HeapPeek(h) == h[1]

HeapRemoveNext(h) == TopDown(PopBack(Exch(h, 1, Len(h))), 1)

\* The last element takes the place of the one removed, and only sinks.
HeapRemove(h, ev) ==
  LET i == CHOOSE j \in DOMAIN h : h[j].uid = ev.uid
  IN  TopDown(PopBack(Exch(h, i, Len(h))), i)
=============================================================================
