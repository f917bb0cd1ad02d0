--------------------------- MODULE ListScheduler ---------------------------
(***************************************************************************)
(* ns3::ListScheduler (core/model/list-scheduler.cc), and the order of     *)
(* events every scheduler keeps (core/model/scheduler.h): by time stamp,   *)
(* and by uid among the events of one time.                                *)
(***************************************************************************)
EXTENDS Naturals, Sequences, FiniteSets

Seqs == INSTANCE SequencesExt

\* An event, as its key; the implementation is known by the uid.
Before(a, b) == a.ts < b.ts \/ (a.ts = b.ts /\ a.uid < b.uid)

Earliest(E) == CHOOSE e \in E : \A f \in E \ {e} : Before(e, f)

\* In front of the first event it is before, or at the end.
ListInsert(list, ev) ==
  LET later == {i \in DOMAIN list : Before(ev, list[i])}
      place == IF later = {} THEN Len(list) + 1
               ELSE CHOOSE i \in later : \A j \in later : i <= j
  IN  Seqs!InsertAt(list, place, ev)

ListRemove(list, ev) ==
  Seqs!RemoveAt(list, CHOOSE i \in DOMAIN list : list[i].uid = ev.uid)

\* The events E in the order of a list.
Sorted(E) ==
  [k \in 1 .. Cardinality(E) |->
     CHOOSE e \in E : Cardinality({f \in E : Before(f, e)}) = k - 1]

ListEvents(list) == {list[i] : i \in DOMAIN list}
=============================================================================
