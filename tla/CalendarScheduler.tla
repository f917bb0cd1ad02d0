------------------------- MODULE CalendarScheduler -------------------------
(***************************************************************************)
(* ns3::CalendarScheduler (core/model/calendar-scheduler.cc): a calendar   *)
(* queue.  Each day is a bucket, a sorted list; the search for the next    *)
(* event starts at the day of the last one and looks one year ahead, then  *)
(* for the earliest of all.  The number of days follows the number of      *)
(* events, the length of a day the distance between the next ones.         *)
(***************************************************************************)
EXTENDS Naturals, Sequences, FiniteSets, FiniteSetsExt, ListScheduler

NBuckets(c) == Cardinality(DOMAIN c.buckets)
Hash(c, ts) == (ts \div c.width) % NBuckets(c)
Top(ts, width) == (ts \div width + 1) * width

CalendarInit(nBuckets, width, startPrio, qSize) ==
  [buckets |-> [i \in 0 .. nBuckets - 1 |-> <<>>], width |-> width,
   lastPrio |-> startPrio, lastBucket |-> (startPrio \div width) % nBuckets,
   bucketTop |-> Top(startPrio, width), qSize |-> qSize]

NewCalendar == CalendarInit(2, 1, 0, 0)

CalendarEvents(c) == UNION {ListEvents(c.buckets[i]) : i \in DOMAIN c.buckets}

DoInsert(c, ev) == [c EXCEPT !.buckets[Hash(c, ev.ts)] = ListInsert(@, ev)]

\* The bucket k days after the last one, and the end of that day.
DayBucket(c, k) == (c.lastBucket + k) % NBuckets(c)
DayTop(c, k) == c.bucketTop + k * c.width

\* The days of the coming year whose first event is due on that very day.
DaysDue(c) ==
  {k \in 0 .. NBuckets(c) - 1 :
     LET b == c.buckets[DayBucket(c, k)] IN b # <<>> /\ Head(b).ts < DayTop(c, k)}

Fronts(c) == {Head(c.buckets[i]) : i \in {j \in DOMAIN c.buckets : c.buckets[j] # <<>>}}

\* Where the search of PeekNext and DoRemoveNext ends: a bucket and the end of
\* its day, in the coming year or, if none is due in it, at the earliest of all.
Found(c) ==
  IF DaysDue(c) # {}
  THEN LET k == Min(DaysDue(c)) IN [bucket |-> DayBucket(c, k), top |-> DayTop(c, k)]
  ELSE LET e == Earliest(Fronts(c)) IN [bucket |-> Hash(c, e.ts), top |-> Top(e.ts, c.width)]

CalendarPeek(c) == Head(c.buckets[Found(c).bucket])

TakenFrom(c, found) ==
  [c EXCEPT !.lastPrio = Head(c.buckets[found.bucket]).ts, !.lastBucket = found.bucket,
            !.bucketTop = found.top, !.buckets[found.bucket] = Tail(@)]

DoRemoveNext(c) == TakenFrom(c, Found(c))

\* The next events, up to nSamples of them, removed one by one.
Gathered(c) ==
  LET nSamples == Min({IF c.qSize < 2 THEN 0
                       ELSE IF c.qSize <= 5 THEN c.qSize ELSE 5 + c.qSize \div 10, 25})
  IN  Seqs!FoldLeft(LAMBDA g, k : [left |-> DoRemoveNext(g.left),
                                   samples |-> Append(g.samples, CalendarPeek(g.left))],
                    [left |-> c, samples |-> <<>>], [k \in 1 .. nSamples |-> k])

\* Where the search starts is as it was in c.
Restored(c, left) ==
  [left EXCEPT !.lastBucket = c.lastBucket, !.bucketTop = c.bucketTop,
               !.lastPrio = c.lastPrio]

\* Mutant: the events sampled are not put back.
PutBackNone(c, g) == Restored(c, g.left)

PutBack(c, g) == Restored(c, Seqs!FoldLeft(DoInsert, g.left, g.samples))

\* Three times the sum of the distances not over twice their average.
CalculateNewWidth(s) ==
  IF s = <<>> THEN 1
  ELSE LET gap == [k \in 1 .. Len(s) - 1 |-> s[k + 1].ts - s[k].ts]
           twiceAvg == (MapThenSumSet(LAMBDA k : gap[k], DOMAIN gap)
                          \div (Len(s) - 1)) * 2
           near == {k \in DOMAIN gap : gap[k] <= twiceAvg}
       IN  Max({3 * MapThenSumSet(LAMBDA k : gap[k], near), 1})

Rehashed(E, new) ==
  [new EXCEPT !.buckets = [i \in DOMAIN @ |-> Sorted({e \in E : Hash(new, e.ts) = i})]]

\* The same events in newSize buckets; the search restarts at the last event.
DoResize(c, newSize, newWidth) ==
  Rehashed(CalendarEvents(c), CalendarInit(newSize, newWidth, c.lastPrio, c.qSize))

Resize(c, newSize) ==
  LET g == Gathered(c)
  IN  DoResize(PutBack(c, g), newSize, CalculateNewWidth(g.samples))

ResizeUp(c) ==
  IF c.qSize > 2 * NBuckets(c) /\ NBuckets(c) < 32768
  THEN Resize(c, 2 * NBuckets(c)) ELSE c

ResizeDown(c) ==
  IF c.qSize < NBuckets(c) \div 2 THEN Resize(c, NBuckets(c) \div 2) ELSE c

CalendarInsert(c, ev) ==
  ResizeUp([DoInsert(c, ev) EXCEPT !.qSize = @ + 1])

CalendarRemoveNext(c) ==
  ResizeDown([DoRemoveNext(c) EXCEPT !.qSize = @ - 1])

CalendarRemove(c, ev) ==
  ResizeDown([c EXCEPT !.buckets[Hash(c, ev.ts)] = ListRemove(@, ev),
                       !.qSize = @ - 1])
=============================================================================
