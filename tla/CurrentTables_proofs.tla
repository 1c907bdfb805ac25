-------------------------- MODULE CurrentTables_proofs -------------------------
(***************************************************************************)
(* Proofs about CurrentTables, for any objects, timelines and times.       *)
(***************************************************************************)
EXTENDS CurrentTables, FiniteSetTheorems, WellFoundedInduction, TLAPS

LEMMA LeastExists ==
  ASSUME NEW T, T \subseteq Nat, T # {}
  PROVE  \E n \in T : \A m \in T : n <= m
<1> DEFINE less == OpToRel(<, Nat)
<1>1. \A m, n \in Nat : m < n => <<m, n>> \in less
  BY DEF OpToRel
<1>2. PICK n \in T : \A m \in T : ~ (<<m, n>> \in less)
  BY NatLessThanWellFounded, WFMin
<1> HIDE DEF less
<1>3. ASSUME NEW m \in T PROVE n <= m
  <2>1. ~ (m < n)
    BY <1>1, <1>2
  <2> QED BY <2>1
<1> QED BY <1>3

-----------------------------------------------------------------------------
\* Merged periods

Periods(slices) ==
  /\ slices \subseteq Slices /\ Disjoint(slices)
  /\ \A s \in slices : s.from < s.to

LEMMA TimelinesArePeriods ==
  ASSUME NEW slices \in Timelines
  PROVE  Periods(slices)
BY CurrentTablesAssumption DEF Periods

LEMMA TypeOfSlices ==
  /\ Times \subseteq Nat /\ Forever \in Nat
  /\ \A s \in Slices : s.from \in Nat /\ s.to \in Nat /\ s.from <= MaxTime /\ s.to <= Forever
BY CurrentTablesAssumption DEF Slices, Times, Forever

LEMMA SlicesAreTheirParts ==
  \A r, s \in Slices : r.value = s.value /\ r.from = s.from /\ r.to = s.to => r = s
BY DEF Slices

\* From every slice on there are slices without gap to the end of a tail.
TailFrom(slices, h, u) ==
  /\ u \in slices /\ IsTail(u, slices) /\ u.value = h.value /\ h.from <= u.from
  /\ \A t \in Nat : h.from <= t /\ t < u.to =>
       \E q \in slices : q.value = h.value /\ q.from <= t /\ t < q.to

LEMMA TailExists ==
  ASSUME NEW slices, Periods(slices), NEW h \in slices
  PROVE  \E u : TailFrom(slices, h, u)
<1> DEFINE reached == {u \in slices : /\ u.value = h.value /\ h.from <= u.from
                                      /\ \A t \in Nat : h.from <= t /\ t < u.to =>
                                           \E q \in slices : q.value = h.value /\ q.from <= t /\ t < q.to}
           left == {Forever - u.to : u \in reached}
<1>1. \A s \in slices : s.from \in Nat /\ s.to \in Nat /\ s.from < s.to /\ s.to <= Forever
  BY TypeOfSlices DEF Periods
<1>2. h \in reached
  BY <1>1
<1>3. left \subseteq Nat
  <2>1. \A u \in reached : Forever - u.to \in Nat
    BY <1>1, TypeOfSlices
  <2> QED BY <2>1
<1>4. left # {}
  BY <1>2
<1>5. PICK d \in left : \A e \in left : d <= e
  <2> HIDE DEF left
  <2> QED BY <1>3, <1>4, LeastExists
<1>6. PICK u \in reached : d = Forever - u.to
  BY <1>5
<1>7. \A r \in reached : r.to <= u.to
  <2> SUFFICES ASSUME NEW r \in reached PROVE r.to <= u.to
    OBVIOUS
  <2>1. Forever - u.to <= Forever - r.to
    BY <1>5, <1>6
  <2> QED BY <2>1, <1>1, TypeOfSlices
<1>8. IsTail(u, slices)
  <2> SUFFICES ASSUME NEW n \in slices, n.value = u.value, n.from = u.to
               PROVE  FALSE
    BY DEF IsTail
  <2>1. ASSUME NEW t \in Nat, h.from <= t, t < n.to
        PROVE  \E q \in slices : q.value = h.value /\ q.from <= t /\ t < q.to
    <3>1. CASE t < u.to
      BY <3>1, <2>1
    <3>2. CASE ~ (t < u.to)
      BY <3>2, <2>1, <1>1
    <3> QED BY <3>1, <3>2
  <2>2. h.from <= n.from
    BY <1>1
  <2>3. n \in reached
    BY <2>1, <2>2
  <2> QED BY <2>3, <1>7, <1>1
<1>9. TailFrom(slices, h, u)
  BY <1>8 DEF TailFrom
<1> QED BY <1>9

\* The first tail from a slice on is the one that is reached without gap.
LEMMA FirstTail ==
  ASSUME NEW slices, Periods(slices), NEW h \in slices,
         NEW u, TailFrom(slices, h, u),
         NEW s \in slices, IsTail(s, slices), s.from >= h.from
  PROVE  u.from <= s.from
<1>1. \A x \in slices : x.from \in Nat /\ x.to \in Nat /\ x.from < x.to /\ x.to <= Forever
  BY TypeOfSlices DEF Periods
<1>2. \A x, y \in slices : x # y => x.to <= y.from \/ y.to <= x.from
  BY DEF Periods, Disjoint
<1>3. u \in slices
  BY DEF TailFrom
<1> SUFFICES ASSUME s.from < u.from PROVE FALSE
  BY <1>1, <1>3
<1>4. s.to <= u.from
  BY <1>1, <1>2, <1>3
<1>5. PICK q \in slices : q.value = h.value /\ q.from <= s.from /\ s.from < q.to
  BY <1>1, <1>3 DEF TailFrom
<1>6. q = s
  BY <1>1, <1>2, <1>5
<1>7. PICK n \in slices : n.value = h.value /\ n.from <= s.to /\ s.to < n.to
  BY <1>1, <1>3, <1>4 DEF TailFrom
<1>8. n.from = s.to
  BY <1>1, <1>2, <1>7
<1> QED BY <1>5, <1>6, <1>7, <1>8 DEF IsTail

\* What mergeValidTime gives: the heads, each as far as its value goes.
LEMMA Merged ==
  ASSUME NEW slices, Periods(slices)
  PROVE  /\ \A m \in mergeValidTime(slices) : \E h \in slices, u \in slices :
              /\ IsHead(h, slices) /\ TailFrom(slices, h, u)
              /\ m.value = h.value /\ m.from = h.from /\ m.to = u.to
              /\ m \in Slices /\ m.from < m.to
         /\ \A h \in slices : IsHead(h, slices) =>
              \E m \in mergeValidTime(slices) : m.value = h.value /\ m.from = h.from
<1>1. \A x \in slices : x.from \in Nat /\ x.to \in Nat /\ x.from < x.to /\ x.to <= Forever
  BY TypeOfSlices DEF Periods
<1> DEFINE tails(h) == {s \in slices : IsTail(s, slices) /\ s.from >= h.from}
           first(h) == CHOOSE s \in tails(h) : \A t \in tails(h) : s.from <= t.from
<1>2. ASSUME NEW h \in slices PROVE first(h) \in slices /\ TailFrom(slices, h, first(h))
  <2>1. PICK u : TailFrom(slices, h, u)
    BY TailExists
  <2>2. u \in tails(h) /\ \A t \in tails(h) : u.from <= t.from
    BY <2>1, <1>1, FirstTail DEF TailFrom
  <2>3. first(h) \in tails(h) /\ \A t \in tails(h) : first(h).from <= t.from
    BY <2>2
  <2>4. first(h).from = u.from
    BY <2>2, <2>3, <1>1
  <2>5. first(h) = u
    BY <2>2, <2>3, <2>4, <1>1 DEF Periods, Disjoint
  <2> QED BY <2>1, <2>5 DEF TailFrom
<1>3. mergeValidTime(slices) = {[h EXCEPT !.to = first(h).to] : h \in {s \in slices : IsHead(s, slices)}}
  BY DEF mergeValidTime
<1> HIDE DEF first
<1>4. ASSUME NEW h \in slices
      PROVE  LET m == [h EXCEPT !.to = first(h).to]
             IN  /\ m.value = h.value /\ m.from = h.from /\ m.to = first(h).to
                 /\ m \in Slices /\ m.from < m.to
  <2>1. h \in Slices /\ first(h) \in Slices
    BY <1>2 DEF Periods
  <2>2. h.from < first(h).to
    BY <1>1, <1>2 DEF TailFrom
  <2> QED BY <2>1, <2>2 DEF Slices
<1>5. ASSUME NEW m \in mergeValidTime(slices)
      PROVE  \E h \in slices, u \in slices :
               /\ IsHead(h, slices) /\ TailFrom(slices, h, u)
               /\ m.value = h.value /\ m.from = h.from /\ m.to = u.to
               /\ m \in Slices /\ m.from < m.to
  <2>1. PICK h \in slices : IsHead(h, slices) /\ m = [h EXCEPT !.to = first(h).to]
    BY <1>3, <1>5
  <2> QED BY <2>1, <1>2, <1>4
<1>6. ASSUME NEW h \in slices, IsHead(h, slices)
      PROVE  \E m \in mergeValidTime(slices) : m.value = h.value /\ m.from = h.from
  <2>1. [h EXCEPT !.to = first(h).to] \in mergeValidTime(slices)
    BY <1>3, <1>6
  <2> QED BY <2>1, <1>4
<1> QED BY <1>5, <1>6

\* Back from every slice there is a head of the same value, without gap.
LEMMA HeadExists ==
  ASSUME NEW slices, Periods(slices), NEW s \in slices
  PROVE  \E h \in slices :
           /\ IsHead(h, slices) /\ h.value = s.value /\ h.from <= s.from
           /\ \A t \in Nat : h.from <= t /\ t < s.to =>
                \E q \in slices : q.value = s.value /\ q.from <= t /\ t < q.to
<1> DEFINE before == {h \in slices : /\ h.value = s.value /\ h.from <= s.from
                                     /\ \A t \in Nat : h.from <= t /\ t < s.to =>
                                          \E q \in slices : q.value = s.value /\ q.from <= t /\ t < q.to}
           starts == {h.from : h \in before}
<1>1. \A x \in slices : x.from \in Nat /\ x.to \in Nat /\ x.from < x.to /\ x.to <= Forever
  BY TypeOfSlices DEF Periods
<1>2. s \in before
  BY <1>1
<1>3. starts \subseteq Nat /\ starts # {}
  BY <1>1, <1>2
<1>4. PICK n \in starts : \A m \in starts : n <= m
  <2> HIDE DEF starts
  <2> QED BY <1>3, LeastExists
<1>5. PICK h \in before : n = h.from
  BY <1>4
<1>6. \A b \in before : h.from <= b.from
  BY <1>4, <1>5
<1>7. IsHead(h, slices)
  <2> SUFFICES ASSUME NEW p \in slices, p.value = h.value, p.to = h.from
               PROVE  FALSE
    BY DEF IsHead
  <2>1. ASSUME NEW t \in Nat, p.from <= t, t < s.to
        PROVE  \E q \in slices : q.value = s.value /\ q.from <= t /\ t < q.to
    <3>1. CASE t < h.from
      BY <3>1, <2>1
    <3>2. CASE ~ (t < h.from)
      BY <3>2, <2>1, <1>1
    <3> QED BY <3>1, <3>2
  <2>2. p.from <= s.from
    BY <1>1
  <2>3. p \in before
    BY <2>1, <2>2
  <2> QED BY <2>3, <1>6, <1>1
<1> QED BY <1>7

\* The merged periods hold the same values at the same times, overlap
\* nowhere, and go on as long as the value does.
LEMMA MergedIsRight ==
  ASSUME NEW slices, Periods(slices)
  PROVE  /\ Disjoint(mergeValidTime(slices))
         /\ \A t \in Nat : ValuesAt(mergeValidTime(slices), t) = ValuesAt(slices, t)
         /\ \A r, s \in mergeValidTime(slices) :
              /\ r.to = s.from => r.value # s.value
              /\ r.from = s.from => r = s
<1>1. \A x \in slices : x.from \in Nat /\ x.to \in Nat /\ x.from < x.to /\ x.to <= Forever
  BY TypeOfSlices DEF Periods
<1>2. \A x, y \in slices : x # y => x.to <= y.from \/ y.to <= x.from
  BY DEF Periods, Disjoint
<1>9. \A x, y \in slices : x.from = y.from => x = y
  BY <1>1, <1>2
<1> DEFINE Ends(m, h, u) == /\ h \in slices /\ u \in slices
                            /\ IsHead(h, slices) /\ TailFrom(slices, h, u)
                            /\ m.value = h.value /\ m.from = h.from /\ m.to = u.to
                            /\ m \in Slices /\ m.from < m.to
<1>3. \A m \in mergeValidTime(slices) : \E h \in slices, u \in slices : Ends(m, h, u)
  BY Merged
<1>4. ASSUME NEW r \in mergeValidTime(slices), NEW s \in mergeValidTime(slices)
      PROVE  /\ r.to = s.from => r.value # s.value
             /\ r.from = s.from => r = s
             /\ r.from < s.from => r.to <= s.from
  <2>1. PICK h \in slices, u \in slices : Ends(r, h, u)
    BY <1>3
  <2>2. PICK g \in slices, v \in slices : Ends(s, g, v)
    BY <1>3
  <2>3. r.to = s.from => r.value # s.value
    BY <2>1, <2>2 DEF TailFrom, IsHead
  <2>4. ASSUME r.from = s.from PROVE r = s
    <3>1. h = g
      BY <2>1, <2>2, <2>4, <1>9
    <3>2. u.from <= v.from /\ v.from <= u.from
      BY <3>1, <2>1, <2>2, <1>1, FirstTail DEF TailFrom
    <3>3. u = v
      BY <3>2, <1>1, <1>2
    <3>4. r.value = s.value /\ r.to = s.to
      BY <3>1, <3>3, <2>1, <2>2
    <3> QED BY <3>4, <2>4, <2>1, <2>2, SlicesAreTheirParts
  <2>5. ASSUME r.from < s.from, ~ (r.to <= s.from) PROVE FALSE
    <3>1. h.from < g.from /\ g.from < u.to
      BY <2>5, <2>1, <2>2, <1>1
    <3>2. PICK p \in slices : p.value = h.value /\ p.from <= g.from /\ g.from < p.to
      BY <3>1, <2>1, <1>1 DEF TailFrom
    <3>3. p = g
      BY <3>2, <1>1, <1>2
    <3>4. g.from - 1 \in Nat /\ h.from <= g.from - 1 /\ g.from - 1 < u.to
      BY <3>1, <1>1
    <3>5. PICK q \in slices : q.value = h.value /\ q.from <= g.from - 1 /\ g.from - 1 < q.to
      BY <3>4, <2>1 DEF TailFrom
    <3>6. q.to = g.from
      BY <3>5, <1>1, <1>2
    <3> QED BY <3>2, <3>3, <3>5, <3>6, <2>2 DEF IsHead
  <2> QED BY <2>3, <2>4, <2>5
<1>5. Disjoint(mergeValidTime(slices))
  <2> SUFFICES ASSUME NEW r \in mergeValidTime(slices), NEW s \in mergeValidTime(slices), r # s
               PROVE  r.to <= s.from \/ s.to <= r.from
    BY DEF Disjoint
  <2>1. r.from \in Nat /\ s.from \in Nat
    BY <1>3, TypeOfSlices
  <2>2. r.from < s.from \/ s.from < r.from
    BY <2>1, <1>4
  <2> QED BY <2>2, <1>4
<1>6. ASSUME NEW t \in Nat, NEW m \in mergeValidTime(slices), m.from <= t, t < m.to
      PROVE  \E s \in slices : s.value = m.value /\ s.from <= t /\ t < s.to
  BY <1>3, <1>6 DEF TailFrom
<1>7. ASSUME NEW t \in Nat, NEW s \in slices, s.from <= t, t < s.to
      PROVE  \E m \in mergeValidTime(slices) : m.value = s.value /\ m.from <= t /\ t < m.to
  <2>1. PICK h \in slices :
          /\ IsHead(h, slices) /\ h.value = s.value /\ h.from <= s.from
          /\ \A x \in Nat : h.from <= x /\ x < s.to =>
               \E q \in slices : q.value = s.value /\ q.from <= x /\ x < q.to
    BY HeadExists
  <2>2. PICK m \in mergeValidTime(slices) : m.value = h.value /\ m.from = h.from
    BY <2>1, Merged
  <2>3. PICK g \in slices, u \in slices : Ends(m, g, u)
    BY <1>3
  <2>4. g = h
    BY <2>2, <2>3, <1>9
  <2>5. h.from <= u.to /\ u.value = h.value /\ IsTail(u, slices)
    BY <2>3, <2>4, <1>1 DEF TailFrom
  <2>6. ASSUME ~ (t < u.to) PROVE FALSE
    <3>1. u.to < s.to
      BY <2>6, <1>7, <1>1
    <3>2. PICK q \in slices : q.value = s.value /\ q.from <= u.to /\ u.to < q.to
      BY <3>1, <2>1, <2>5, <1>1
    <3>3. q.from = u.to
      BY <3>2, <1>1, <1>2
    <3> QED BY <3>2, <3>3, <2>1, <2>5 DEF IsTail
  <2>7. h.from <= t
    BY <2>1, <1>7, <1>1
  <2> QED BY <2>1, <2>2, <2>3, <2>6, <2>7
<1>8. ASSUME NEW t \in Nat
      PROVE  ValuesAt(mergeValidTime(slices), t) = ValuesAt(slices, t)
  BY <1>6, <1>7 DEF ValuesAt
<1> QED BY <1>4, <1>5, <1>8

-----------------------------------------------------------------------------
\* The inductive invariant

SliceOf(r) == [value |-> r.value, from |-> r.from, to |-> r.to]

KeysUnique == \A r, s \in history : r.rowkey = s.rowkey => r = s

PeriodsUnique == \A r, s \in history : r.id = s.id /\ r.from = s.from => r = s

KeysDrawn == \A r \in history : r.rowkey < nextRowkey

\* Only before the first rows the virkning time may be finer than a millisecond.
InMillis == current # NoRows => Millis(virkning) = virkning

HistoryIsMergedRaw ==
  \A id \in Ids : {SliceOf(r) : r \in HistoryOf({id})} = mergeValidTime(raw[id])

IInv ==
  /\ TypeOK /\ KeysUnique /\ PeriodsUnique /\ KeysDrawn /\ InMillis
  /\ HistoryIsMergedRaw /\ CurrentIsValidNow

LEMMA Millis_ ==
  \A t \in Times : Millis(t) \in Times /\ Millis(t) <= t /\ Millis(Millis(t)) = Millis(t)
BY CurrentTablesAssumption DEF Times, Millis

LEMMA NextVirkningTime ==
  ASSUME TypeOK, NEW now \in Times, NEW registered \in Times
  PROVE  /\ getNextVirkningTime(now, registered) \in Times
         /\ Millis(getNextVirkningTime(now, registered)) = getNextVirkningTime(now, registered)
<1>1. Latest(virkning, now) \in Times
  BY DEF TypeOK, Latest
<1> DEFINE db == Millis(Latest(virkning, now))
           reg == Millis(registered)
<1>2. db \in Times /\ Millis(db) = db /\ reg \in Times /\ Millis(reg) = reg
  BY <1>1, Millis_
<1>3. getNextVirkningTime(now, registered) \in {db, reg}
  BY DEF getNextVirkningTime, Latest
<1> HIDE DEF db, reg
<1> QED BY <1>2, <1>3

LEMMA DesiredRows ==
  ASSUME NEW ids \in SUBSET Ids, NEW slicesOf \in [Ids -> Timelines]
  PROVE  LET rows == Desired(ids, slicesOf)
         IN  /\ IsFiniteSet(rows)
             /\ \A row \in rows : row.id \in ids /\ row.slice \in mergeValidTime(slicesOf[row.id])
                                    /\ row.slice \in Slices /\ row = [id |-> row.id, slice |-> row.slice]
             /\ \A id \in ids : \A s \in mergeValidTime(slicesOf[id]) : [id |-> id, slice |-> s] \in rows
             /\ \A r1, r2 \in rows : r1.id = r2.id /\ r1.slice.from = r2.slice.from => r1 = r2
<1> DEFINE rows == Desired(ids, slicesOf)
           of(id) == {[id |-> id, slice |-> s] : s \in mergeValidTime(slicesOf[id])}
<1>1. rows = UNION {of(id) : id \in ids}
  BY DEF Desired
<1>2. \A id \in ids : Periods(slicesOf[id]) /\ IsFiniteSet(slicesOf[id])
  BY TimelinesArePeriods, CurrentTablesAssumption
<1>3. ASSUME NEW id \in ids PROVE IsFiniteSet(of(id))
  <2> DEFINE heads == {s \in slicesOf[id] : IsHead(s, slicesOf[id])}
             tails(h) == {s \in slicesOf[id] : IsTail(s, slicesOf[id]) /\ s.from >= h.from}
             first(h) == CHOOSE s \in tails(h) : \A t \in tails(h) : s.from <= t.from
             merge(h) == [h EXCEPT !.to = first(h).to]
  <2>1. IsFiniteSet(heads)
    BY <1>2, FS_Subset
  <2>2. mergeValidTime(slicesOf[id]) = {merge(h) : h \in heads}
    BY DEF mergeValidTime
  <2>3. of(id) = {[id |-> id, slice |-> merge(h)] : h \in heads}
    BY <2>2
  <2> DEFINE f == [h \in heads |-> [id |-> id, slice |-> merge(h)]]
  <2>4. f \in Surjection(heads, of(id))
    <3> HIDE DEF merge, heads
    <3> QED BY <2>3 DEF Surjection
  <2> HIDE DEF f, of, heads
  <2> QED BY <2>1, <2>4, FS_Surjection
<1>4. IsFiniteSet(rows)
  <2>1. IsFiniteSet(ids)
    BY CurrentTablesAssumption, FS_Subset
  <2> DEFINE g == [id \in ids |-> of(id)]
  <2>2. g \in Surjection(ids, {of(id) : id \in ids})
    <3> HIDE DEF of
    <3> QED BY DEF Surjection
  <2>3. IsFiniteSet({of(id) : id \in ids})
    <3> HIDE DEF g, of
    <3> QED BY <2>1, <2>2, FS_Surjection
  <2> HIDE DEF of
  <2> QED BY <1>1, <1>3, <2>3, FS_UNION
<1>5. \A row \in rows : row.id \in ids /\ row.slice \in mergeValidTime(slicesOf[row.id])
                          /\ row = [id |-> row.id, slice |-> row.slice]
  BY <1>1
<1>6. \A row \in rows : row.slice \in Slices
  BY <1>5, <1>2, Merged
<1>7. ASSUME NEW id \in ids, NEW s \in mergeValidTime(slicesOf[id])
      PROVE  [id |-> id, slice |-> s] \in rows
  <2>1. [id |-> id, slice |-> s] \in of(id)
    OBVIOUS
  <2> HIDE DEF of, rows
  <2> QED BY <1>1, <2>1
<1>8. ASSUME NEW r1 \in rows, NEW r2 \in rows, r1.id = r2.id, r1.slice.from = r2.slice.from
      PROVE  r1 = r2
  <2>1. r1.slice = r2.slice
    BY <1>2, <1>5, <1>8, MergedIsRight
  <2> QED BY <2>1, <1>5, <1>8
<1> QED BY <1>4, <1>5, <1>6, <1>7, <1>8

-----------------------------------------------------------------------------
\* The rows an import wants of the objects ids

Unkeyed(rows) == {row \in rows : OldRows(row) = {}}

\* What is wanted of the rows of the objects ids in the new history
WellKeyed(desired, ids, slicesOf, last) ==
  /\ desired \subseteq HistoryRows
  /\ \A d \in desired : d.id \in ids /\ (d.rowkey <= last \/ d.rowkey < nextRowkey)
  /\ \A d, e \in desired : d.rowkey = e.rowkey \/ (d.id = e.id /\ d.from = e.from) => d = e
  /\ \A d \in desired, r \in history : d.rowkey = r.rowkey <=> d.id = r.id /\ d.from = r.from
  /\ \A id \in ids : {SliceOf(d) : d \in {e \in desired : e.id = id}} = mergeValidTime(slicesOf[id])

LEMMA DesiredHistory ==
  ASSUME TypeOK, KeysUnique, PeriodsUnique, KeysDrawn,
         NEW ids \in SUBSET Ids, NEW slicesOf \in [Ids -> Timelines],
         NEW last \in Int, last <= MaxRowkey,
         NEW numbers \in Injection(Unkeyed(Desired(ids, slicesOf)), nextRowkey..last)
  PROVE  WellKeyed(WithRowkeys(Desired(ids, slicesOf), numbers), ids, slicesOf, last)
<1> DEFINE rows == Desired(ids, slicesOf)
           new == Unkeyed(rows)
           keyOf(row) == IF row \in DOMAIN numbers THEN numbers[row]
                         ELSE (CHOOSE r \in OldRows(row) : TRUE).rowkey
           keyed(row) == [rowkey |-> keyOf(row), id |-> row.id, value |-> row.slice.value,
                          from |-> row.slice.from, to |-> row.slice.to]
           desired == WithRowkeys(rows, numbers)
<1>1. desired = {keyed(row) : row \in rows}
  BY DEF WithRowkeys
<1>2. /\ \A row \in rows : row.id \in ids /\ row.slice \in mergeValidTime(slicesOf[row.id])
                             /\ row.slice \in Slices
      /\ \A id \in ids : \A s \in mergeValidTime(slicesOf[id]) : [id |-> id, slice |-> s] \in rows
      /\ \A r1, r2 \in rows : r1.id = r2.id /\ r1.slice.from = r2.slice.from => r1 = r2
  BY DesiredRows
<1> HIDE DEF rows
<1>3. numbers \in [new -> nextRowkey..last] /\ \A r1, r2 \in new : numbers[r1] = numbers[r2] => r1 = r2
  BY DEF Injection, IsInjective, rows
<1>4. nextRowkey \in Nat \ {0} /\ MaxRowkey \in Nat
      /\ \A r \in history : r.rowkey \in 1..MaxRowkey /\ r.rowkey < nextRowkey
  BY CurrentTablesAssumption DEF TypeOK, HistoryRows, KeysDrawn
<1>5. ASSUME NEW row \in new PROVE keyOf(row) \in nextRowkey..last
  BY <1>3
<1>6. ASSUME NEW row \in rows, row \notin new
      PROVE  \E r \in history : /\ r.id = row.id /\ r.from = row.slice.from
                                /\ keyOf(row) = r.rowkey
  <2>1. OldRows(row) # {} /\ row \notin DOMAIN numbers
    BY <1>3, <1>6 DEF Unkeyed
  <2>2. (CHOOSE r \in OldRows(row) : TRUE) \in OldRows(row)
    BY <2>1
  <2> QED BY <2>1, <2>2 DEF OldRows
<1>7. \A row \in new : \A r \in history : ~ (r.id = row.id /\ r.from = row.slice.from)
  BY DEF Unkeyed, OldRows
<1> DEFINE key == [row \in rows |-> keyOf(row)]
<1>8. \A row \in rows : key[row] = keyOf(row)
  OBVIOUS
<1> HIDE DEF keyOf, new
<1>9. new \subseteq rows
  BY DEF new, Unkeyed
<1>10. \A row \in rows : keyed(row).rowkey = key[row] /\ keyed(row).id = row.id
         /\ keyed(row).from = row.slice.from /\ keyed(row).to = row.slice.to
         /\ keyed(row).value = row.slice.value
  BY <1>8
<1>11. ASSUME NEW row \in rows
       PROVE  key[row] \in 1..MaxRowkey /\ (key[row] <= last \/ key[row] < nextRowkey)
  <2>1. CASE row \in new
    BY <2>1, <1>4, <1>5, <1>8
  <2>2. CASE row \notin new
    BY <2>2, <1>4, <1>6, <1>8
  <2> QED BY <2>1, <2>2
<1>12. ASSUME NEW row \in rows, NEW r \in history
       PROVE  key[row] = r.rowkey <=> row.id = r.id /\ row.slice.from = r.from
  <2>1. CASE row \in new
    BY <2>1, <1>4, <1>5, <1>7, <1>8
  <2>2. CASE row \notin new
    <3>1. PICK o \in history : o.id = row.id /\ o.from = row.slice.from /\ key[row] = o.rowkey
      BY <2>2, <1>6, <1>8
    <3> QED BY <3>1 DEF KeysUnique, PeriodsUnique
  <2> QED BY <2>1, <2>2
<1>13. ASSUME NEW r1 \in rows, NEW r2 \in rows, key[r1] = key[r2]
       PROVE  r1 = r2
  <2>1. CASE r1 \in new /\ r2 \in new
    BY <2>1, <1>13, <1>3, <1>8 DEF keyOf
  <2>2. CASE r1 \in new /\ r2 \notin new
    BY <2>2, <1>13, <1>4, <1>5, <1>6, <1>8
  <2>3. CASE r1 \notin new /\ r2 \in new
    BY <2>3, <1>13, <1>4, <1>5, <1>6, <1>8
  <2>4. CASE r1 \notin new /\ r2 \notin new
    <3>1. PICK o \in history : o.id = r1.id /\ o.from = r1.slice.from /\ key[r1] = o.rowkey
      BY <2>4, <1>6, <1>8
    <3>2. r2.id = o.id /\ r2.slice.from = o.from
      BY <3>1, <1>12, <1>13
    <3> QED BY <3>1, <3>2, <1>2
  <2> QED BY <2>1, <2>2, <2>3, <2>4
<1>14. desired \subseteq HistoryRows
  <2> SUFFICES ASSUME NEW row \in rows PROVE keyed(row) \in HistoryRows
    BY <1>1
  <2>1. row.slice.value \in Values /\ row.slice.from \in Times /\ row.slice.to \in 1..Forever
    BY <1>2 DEF Slices
  <2>2. row.id \in Ids
    BY <1>2
  <2> QED BY <2>1, <2>2, <1>8, <1>11 DEF HistoryRows
<1> HIDE DEF key
<1>15. \A d \in desired : \E row \in rows :
         /\ d = keyed(row) /\ d.rowkey = key[row] /\ d.id = row.id /\ d.from = row.slice.from
         /\ d.to = row.slice.to /\ d.value = row.slice.value
  BY <1>1, <1>10
<1>16. \A row \in rows : keyed(row) \in desired
  BY <1>1
<1> HIDE DEF keyed, desired
<1>17. \A d \in desired : d.id \in ids /\ (d.rowkey <= last \/ d.rowkey < nextRowkey)
  BY <1>15, <1>11, <1>2
<1>18. \A d, e \in desired : d.rowkey = e.rowkey \/ (d.id = e.id /\ d.from = e.from) => d = e
  <2> SUFFICES ASSUME NEW d \in desired, NEW e \in desired,
                      d.rowkey = e.rowkey \/ (d.id = e.id /\ d.from = e.from)
               PROVE  d = e
    OBVIOUS
  <2>1. PICK r1 \in rows : d = keyed(r1) /\ d.rowkey = key[r1] /\ d.id = r1.id /\ d.from = r1.slice.from
    BY <1>15
  <2>2. PICK r2 \in rows : e = keyed(r2) /\ e.rowkey = key[r2] /\ e.id = r2.id /\ e.from = r2.slice.from
    BY <1>15
  <2>3. r1 = r2
    BY <2>1, <2>2, <1>13, <1>2
  <2> QED BY <2>1, <2>2, <2>3
<1>19. \A d \in desired, r \in history : d.rowkey = r.rowkey <=> d.id = r.id /\ d.from = r.from
  <2> SUFFICES ASSUME NEW d \in desired, NEW r \in history
               PROVE  d.rowkey = r.rowkey <=> d.id = r.id /\ d.from = r.from
    OBVIOUS
  <2>1. PICK row \in rows : d.rowkey = key[row] /\ d.id = row.id /\ d.from = row.slice.from
    BY <1>15
  <2> QED BY <2>1, <1>12
<1>20. ASSUME NEW id \in ids
       PROVE  {SliceOf(d) : d \in {e \in desired : e.id = id}} = mergeValidTime(slicesOf[id])
  <2>1. ASSUME NEW d \in desired, d.id = id
        PROVE  SliceOf(d) \in mergeValidTime(slicesOf[id])
    <3>1. PICK row \in rows : d.id = row.id /\ d.from = row.slice.from
                                /\ d.to = row.slice.to /\ d.value = row.slice.value
      BY <1>15
    <3>2. SliceOf(d) = row.slice
      BY <3>1, <1>2 DEF SliceOf, Slices
    <3> QED BY <2>1, <3>1, <3>2, <1>2
  <2>2. ASSUME NEW s \in mergeValidTime(slicesOf[id])
        PROVE  \E d \in desired : d.id = id /\ SliceOf(d) = s
    <3> DEFINE row == [id |-> id, slice |-> s]
    <3>1. row \in rows /\ row.id = id /\ row.slice = s
      BY <1>2
    <3>2. keyed(row) \in desired /\ keyed(row).id = id
          /\ keyed(row).from = s.from /\ keyed(row).to = s.to /\ keyed(row).value = s.value
      BY <3>1, <1>16, <1>10
    <3>3. s \in Slices
      BY <3>1, <1>2
    <3>4. SliceOf(keyed(row)) = s
      BY <3>2, <3>3 DEF SliceOf, Slices
    <3> QED BY <3>2, <3>4
  <2> QED BY <2>1, <2>2
<1> QED BY <1>14, <1>17, <1>18, <1>19, <1>20 DEF desired, rows, WellKeyed

-----------------------------------------------------------------------------
\* An import

\* An object whose rows stay, and none of whose limits is passed, is seen as before.
LEMMA CleanStays ==
  ASSUME NEW table, table \subseteq HistoryRows, NEW old, NEW id \in Ids,
         NEW v \in Times, NEW w \in Times, v <= w,
         \A r : r \in table /\ r.id = id <=> r \in old /\ r.id = id,
         id \notin ChangedByVirkning(table, v, w)
  PROVE  View(table, w)[id] = View(old, v)[id]
<1>1. ASSUME NEW r, r \in table, r.id = id
      PROVE  r.from <= w /\ w < r.to <=> r.from <= v /\ v < r.to
  <2>1. r.from \in Nat /\ r.to \in Nat /\ v \in Nat /\ w \in Nat
    BY <1>1, TypeOfSlices DEF HistoryRows, Times
  <2>2. ~ Passed(r.from, v, w) /\ ~ Passed(r.to, v, w)
    BY <1>1 DEF ChangedByVirkning
  <2> QED BY <2>1, <2>2 DEF Passed
<1>2. ValidRows(table, id, w) = ValidRows(old, id, v)
  BY <1>1 DEF ValidRows
<1> QED BY <1>2 DEF View

NewHistory(ids, newRaw, numbers) ==
  (history \ HistoryOf(ids)) \cup WithRowkeys(Desired(ids, newRaw), numbers)

NewCurrent(ids, newRaw, numbers, time) ==
  LET newHistory == NewHistory(ids, newRaw, numbers)
      changes == HistoryChanges(WithRowkeys(Desired(ids, newRaw), numbers), HistoryOf(ids))
  IN  Renewed(Dirty(changes, newHistory, virkning, time), View(newHistory, time))

\* What is wanted of the new history
NewTables(newRaw, newHistory, last) ==
  /\ newHistory \subseteq HistoryRows
  /\ \A r, s \in newHistory : r.rowkey = s.rowkey \/ (r.id = s.id /\ r.from = s.from) => r = s
  /\ \A r \in newHistory : r.rowkey < last + 1
  /\ \A id \in Ids : {SliceOf(r) : r \in {s \in newHistory : s.id \in {id}}}
                       = mergeValidTime(newRaw[id])
  /\ \A r \in history, s \in newHistory : r.rowkey = s.rowkey <=> r.id = s.id /\ r.from = s.from

LEMMA ImportKeeps ==
  ASSUME IInv, NEW ids \in SUBSET Ids, NEW newRaw \in [Ids -> Timelines],
         \A id \in Ids \ ids : newRaw[id] = raw[id],
         NEW last \in Int, last <= MaxRowkey, nextRowkey <= last + 1,
         NEW numbers \in Injection(Unkeyed(Desired(ids, newRaw)), nextRowkey..last),
         NEW time \in Times, Millis(virkning) <= time
  PROVE  /\ NewTables(newRaw, NewHistory(ids, newRaw, numbers), last)
         /\ NewCurrent(ids, newRaw, numbers, time) = View(NewHistory(ids, newRaw, numbers), time)
<1> DEFINE desired == WithRowkeys(Desired(ids, newRaw), numbers)
           changes == HistoryChanges(desired, HistoryOf(ids))
           newHistory == (history \ HistoryOf(ids)) \cup desired
           dirty == Dirty(changes, newHistory, virkning, time)
<1>1. /\ desired \subseteq HistoryRows
      /\ \A d \in desired : d.id \in ids /\ (d.rowkey <= last \/ d.rowkey < nextRowkey)
      /\ \A d, e \in desired : d.rowkey = e.rowkey \/ (d.id = e.id /\ d.from = e.from) => d = e
      /\ \A d \in desired, r \in history : d.rowkey = r.rowkey <=> d.id = r.id /\ d.from = r.from
      /\ \A id \in ids : {SliceOf(d) : d \in {e \in desired : e.id = id}} = mergeValidTime(newRaw[id])
  <2>1. TypeOK /\ KeysUnique /\ PeriodsUnique /\ KeysDrawn
    BY DEF IInv
  <2>2. WellKeyed(desired, ids, newRaw, last)
    BY <2>1, DesiredHistory
  <2> QED BY <2>2 DEF WellKeyed
<1> HIDE DEF desired
<1>2. /\ history \subseteq HistoryRows /\ nextRowkey \in Nat /\ MaxRowkey \in Nat
      /\ \A r \in history : r.rowkey < nextRowkey
      /\ \A r, s \in history : r.rowkey = s.rowkey => r = s
      /\ \A r, s \in history : r.id = s.id /\ r.from = s.from => r = s
      /\ \A r \in HistoryRows : r.rowkey \in Nat
  BY CurrentTablesAssumption DEF IInv, TypeOK, KeysDrawn, KeysUnique, PeriodsUnique, HistoryRows
<1>3. \A r : r \in HistoryOf(ids) <=> r \in history /\ r.id \in ids
  BY DEF HistoryOf
<1>4. newHistory \subseteq HistoryRows
  BY <1>1, <1>2
<1>5. \A r \in newHistory : (r \in history /\ r.id \notin ids) \/ r \in desired
  BY <1>3
<1>6. \A r, s \in newHistory : r.rowkey = s.rowkey \/ (r.id = s.id /\ r.from = s.from) => r = s
  <2> SUFFICES ASSUME NEW r \in newHistory, NEW s \in newHistory,
                      r.rowkey = s.rowkey \/ (r.id = s.id /\ r.from = s.from)
               PROVE  r = s
    OBVIOUS
  <2>1. CASE r \in history /\ s \in history
    BY <2>1, <1>2
  <2>2. CASE r \in desired /\ s \in desired
    BY <2>2, <1>1
  <2>3. CASE r \in history /\ r.id \notin ids /\ s \in desired
    BY <2>3, <1>1
  <2>4. CASE s \in history /\ s.id \notin ids /\ r \in desired
    BY <2>4, <1>1
  <2> QED BY <2>1, <2>2, <2>3, <2>4, <1>5
<1>7. \A r \in newHistory : r.rowkey < last + 1
  <2> SUFFICES ASSUME NEW r \in newHistory PROVE r.rowkey < last + 1
    OBVIOUS
  <2>1. r.rowkey <= last \/ r.rowkey < nextRowkey
    BY <1>1, <1>2, <1>5
  <2>2. r.rowkey \in Nat
    BY <1>2, <1>4
  <2> QED BY <2>1, <2>2, <1>2
<1>8. \A r \in history, s \in newHistory : r.rowkey = s.rowkey <=> r.id = s.id /\ r.from = s.from
  BY <1>1, <1>2, <1>5
<1>9. ASSUME NEW id \in Ids
      PROVE  {SliceOf(r) : r \in {s \in newHistory : s.id \in {id}}} = mergeValidTime(newRaw[id])
  <2>1. CASE id \in ids
    <3>1. {s \in newHistory : s.id \in {id}} = {e \in desired : e.id = id}
      BY <2>1, <1>3
    <3> QED BY <2>1, <3>1, <1>1
  <2>2. CASE id \notin ids
    <3>1. {s \in newHistory : s.id \in {id}} = HistoryOf({id})
      BY <2>2, <1>1, <1>3 DEF HistoryOf
    <3>2. newRaw[id] = raw[id]
      BY <2>2
    <3> QED BY <3>1, <3>2 DEF IInv, HistoryIsMergedRaw
  <2> QED BY <2>1, <2>2
\* An object without a change row has the rows it had.
<1>10. ASSUME NEW id \in Ids, \A c \in changes : c.id # id, NEW r
       PROVE  r \in newHistory /\ r.id = id <=> r \in history /\ r.id = id
  <2>1. CASE id \notin ids
    BY <2>1, <1>1, <1>3
  <2>2. ASSUME id \in ids, r \in newHistory, r.id = id PROVE r \in history
    <3>1. r \in desired
      BY <2>2, <1>3
    <3>2. r \in changes \/ r \in HistoryOf(ids)
      BY <3>1 DEF HistoryChanges
    <3> QED BY <3>2, <1>10, <2>2, <1>3
  <2>3. ASSUME id \in ids, r \in history, r.id = id PROVE r \in newHistory
    <3>1. r \in HistoryOf(ids)
      BY <2>3, <1>3
    <3>2. r \notin changes
      BY <1>10, <2>3
    <3>3. PICK d \in desired : d.rowkey = r.rowkey
      BY <3>1, <3>2 DEF HistoryChanges
    <3>4. d.id = id
      BY <3>3, <2>3, <1>1
    <3>5. d \in HistoryOf(ids)
      BY <3>4, <1>10, <3>3 DEF HistoryChanges
    <3>6. d = r
      BY <3>3, <3>5, <1>2, <1>3, <2>3
    <3> QED BY <3>3, <3>6
  <2> QED BY <2>1, <2>2, <2>3
<1> DEFINE view == View(newHistory, time)
<1>11. view = [id \in Ids |-> view[id]]
  BY DEF View
<1> HIDE DEF changes, newHistory
<1>12. virkning \in Times /\ current = View(history, virkning)
       /\ (current # NoRows => virkning <= time)
  BY DEF IInv, TypeOK, InMillis, CurrentIsValidNow
<1>13. ASSUME NEW id \in Ids, id \notin dirty PROVE current[id] = view[id]
  <2>1. current # NoRows
    BY <1>13 DEF Dirty
  <2>2. id \notin ChangedByVirkning(newHistory, virkning, time)
    BY <1>13, <2>1 DEF Dirty
  <2>3. CASE \A c \in changes : c.id # id
    <3>1. \A r : r \in newHistory /\ r.id = id <=> r \in history /\ r.id = id
      BY <2>3, <1>10
    <3> QED BY <3>1, <2>1, <2>2, <1>4, <1>12, CleanStays
  <2>4. CASE \E c \in changes : c.id = id
    <3>1. id \notin computeDirty(changes, view)
      BY <1>13, <2>1, <2>4 DEF Dirty
    <3> QED BY <3>1, <2>4 DEF computeDirty
  <2> QED BY <2>3, <2>4
<1>14. Renewed(dirty, view) = view
  <2> HIDE DEF dirty, view
  <2> QED BY <1>11, <1>13 DEF Renewed
<1>15. NewHistory(ids, newRaw, numbers) = newHistory
  BY DEF NewHistory, newHistory, desired
<1>16. NewCurrent(ids, newRaw, numbers, time) = Renewed(dirty, view)
  BY DEF NewCurrent, NewHistory, newHistory, changes, desired
<1>17. NewTables(newRaw, newHistory, last)
  BY <1>4, <1>6, <1>7, <1>8, <1>9 DEF NewTables
<1> HIDE DEF dirty
<1> QED BY <1>14, <1>15, <1>16, <1>17

\* What a committed import does: it draws numbers, and the tables stay or are as wanted.
Imported(newNext) ==
  \/ UNCHANGED tables
  \/ /\ raw' \in [Ids -> Timelines] /\ virkning' \in Times /\ Millis(virkning') = virkning'
     /\ NewTables(raw', history', newNext - 1)
     /\ current' = View(history', virkning')

LEMMA ImportDoes ==
  ASSUME IInv, NEW p \in Importers, Import(p)
  PROVE  /\ nextRowkey' \in 1..MaxRowkey + 1 /\ nextRowkey <= nextRowkey'
         /\ Imported(nextRowkey')
         /\ began' = [began EXCEPT ![p] = NotBegun] /\ UNCHANGED clock
<1>0. PICK touched \in SUBSET Ids :
        \E newRaw \in RawAfter(touched), elsewhere \in BOOLEAN, registered \in {0} \cup Registered :
          ImportOf(p, touched, newRaw, elsewhere, registered)
  BY DEF Import
<1>1. PICK newRaw \in RawAfter(touched), elsewhere \in BOOLEAN, registered \in {0} \cup Registered :
        ImportOf(p, touched, newRaw, elsewhere, registered)
  BY <1>0
<1> DEFINE time == getNextVirkningTime(began[p], registered)
           ids == IF history = {} THEN Ids ELSE touched
           new == Unkeyed(Desired(ids, newRaw))
           last == nextRowkey + Cardinality(new) - 1
<1>2. newRaw \in [Ids -> Timelines] /\ \A id \in Ids \ ids : newRaw[id] = raw[id]
  <2>1. PICK slicesOf \in [touched -> Timelines] :
          newRaw = [id \in Ids |-> IF id \in touched THEN slicesOf[id] ELSE raw[id]]
    BY DEF RawAfter
  <2> QED BY <2>1 DEF IInv, TypeOK
<1>3. began[p] \in Times /\ registered \in Times
  BY CurrentTablesAssumption DEF Import, IInv, TypeOK, Times
<1>4. time \in Times /\ Millis(time) = time /\ Millis(virkning) <= time
  BY <1>1, <1>3, NextVirkningTime DEF MayBeSet, IInv, ImportOf
<1> HIDE DEF time
<1>5. ids \in SUBSET Ids
  OBVIOUS
<1>6. Cardinality(new) \in Nat
  <2>1. IsFiniteSet(Desired(ids, newRaw))
    BY <1>2, <1>5, DesiredRows
  <2>2. IsFiniteSet(new)
    BY <2>1, FS_Subset DEF Unkeyed
  <2> QED BY <2>2, FS_CardinalityType
<1>7. last \in Int /\ last <= MaxRowkey /\ nextRowkey <= last + 1 /\ nextRowkey' = last + 1
      /\ nextRowkey \in Nat \ {0} /\ MaxRowkey \in Nat
  <2>1. last <= MaxRowkey /\ nextRowkey' = last + 1
    BY <1>1 DEF ImportOf, Unkeyed
  <2> HIDE DEF new
  <2> QED BY <2>1, <1>6, CurrentTablesAssumption DEF IInv, TypeOK
<1>8. PICK numbers \in Injection(new, nextRowkey..last) :
        \/ UNCHANGED tables
        \/ /\ raw' = newRaw
           /\ history' = NewHistory(ids, newRaw, numbers)
           /\ current' = NewCurrent(ids, newRaw, numbers, time)
           /\ virkning' = time
  BY <1>1 DEF time, ImportOf, Unkeyed, NewHistory, NewCurrent
<1> HIDE DEF ids, last
<1>9. NewTables(newRaw, NewHistory(ids, newRaw, numbers), last)
      /\ NewCurrent(ids, newRaw, numbers, time) = View(NewHistory(ids, newRaw, numbers), time)
  BY <1>2, <1>4, <1>5, <1>7, ImportKeeps
<1>10. Imported(last + 1)
  BY <1>2, <1>4, <1>7, <1>8, <1>9 DEF Imported
<1> QED BY <1>7, <1>10 DEF Import

-----------------------------------------------------------------------------
\* The invariant

LEMMA InitInv == Init => IInv
<1> SUFFICES ASSUME Init PROVE IInv
  OBVIOUS
<1>1. TypeOK
  BY CurrentTablesAssumption DEF Init, TypeOK, NoRows
<1>2. mergeValidTime({}) = {}
  BY DEF mergeValidTime
<1>3. HistoryIsMergedRaw
  BY <1>2 DEF Init, HistoryIsMergedRaw, HistoryOf
<1>4. CurrentIsValidNow
  BY DEF Init, CurrentIsValidNow, View, ValidRows, NoRows
<1> QED BY <1>1, <1>3, <1>4 DEF IInv, Init, KeysUnique, PeriodsUnique, KeysDrawn, InMillis

LEMMA NextInv == IInv /\ [Next]_vars => IInv'
<1> SUFFICES ASSUME IInv, [Next]_vars PROVE IInv'
  OBVIOUS
<1>1. MaxTime \in Nat /\ MaxRowkey \in Nat
  BY CurrentTablesAssumption
\* What leaves the tables alone only has to keep the types and the numbers drawn.
<1>2. ASSUME UNCHANGED tables, clock' \in Times, began' \in [Importers -> Times \cup {NotBegun}],
             nextRowkey' \in 1..MaxRowkey + 1, nextRowkey <= nextRowkey'
      PROVE  IInv'
  <2>1. TypeOK'
    BY <1>2 DEF IInv, TypeOK, tables
  <2>2. KeysDrawn'
    <3>1. \A r \in history : r.rowkey \in Nat
      BY <1>1 DEF IInv, TypeOK, HistoryRows
    <3> QED BY <3>1, <1>1, <1>2 DEF IInv, KeysDrawn, TypeOK, tables
  <2> QED BY <2>1, <2>2, <1>2 DEF IInv, KeysUnique, PeriodsUnique, InMillis, HistoryIsMergedRaw,
                                  HistoryOf, CurrentIsValidNow, View, ValidRows, tables
<1>3. clock \in Times /\ began \in [Importers -> Times \cup {NotBegun}]
      /\ nextRowkey \in 1..MaxRowkey + 1 /\ nextRowkey <= nextRowkey
  BY DEF IInv, TypeOK
<1>4. CASE Tick
  BY <1>1, <1>2, <1>3, <1>4 DEF Tick, Times, tables
<1>5. ASSUME NEW p \in Importers, Begin(p) PROVE IInv'
  BY <1>2, <1>3, <1>5 DEF Begin
<1>6. ASSUME NEW p \in Importers, Fail(p) PROVE IInv'
  BY <1>1, <1>2, <1>3, <1>6 DEF Fail
<1>7. ASSUME NEW p \in Importers, Import(p) PROVE IInv'
  <2>1. /\ nextRowkey' \in 1..MaxRowkey + 1 /\ nextRowkey <= nextRowkey'
        /\ Imported(nextRowkey')
        /\ began' = [began EXCEPT ![p] = NotBegun] /\ UNCHANGED clock
    BY <1>7, ImportDoes
  <2>2. clock' \in Times /\ began' \in [Importers -> Times \cup {NotBegun}]
    BY <2>1, <1>3
  <2>3. CASE UNCHANGED tables
    BY <2>1, <2>2, <2>3, <1>2
  <2>4. CASE ~ UNCHANGED tables
    <3>1. /\ raw' \in [Ids -> Timelines] /\ virkning' \in Times /\ Millis(virkning') = virkning'
          /\ NewTables(raw', history', nextRowkey' - 1)
          /\ current' = View(history', virkning')
      BY <2>1, <2>4 DEF Imported
    <3>2. TypeOK'
      <4>1. current' \in [Ids -> Values \cup {NoRow}]
        <5>1. \A id \in Ids : View(history', virkning')[id] \in Values \cup {NoRow}
          <6> SUFFICES ASSUME NEW id \in Ids, ValidRows(history', id, virkning') # {}
                       PROVE  (CHOOSE r \in ValidRows(history', id, virkning') : TRUE).value \in Values
            BY DEF View
          <6>1. (CHOOSE r \in ValidRows(history', id, virkning') : TRUE) \in HistoryRows
            BY <3>1 DEF ValidRows, NewTables
          <6> QED BY <6>1 DEF HistoryRows
        <5> QED BY <5>1, <3>1 DEF View
      <4> QED BY <4>1, <3>1, <2>1, <2>2 DEF TypeOK, NewTables
    <3>3. KeysUnique' /\ PeriodsUnique'
      BY <3>1 DEF NewTables, KeysUnique, PeriodsUnique
    <3>4. KeysDrawn'
      BY <3>1, <2>1, <1>1 DEF NewTables, KeysDrawn
    <3>5. HistoryIsMergedRaw'
      BY <3>1 DEF NewTables, HistoryIsMergedRaw, HistoryOf
    <3>6. InMillis' /\ CurrentIsValidNow'
      BY <3>1 DEF InMillis, CurrentIsValidNow, View, ValidRows
    <3> QED BY <3>2, <3>3, <3>4, <3>5, <3>6 DEF IInv
  <2> QED BY <2>3, <2>4
<1>8. CASE UNCHANGED vars
  BY <1>2, <1>3, <1>8 DEF vars, tables
<1> QED BY <1>4, <1>5, <1>6, <1>7, <1>8 DEF Next

\* The inductive invariant holds in every reachable state.
THEOREM InvHolds == Spec => []IInv
<1> QED BY InitInv, NextInv, PTL DEF Spec

\* Whatever the objects, their timelines and the order of imports, the clock
\* and the tables keep their types.
THEOREM TypeCorrect == Spec => []TypeOK
<1>1. IInv => TypeOK
  BY DEF IInv
<1> QED BY <1>1, InvHolds, PTL

\* The current table has exactly the rows valid at the virkning time, although
\* imports only renew a part of it (computeDirtyCurrentTable and the changes).
THEOREM CurrentFollowsVirkning == Spec => []CurrentIsValidNow
<1>1. IInv => CurrentIsValidNow
  BY DEF IInv
<1> QED BY <1>1, InvHolds, PTL

\* The merged history says of any time what the register says, and no period
\* could be longer (mergeValidTime and its use for changed objects only).
THEOREM HistoryFollowsRegister == Spec => []HistoryIsMerged
<1>1. IInv => HistoryIsMerged
  <2> SUFFICES ASSUME IInv, NEW id \in Ids
               PROVE  /\ Disjoint(HistoryOf({id}))
                      /\ \A t \in Times : ValuesAt(HistoryOf({id}), t) = ValuesAt(raw[id], t)
                      /\ \A r, s \in HistoryOf({id}) : r.to = s.from => r.value # s.value
    BY DEF HistoryIsMerged
  <2> DEFINE rows == HistoryOf({id})
             merged == mergeValidTime(raw[id])
  <2>1. merged = {SliceOf(r) : r \in rows}
    BY DEF IInv, HistoryIsMergedRaw
  <2>2. Periods(raw[id])
    BY TimelinesArePeriods DEF IInv, TypeOK
  <2>3. /\ Disjoint(merged)
        /\ \A t \in Nat : ValuesAt(merged, t) = ValuesAt(raw[id], t)
        /\ \A r, s \in merged : /\ r.to = s.from => r.value # s.value
                                /\ r.from = s.from => r = s
    BY <2>2, MergedIsRight
  <2>4. \A r \in rows : /\ SliceOf(r) \in merged /\ SliceOf(r).value = r.value
                        /\ SliceOf(r).from = r.from /\ SliceOf(r).to = r.to
    BY <2>1 DEF SliceOf
  <2>5. \A r, s \in rows : r.from = s.from => r = s
    BY DEF IInv, PeriodsUnique, HistoryOf
  <2> HIDE DEF merged, rows
  <2>6. Disjoint(rows)
    <3> SUFFICES ASSUME NEW r \in rows, NEW s \in rows, r # s
                 PROVE  r.to <= s.from \/ s.to <= r.from
      BY DEF Disjoint
    <3>1. SliceOf(r) # SliceOf(s)
      BY <2>4, <2>5
    <3> QED BY <3>1, <2>3, <2>4 DEF Disjoint
  <2>7. ASSUME NEW t \in Times PROVE ValuesAt(rows, t) = ValuesAt(raw[id], t)
    <3>1. ValuesAt(rows, t) = ValuesAt(merged, t)
      <4>1. \A v \in ValuesAt(rows, t) : v \in ValuesAt(merged, t)
        BY <2>4 DEF ValuesAt
      <4>2. \A v \in ValuesAt(merged, t) : v \in ValuesAt(rows, t)
        BY <2>1, <2>4 DEF ValuesAt
      <4> QED BY <4>1, <4>2
    <3> QED BY <3>1, <2>3, TypeOfSlices
  <2>8. ASSUME NEW r \in rows, NEW s \in rows, r.to = s.from PROVE r.value # s.value
    <3>1. PICK m \in merged : m.value = r.value /\ m.to = r.to
      BY <2>4
    <3>2. PICK n \in merged : n.value = s.value /\ n.from = s.from
      BY <2>4
    <3>3. m.value # n.value
      BY <3>1, <3>2, <2>3, <2>8
    <3> QED BY <3>1, <3>2, <3>3
  <2> QED BY <2>6, <2>7, <2>8 DEF rows
<1> QED BY <1>1, InvHolds, PTL

\* A period that an import keeps keeps its rowkey, and no key is given to
\* another period (desiredView and rowkey_sequence).
THEOREM RowkeysStay == Spec => RowkeysAreKept
<1> DEFINE Kept == \A r \in history, s \in history' :
                     r.rowkey = s.rowkey <=> r.id = s.id /\ r.from = s.from
<1>1. IInv /\ [Next]_vars => [Kept]_vars
  <2> SUFFICES ASSUME IInv, Next PROVE Kept
    OBVIOUS
  <2>1. CASE UNCHANGED tables
    BY <2>1 DEF tables, IInv, KeysUnique, PeriodsUnique
  <2>2. ASSUME NEW p \in Importers, Import(p), ~ UNCHANGED tables PROVE Kept
    BY <2>2, ImportDoes DEF Imported, NewTables
  <2> QED BY <2>1, <2>2 DEF Next, Tick, Begin, Fail
<1> QED BY <1>1, InvHolds, PTL DEF Spec, RowkeysAreKept
==============================================================================
