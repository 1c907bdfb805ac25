-------------------------- MODULE Replication_proofs --------------------------
(***************************************************************************)
(* Proofs about ReplicationServer, for any tables, keys, rows, foreign     *)
(* keys and any number of transactions; and, from these, about             *)
(* ReplicationClient with commands that run one after the other.           *)
(***************************************************************************)
EXTENDS ReplicationClient, SharedLemmas

-----------------------------------------------------------------------------
\* Least and largest elements

LEMMA LargestExists ==
  ASSUME NEW T, T \subseteq Nat, T # {}, NEW bound \in Nat, \A n \in T : n <= bound
  PROVE  \E n \in T : \A m \in T : n >= m
<1> DEFINE distances == {bound - n : n \in T}
<1>1. distances \subseteq Nat
  <2>1. \A n \in T : bound - n \in Nat
    OBVIOUS
  <2> QED BY <2>1
<1>2. distances # {}
  OBVIOUS
<1>3. PICK d \in distances : \A x \in distances : d <= x
  <2> HIDE DEF distances
  <2> QED BY <1>1, <1>2, LeastElement
<1>4. PICK n \in T : d = bound - n
  BY <1>3
<1>5. ASSUME NEW m \in T PROVE n >= m
  <2>1. bound - n <= bound - m
    BY <1>3, <1>4
  <2> QED BY <2>1
<1> QED BY <1>5

LEMMA ImageFinite ==
  ASSUME NEW S, IsFiniteSet(S), NEW f
  PROVE  IsFiniteSet({f[x] : x \in S}) /\ Cardinality({f[x] : x \in S}) <= Cardinality(S)
<1> DEFINE g == [x \in S |-> f[x]]
<1>1. g \in Surjection(S, {f[x] : x \in S})
  BY DEF Surjection
<1> QED BY <1>1, FS_Surjection

-----------------------------------------------------------------------------
\* The changes of a transaction

\* What is not published does not show: updates of private columns only.
Unpublished(D, table) ==
  \A c \in D : ~ c.public =>
    c.operation = "update" /\ c.row.public = table[c.key].public

\* setPublic only decides about public.
LEMMA SetPublicFits ==
  ASSUME NEW e, NEW D \in SUBSET Change, NEW txid, NEW source, NEW table,
         Fit(D, txid, source, table)
  PROVE  /\ setPublic(e, D, table) \in SUBSET Change
         /\ Fit(setPublic(e, D, table), txid, source, table)
         /\ Unpublished(setPublic(e, D, table), table)
<1> DEFINE marked(c) == [c EXCEPT !.public = \/ c.operation # "update"
                                             \/ e \in timed
                                             \/ c.row.public # table[c.key].public]
<1>1. setPublic(e, D, table) = {marked(c) : c \in D}
  BY DEF setPublic
<1>2. \A c \in D : /\ marked(c) \in Change
                   /\ marked(c).txid = c.txid /\ marked(c).key = c.key
                   /\ marked(c).operation = c.operation /\ marked(c).row = c.row
                   /\ ~ marked(c).public => c.operation = "update"
                                          /\ c.row.public = table[c.key].public
  BY DEF Change
<1> HIDE DEF marked
<1>3. \A c, d \in D : c.key = d.key => c = d
  BY DEF Fit
<1>4. \A c, d \in setPublic(e, D, table) : c.key = d.key => c = d
  BY <1>1, <1>2, <1>3
<1>5. \A k \in Keys : source[k] # table[k] => \E c \in setPublic(e, D, table) : c.key = k
  BY <1>1, <1>2 DEF Fit
<1>6. setPublic(e, D, table) \in SUBSET Change
  BY <1>1, <1>2
<1>7. Unpublished(setPublic(e, D, table), table)
  BY <1>1, <1>2 DEF Unpublished
<1> QED BY <1>1, <1>2, <1>4, <1>5, <1>6, <1>7 DEF Fit

-----------------------------------------------------------------------------
\* The sequence numbers of a transaction

\* What the calls of assignSequenceNumbers work on.
Computed(D) ==
  /\ D \in [Entities -> SUBSET Change]
  /\ \A e \in Entities : IsFiniteSet(D[e])

LEMMA NumberedFinite ==
  ASSUME NEW D, Computed(D)
  PROVE  IsFiniteSet(Numbered(D))
<1> DEFINE all == UNION {D[e] : e \in Entities}
<1>1. IsFiniteSet({D[e] : e \in Entities})
  BY ImageFinite, ServerAssumption
<1>2. IsFiniteSet(all)
  BY <1>1, FS_UNION DEF Computed
<1>3. IsFiniteSet(Entities \X all)
  <2> HIDE DEF all
  <2> QED BY <1>2, FS_Product, ServerAssumption
<1>4. Numbered(D) \subseteq Entities \X all
  BY DEF Numbered
<1> QED BY <1>3, <1>4, FS_Subset

\* The numbers continue from the last one and are as many as the changes.
LEMMA NumberRange ==
  ASSUME NEW D, Computed(D), lastSequenceNumber \in Nat, NEW ranking \in Rankings,
         NEW e \in Entities, NEW c \in D[e], c.public
  PROVE  /\ sequenceNumber(D, e, c, ranking) \in Nat
         /\ sequenceNumber(D, e, c, ranking) > lastSequenceNumber
         /\ sequenceNumber(D, e, c, ranking) <= lastSequenceNumber + Cardinality(Numbered(D))
<1> DEFINE upTo == {p \in Numbered(D) : Precedes(p[1], p[2], e, c, ranking)}
<1>1. c.key \in Keys
  BY DEF Computed, Change
<1>2. ranking[c.key] \in Nat
  BY <1>1, FS_CardinalityType, ServerAssumption DEF Rankings
<1>3. <<e, c>> \in upTo
  BY <1>2 DEF Numbered, Precedes
<1>4. IsFiniteSet(upTo) /\ Cardinality(upTo) <= Cardinality(Numbered(D))
  BY NumberedFinite, FS_Subset
<1>5. Cardinality(upTo) \in Nat /\ Cardinality(upTo) # 0
  <2> HIDE DEF upTo
  <2> QED BY <1>3, <1>4, FS_CardinalityType, FS_EmptySet
<1>6. Cardinality(Numbered(D)) \in Nat
  BY NumberedFinite, FS_CardinalityType
<1>7. sequenceNumber(D, e, c, ranking) = lastSequenceNumber + Cardinality(upTo)
  BY DEF sequenceNumber
<1> HIDE DEF upTo
<1> QED BY <1>4, <1>5, <1>6, <1>7

\* The numbering only sets changeid.
LEMMA NumbersFit ==
  ASSUME NEW D, Computed(D), lastSequenceNumber \in Nat, NEW ranking \in Rankings,
         NEW e \in Entities, NEW txid, NEW source, NEW table, Fit(D[e], txid, source, table)
  PROVE  /\ assignSequenceNumbers(D, ranking)[e] \in SUBSET Change
         /\ Fit(assignSequenceNumbers(D, ranking)[e], txid, source, table)
         /\ \A c \in assignSequenceNumbers(D, ranking)[e] :
              /\ c.changeid <= lastSequenceNumber + Cardinality(Numbered(D))
              /\ IF c.public THEN c.changeid > lastSequenceNumber ELSE c.changeid = 0
              /\ \E d \in D[e] : /\ d.public = c.public /\ d.key = c.key
                                 /\ d.operation = c.operation /\ d.row = c.row
<1> DEFINE numbered(c) == [c EXCEPT !.changeid = IF <<e, c>> \in Numbered(D)
                                                 THEN sequenceNumber(D, e, c, ranking) ELSE 0]
           N == assignSequenceNumbers(D, ranking)[e]
<1>1. N = {numbered(c) : c \in D[e]}
  BY DEF assignSequenceNumbers
<1>2. \A c \in D[e] : c \in Change
  BY DEF Computed
<1>3. ASSUME NEW c \in D[e]
      PROVE  LET n == IF <<e, c>> \in Numbered(D) THEN sequenceNumber(D, e, c, ranking) ELSE 0
             IN  /\ n \in Nat /\ n <= lastSequenceNumber + Cardinality(Numbered(D))
                 /\ IF c.public THEN n > lastSequenceNumber ELSE n = 0
  <2>1. <<e, c>> \in Numbered(D) <=> c.public
    BY DEF Numbered
  <2>2. Cardinality(Numbered(D)) \in Nat
    BY NumberedFinite, FS_CardinalityType
  <2> QED BY <2>1, <2>2, NumberRange
<1>4. \A c \in D[e] : /\ numbered(c) \in Change
                      /\ numbered(c).txid = c.txid /\ numbered(c).key = c.key
                      /\ numbered(c).operation = c.operation /\ numbered(c).row = c.row
                      /\ numbered(c).public = c.public
                      /\ numbered(c).changeid <= lastSequenceNumber + Cardinality(Numbered(D))
                      /\ IF c.public THEN numbered(c).changeid > lastSequenceNumber
                                     ELSE numbered(c).changeid = 0
  BY <1>2, <1>3 DEF Change
<1> HIDE DEF numbered, N
<1>5. \A c, d \in D[e] : c.key = d.key => c = d
  BY DEF Fit
<1>6. \A c, d \in N : c.key = d.key => c = d
  BY <1>1, <1>4, <1>5
<1>7. \A k \in Keys : source[k] # table[k] => \E c \in N : c.key = k
  BY <1>1, <1>4 DEF Fit
<1>8. N \in SUBSET Change
  BY <1>1, <1>4
<1>9. Fit(N, txid, source, table)
  BY <1>1, <1>4, <1>6, <1>7 DEF Fit
<1> QED BY <1>1, <1>4, <1>8, <1>9 DEF N

-----------------------------------------------------------------------------
\* Snapshots

\* The newest change is the one of the last transaction.
LEMMA NewestChange ==
  ASSUME NEW cs \in SUBSET Change, NEW c \in cs, \A d \in cs : d = c \/ d.txid < c.txid
  PROVE  Newest(cs) = c
<1>1. \A d \in cs : c.txid > d.txid \/ (c.txid = d.txid /\ c.changeid >= d.changeid)
  BY ServerAssumption DEF Change
<1>2. \A b \in cs : (\A d \in cs : b.txid > d.txid \/ (b.txid = d.txid /\ b.changeid >= d.changeid))
        => b = c
  BY ServerAssumption DEF Change
<1> QED BY <1>1, <1>2 DEF Newest

\* A snapshot of the old changes and those of one more transaction shows the
\* table that the transaction leads to.
LEMMA SnapshotAfterTransaction ==
  ASSUME NEW cs \in SUBSET Change, NEW N \in SUBSET Change, NEW txid \in 1..MaxTxid,
         NEW source \in Tables, NEW table \in Tables,
         \A c \in cs : c.txid < txid,
         SnapshotOf(cs) = Published(table),
         Fit(N, txid, source, table)
  PROVE  SnapshotOf(cs \cup N) = Published(source)
<1> SUFFICES ASSUME NEW k \in Keys
             PROVE  SnapshotOf(cs \cup N)[k] = Published(source)[k]
  BY DEF SnapshotOf, Published
<1> DEFINE old == {c \in cs : c.key = k}
           mine == {c \in cs \cup N : c.key = k}
<1>1. SnapshotOf(cs \cup N)[k] = IF mine = {} THEN NoRow ELSE PublicRow(Newest(mine))
  BY DEF SnapshotOf
<1>2. CASE source[k] # table[k]
  <2>1. PICK c \in N : c.key = k
    BY <1>2 DEF Fit
  <2>2. c.txid = txid /\ \A d \in N : d.key = k => d = c
    BY <2>1 DEF Fit
  <2>3. c \in mine /\ mine \in SUBSET Change /\ \A d \in mine : d = c \/ d.txid < c.txid
    BY <2>1, <2>2
  <2>4. Newest(mine) = c
    <3> HIDE DEF mine
    <3> QED BY <2>3, NewestChange
  <2>5. /\ c.operation = "delete" <=> source[k] = NoRow
        /\ source[k] # NoRow => c.row = source[k]
    BY <1>2, <2>1 DEF Fit
  <2> QED BY <1>1, <2>3, <2>4, <2>5 DEF PublicRow, Published
<1>3. CASE source[k] = table[k]
  <2>1. mine = old
    BY <1>3 DEF Fit
  <2>2. SnapshotOf(cs)[k] = IF old = {} THEN NoRow ELSE PublicRow(Newest(old))
    BY DEF SnapshotOf
  <2> QED BY <1>1, <1>3, <2>1, <2>2 DEF Published
<1> QED BY <1>2, <1>3

-----------------------------------------------------------------------------
\* Events

\* No events, no change.
LEMMA ReplayNothing ==
  ASSUME NEW cs
  PROVE  Replay(SnapshotOf(cs), {}) = SnapshotOf(cs)
BY DEF Replay, SnapshotOf

\* The public changes of one more transaction, with larger numbers, bring a
\* copy of the table to what the transaction leads to.
LEMMA ReplayTransaction ==
  ASSUME NEW cs \in SUBSET Change, NEW N \in SUBSET Change, NEW last \in Nat,
         NEW txid, NEW source \in Tables, NEW table \in Tables, NEW snapshot,
         \A c \in cs : c.changeid <= last,
         \A c \in N : c.public => c.changeid > last,
         Fit(N, txid, source, table),
         Unpublished(N, table),
         Replay(snapshot, cs) = Published(table)
  PROVE  Replay(snapshot, cs \cup {c \in N : c.public}) = Published(source)
<1> DEFINE events == cs \cup {c \in N : c.public}
<1> SUFFICES ASSUME NEW k \in Keys
             PROVE  Replay(snapshot, events)[k] = Published(source)[k]
  BY DEF Replay, Published
<1> DEFINE last_of(mine) == CHOOSE c \in mine : \A d \in mine : c.changeid >= d.changeid
           old == {c \in cs : c.key = k}
           mine == {c \in events : c.key = k}
<1>1. Replay(snapshot, events)[k] = IF mine = {} THEN snapshot[k] ELSE PublicRow(last_of(mine))
  BY DEF Replay
<1>2. Published(table)[k] = IF old = {} THEN snapshot[k] ELSE PublicRow(last_of(old))
  BY DEF Replay
<1>3. CASE \E c \in N : c.key = k /\ c.public
  <2>1. PICK c \in N : c.key = k /\ c.public
    BY <1>3
  <2>2. \A d \in N : d.key = k => d = c
    BY <2>1 DEF Fit
  <2>3. /\ source[k] # table[k]
        /\ c.operation = "delete" <=> source[k] = NoRow
        /\ source[k] # NoRow => c.row = source[k]
    BY <2>1 DEF Fit
  <2>4. c.changeid \in Nat /\ c.changeid > last /\ \A d \in cs : d.changeid \in Nat
    BY <2>1 DEF Change
  <2>5. c \in mine /\ \A d \in mine : d = c \/ c.changeid > d.changeid
    <3>1. \A d \in cs : c.changeid > d.changeid
      BY <2>4
    <3> QED BY <2>1, <2>2, <3>1
  <2>6. \A d \in mine : d.changeid \in Nat
    BY DEF Change
  <2>7. last_of(mine) = c
    <3> HIDE DEF mine
    <3>1. \A d \in mine : c.changeid >= d.changeid
      BY <2>4, <2>5, <2>6
    <3>2. \A b \in mine : (\A d \in mine : b.changeid >= d.changeid) => b = c
      BY <2>4, <2>5, <2>6
    <3> QED BY <2>5, <3>1, <3>2
  <2> QED BY <1>1, <2>3, <2>5, <2>7 DEF PublicRow, Published
<1>4. CASE ~ \E c \in N : c.key = k /\ c.public
  <2>1. mine = old
    BY <1>4
  <2>2. Published(source)[k] = Published(table)[k]
    <3>1. CASE source[k] = table[k]
      BY <3>1 DEF Published
    <3>2. CASE source[k] # table[k]
      <4>1. PICK c \in N : c.key = k
        BY <3>2 DEF Fit
      <4>2. c.operation = "update" /\ c.row.public = table[k].public
        BY <1>4, <4>1 DEF Unpublished
      <4>3. source[k] # NoRow /\ table[k] # NoRow /\ c.row = source[k]
        BY <4>1, <4>2 DEF Fit
      <4> QED BY <4>2, <4>3 DEF Published
    <3> QED BY <3>1, <3>2
  <2> QED BY <1>1, <1>2, <2>1, <2>2
<1> QED BY <1>3, <1>4

-----------------------------------------------------------------------------
\* The invariant

InThePast ==
  /\ \A e \in Entities : \A c \in changes[e] : c.txid <= lastTxid
  /\ \A h \in history : h.txid <= lastTxid

\* The last sequence number is the largest, and no change has a larger one.
NumbersUsed ==
  /\ lastSequenceNumber \in Nat
  /\ \A h \in history : h.sequence_number <= lastSequenceNumber
  /\ \A e \in Entities : \A c \in changes[e] : c.changeid <= lastSequenceNumber

\* The inductive invariant.
IInv ==
  /\ ServerTypeOK
  /\ InThePast
  /\ NumbersUsed
  /\ SnapshotIsCurrent
  /\ EventsLeadToSnapshot

Differences(source) ==
  [e \in Entities |->
     setPublic(e, computeDifferences(nextTxid, source[e], tables[e]), tables[e])]

\* What the importers hand over to the numbering.
LEMMA ImportComputes ==
  ASSUME ServerTypeOK, lastTxid < MaxTxid, NEW source \in Sources
  PROVE  /\ Computed(Differences(source))
         /\ \A e \in Entities : /\ Fit(Differences(source)[e], nextTxid, source[e], tables[e])
                               /\ Unpublished(Differences(source)[e], tables[e])
<1> DEFINE raw(e) == computeDifferences(nextTxid, source[e], tables[e])
<1>1. nextTxid \in 1..MaxTxid
  BY ServerAssumption DEF ServerTypeOK, nextTxid
<1>2. ASSUME NEW e \in Entities
      PROVE  raw(e) \in SUBSET Change /\ Fit(raw(e), nextTxid, source[e], tables[e])
  <2>1. source[e] \in Tables /\ tables[e] \in Tables
    BY DEF Sources, ServerTypeOK
  <2>2. \A k \in Present(source[e]) : k \in Keys /\ source[e][k] \in Rows
    BY <2>1 DEF Present, Tables
  <2>3. \A k \in Present(tables[e]) : k \in Keys /\ tables[e][k] \in Rows
    BY <2>1 DEF Present, Tables
  <2>4. \A operation \in Operations, k \in Keys, row \in Rows :
          NewChange(nextTxid, operation, k, row) \in Change
    BY <1>1 DEF Change, NewChange
  <2>5. computeInserts(nextTxid, source[e], tables[e]) \subseteq Change
    BY <2>2, <2>4 DEF computeInserts, Operations
  <2>6. computeUpdates(nextTxid, source[e], tables[e]) \subseteq Change
    BY <2>2, <2>4 DEF computeUpdates, Operations
  <2>7. computeDeletes(nextTxid, source[e], tables[e]) \subseteq Change
    BY <2>3, <2>4 DEF computeDeletes, Operations
  <2>8. raw(e) \in SUBSET Change
    BY <2>5, <2>6, <2>7 DEF computeDifferences
  <2> QED BY <2>8, DifferencesFit
<1>3. \A e \in Entities : Differences(source)[e] = setPublic(e, raw(e), tables[e])
  BY DEF Differences
<1> HIDE DEF raw
<1>4. ASSUME NEW e \in Entities
      PROVE  /\ Differences(source)[e] \in SUBSET Change
             /\ Fit(Differences(source)[e], nextTxid, source[e], tables[e])
             /\ Unpublished(Differences(source)[e], tables[e])
  BY <1>2, <1>3, SetPublicFits
<1>5. \A e \in Entities : IsFiniteSet(Differences(source)[e])
  BY <1>4, DifferencesFinite, ServerAssumption
<1>6. Differences(source) \in [Entities -> SUBSET Change]
  BY <1>4 DEF Differences
<1> QED BY <1>4, <1>5, <1>6 DEF Computed

HistoryRow == [sequence_number : Nat \ {0}, entity : Entities,
               operation : Operations, txid : 1..MaxTxid]

\* The rows of transaction_history.
LEMMA HistoryType ==
  ASSUME NEW N, Computed(N), NEW bound \in Nat,
         \A e \in Entities : \A c \in N[e] : c.changeid <= bound
  PROVE  /\ HistoryOf(N) \subseteq HistoryRow
         /\ \A h \in HistoryOf(N) : h.sequence_number <= bound
<1> SUFFICES ASSUME NEW h \in HistoryOf(N)
             PROVE  h \in HistoryRow /\ h.sequence_number <= bound
  OBVIOUS
<1>1. PICK e \in Entities : \E c \in {d \in N[e] : d.changeid # 0} :
        h = [sequence_number |-> c.changeid, entity |-> e,
             operation |-> c.operation, txid |-> c.txid]
  BY DEF HistoryOf
<1>2. PICK c \in N[e] :
        /\ c.changeid # 0
        /\ h = [sequence_number |-> c.changeid, entity |-> e,
                operation |-> c.operation, txid |-> c.txid]
  BY <1>1
<1>3. c \in Change
  BY DEF Computed
<1> QED BY <1>2, <1>3 DEF Change, HistoryRow

\* max(sequence_number) of a bounded set.
LEMMA LargestNumber ==
  ASSUME NEW rows, rows \subseteq HistoryRow, rows # {}, NEW bound \in Nat,
         \A h \in rows : h.sequence_number <= bound
  PROVE  /\ largestNumber(rows) \in Nat
         /\ \E h \in rows : h.sequence_number = largestNumber(rows)
         /\ \A h \in rows : h.sequence_number <= largestNumber(rows)
<1> DEFINE numbers == numbersOf(rows)
<1>1. /\ numbers \subseteq Nat /\ numbers # {} /\ \A n \in numbers : n <= bound
      /\ \A h \in rows : h.sequence_number \in numbers
      /\ \A n \in numbers : \E h \in rows : h.sequence_number = n
  BY DEF HistoryRow, numbersOf
<1>2. largestNumber(rows) = CHOOSE n \in numbers : \A m \in numbers : n >= m
  BY DEF largestNumber
<1> HIDE DEF numbers
<1>3. \E n \in numbers : \A m \in numbers : n >= m
  BY <1>1, LargestExists
<1>4. largestNumber(rows) \in numbers /\ \A m \in numbers : largestNumber(rows) >= m
  BY <1>2, <1>3
<1>5. ASSUME NEW h \in rows PROVE h.sequence_number <= largestNumber(rows)
  <2>1. h.sequence_number \in Nat /\ largestNumber(rows) \in Nat
    BY <1>1, <1>4
  <2> QED BY <1>1, <1>4, <2>1
<1> QED BY <1>1, <1>4, <1>5

\* The row of transactions is made of numbers, also for the empty set.
LEMMA IntervalType ==
  ASSUME NEW rows, rows \subseteq HistoryRow, NEW bound \in Nat,
         \A h \in rows : h.sequence_number <= bound
  PROVE  Interval(rows) \in [fra : Nat, til : Nat]
<1>1. CASE rows = {}
  BY <1>1 DEF Interval
<1>2. CASE rows # {}
  <2> DEFINE numbers == numbersOf(rows)
  <2>1. numbers \subseteq Nat /\ numbers # {}
    BY <1>2 DEF HistoryRow, numbersOf
  <2>2. leastNumber(rows) = CHOOSE n \in numbers : \A m \in numbers : n <= m
    BY DEF leastNumber
  <2> HIDE DEF numbers
  <2>3. leastNumber(rows) \in Nat
    BY <2>1, <2>2, LeastElement
  <2> QED BY <1>2, <2>3, LargestNumber DEF Interval
<1> QED BY <1>1, <1>2

\* What an import transaction adds to the change tables and to the history.
Written(N, source) ==
  /\ Computed(N)
  /\ nextTxid \in 1..MaxTxid
  /\ lastTxid' = nextTxid
  /\ UNCHANGED timed
  /\ tables' = source
  /\ changes' \in [Entities -> SUBSET Change]
  /\ changed' \in [Entities -> [Places -> 0..MaxTxid]]
  /\ \A e \in Entities :
       /\ changes'[e] = changes[e] \cup N[e]
       /\ Fit(N[e], nextTxid, source[e], tables[e])
       /\ Unpublished(N[e], tables[e])
       /\ \A c \in N[e] : IF c.public THEN c.changeid > lastSequenceNumber ELSE c.changeid = 0
  /\ HistoryOf(N) \subseteq HistoryRow
  /\ \A h \in HistoryOf(N) : h.txid = nextTxid
  /\ \E bound \in Nat : /\ lastSequenceNumber <= bound
                         /\ \A h \in HistoryOf(N) : h.sequence_number <= bound
  /\ history' = history \cup HistoryOf(N)
  /\ transactions' \in Seq([fra : Nat, til : Nat])

\* The hook of ændret writes times of transactions.
LEMMA SetChangedType ==
  ASSUME NEW times \in [Places -> 0..MaxTxid], NEW txid \in 1..MaxTxid, NEW rows
  PROVE  setChanged(times, txid, rows) \in [Places -> 0..MaxTxid]
<1>1. txid \in 0..MaxTxid
  BY ServerAssumption
<1> QED BY <1>1 DEF setChanged

LEMMA ImportWrites ==
  ASSUME ServerTypeOK, lastSequenceNumber \in Nat, NEW source \in Sources, NEW ranking \in Rankings,
         NEW compared \in SUBSET timed, Import(source, ranking, compared)
  PROVE  Written(assignSequenceNumbers(Differences(source), ranking), source)
<1> DEFINE D == Differences(source)
           N == assignSequenceNumbers(D, ranking)
           bound == lastSequenceNumber + Cardinality(Numbered(D))
<1>1. /\ lastTxid < MaxTxid
      /\ tables' = [e \in Entities |-> applyChanges(tables[e], D[e])]
      /\ changes' = [e \in Entities |-> changes[e] \cup N[e]]
      /\ history' = history \cup HistoryOf(N)
      /\ transactions' = Append(transactions, Interval(HistoryOf(N)))
  BY DEF Import, Differences
<1>2. /\ Computed(D)
      /\ \A e \in Entities : /\ Fit(D[e], nextTxid, source[e], tables[e])
                             /\ Unpublished(D[e], tables[e])
  BY <1>1, ImportComputes
<1>3. bound \in Nat /\ lastSequenceNumber <= bound
  <2> HIDE DEF D
  <2>1. Cardinality(Numbered(D)) \in Nat
    BY <1>2, NumberedFinite, FS_CardinalityType
  <2> QED BY <2>1
<1> HIDE DEF D
<1>4. ASSUME NEW e \in Entities
      PROVE  /\ N[e] \in SUBSET Change
             /\ Fit(N[e], nextTxid, source[e], tables[e])
             /\ Unpublished(N[e], tables[e])
             /\ \A c \in N[e] : /\ c.changeid <= bound
                               /\ IF c.public THEN c.changeid > lastSequenceNumber
                                  ELSE c.changeid = 0
  <2>1. /\ N[e] \in SUBSET Change
        /\ Fit(N[e], nextTxid, source[e], tables[e])
        /\ \A c \in N[e] :
             /\ c.changeid <= bound
             /\ IF c.public THEN c.changeid > lastSequenceNumber ELSE c.changeid = 0
             /\ \E d \in D[e] : /\ d.public = c.public /\ d.key = c.key
                                /\ d.operation = c.operation /\ d.row = c.row
    BY <1>2, NumbersFit
  <2>2. Unpublished(N[e], tables[e])
    BY <1>2, <2>1 DEF Unpublished
  <2> QED BY <2>1, <2>2
<1>5. Computed(N)
  <2>1. N \in [Entities -> SUBSET Change]
    BY <1>4 DEF assignSequenceNumbers
  <2> QED BY <1>4, <2>1, DifferencesFinite, ServerAssumption DEF Computed
<1> HIDE DEF N, bound
<1>6. /\ HistoryOf(N) \subseteq HistoryRow
      /\ \A h \in HistoryOf(N) : h.sequence_number <= bound
  BY <1>3, <1>4, <1>5, HistoryType
<1>7. \A h \in HistoryOf(N) : h.txid = nextTxid
  BY <1>4 DEF HistoryOf, Fit
<1>8. Interval(HistoryOf(N)) \in [fra : Nat, til : Nat]
  BY <1>3, <1>6, IntervalType
<1>9. /\ transactions' \in Seq([fra : Nat, til : Nat])
      /\ lastTxid' = nextTxid
      /\ nextTxid \in 1..MaxTxid
  BY <1>1, <1>8, ServerAssumption DEF ServerTypeOK, lastTxid, nextTxid
<1>10. tables' = source
  <2>1. \A e \in Entities : source[e] \in Tables /\ tables[e] \in Tables
    BY DEF Sources, ServerTypeOK
  <2>2. \A e \in Entities : applyChanges(tables[e], D[e]) = source[e]
    BY <1>2, <2>1, ChangesLeadToSource DEF Tables
  <2> QED BY <1>1, <2>2 DEF Sources
<1>11. changes' \in [Entities -> SUBSET Change]
  BY <1>1, <1>5 DEF ServerTypeOK, Computed
<1>12. \A e \in Entities : changes'[e] = changes[e] \cup N[e]
  BY <1>1
<1>13. changed' \in [Entities -> [Places -> 0..MaxTxid]]
  <2> DEFINE times(e) == IF e \in compared
                         THEN setChanged(changed[e], nextTxid, changes[e] \cup D[e])
                         ELSE changed[e]
  <2>1. changed' = [e \in Entities |-> times(e)]
    BY DEF Import, Differences, D
  <2>2. \A e \in Entities : times(e) \in [Places -> 0..MaxTxid]
    BY <1>9, SetChangedType DEF ServerTypeOK
  <2> HIDE DEF times
  <2> QED BY <2>1, <2>2
<1>14. UNCHANGED timed
  BY DEF Import
<1>15. Written(N, source)
  BY <1>1, <1>3, <1>4, <1>5, <1>6, <1>7, <1>9, <1>10, <1>11, <1>12, <1>13, <1>14 DEF Written
<1> QED BY <1>15 DEF N, D

LEMMA ServerInitInv == ServerInit => IInv
<1> SUFFICES ASSUME ServerInit PROVE IInv
  OBVIOUS
<1> DEFINE empty == [k \in Keys |-> NoRow]
<1>1. \A e \in Entities : tables[e] \in Tables
  BY DEF ServerInit, Sources
<1>2. lastTxid = 1 /\ 1 \in 1..MaxTxid
  BY ServerAssumption DEF ServerInit, lastTxid
<1>3. ASSUME NEW e \in Entities
      PROVE  /\ changes[e] \in SUBSET Change
             /\ Fit(changes[e], 1, tables[e], empty)
  <2>1. changes[e] = {NewChange(1, "insert", k, tables[e][k]) : k \in Present(tables[e])}
    BY <1>3 DEF ServerInit, initializeFromScratch
  <2>2. \A k \in Present(tables[e]) : k \in Keys /\ tables[e][k] \in Rows
    BY <1>1 DEF Present, Tables
  <2>3. \A k \in Present(tables[e]) : NewChange(1, "insert", k, tables[e][k]) \in Change
    BY <1>2, <2>2 DEF Change, NewChange, Operations
  <2>4. changes[e] = computeDifferences(1, tables[e], empty)
    BY <2>1
       DEF computeDifferences, computeInserts, computeUpdates, computeDeletes, Present
  <2> QED BY <2>1, <2>3, <2>4, DifferencesFit
<1>4. ServerTypeOK
  <2>1. changes \in [Entities -> SUBSET Change]
    BY <1>3 DEF ServerInit
  <2>2. tables \in [Entities -> Tables]
    BY DEF ServerInit, Sources
  <2>3. transactions \in Seq([fra : Nat, til : Nat])
    BY DEF ServerInit
  <2>4. history = {}
    BY DEF ServerInit
  <2>5. changed \in [Entities -> [Places -> 0..MaxTxid]]
    <3> DEFINE never == [p \in Places |-> 0]
    <3>1. never \in [Places -> 0..MaxTxid]
      BY ServerAssumption
    <3>2. \A e \in Entities : setChanged(never, 1, changes[e]) \in [Places -> 0..MaxTxid]
      BY <1>2, <3>1, SetChangedType
    <3>3. changed = [e \in Entities |-> IF e \in timed THEN setChanged(never, 1, changes[e])
                                        ELSE never]
      BY DEF ServerInit
    <3> QED BY <3>1, <3>2, <3>3
  <2>6. timed \in TimedTables
    BY DEF ServerInit
  <2> QED BY <1>2, <2>1, <2>2, <2>3, <2>4, <2>5, <2>6 DEF ServerTypeOK
<1>5. InThePast /\ NumbersUsed
  <2>1. \A e \in Entities : \A c \in changes[e] : c.txid = 1
    BY <1>3 DEF Fit
  <2>2. \A e \in Entities : \A c \in changes[e] : c.changeid = 0
    BY DEF ServerInit, initializeFromScratch, NewChange
  <2>3. history = {} /\ lastSequenceNumber = 0
    BY DEF ServerInit, lastSequenceNumber
  <2> QED BY <1>2, <2>1, <2>2, <2>3 DEF InThePast, NumbersUsed
<1>6. SnapshotIsCurrent
  <2> SUFFICES ASSUME NEW e \in Entities
               PROVE  udtraek(e, lastTxid) = Published(tables[e])
    BY DEF SnapshotIsCurrent
  <2>1. SnapshotOf({}) = Published(empty)
    BY DEF SnapshotOf, Published
  <2>2. SnapshotOf({} \cup changes[e]) = Published(tables[e])
    <3>1. empty \in Tables
      BY DEF Tables
    <3> HIDE DEF empty
    <3> QED BY <1>1, <1>2, <1>3, <2>1, <3>1, SnapshotAfterTransaction
  <2>3. {c \in changes[e] : c.txid <= lastTxid} = {} \cup changes[e]
    BY <1>5 DEF InThePast
  <2> QED BY <2>2, <2>3 DEF udtraek
<1>7. EventsLeadToSnapshot
  <2> SUFFICES ASSUME NEW e \in Entities
               PROVE  Replay(udtraek(e, 1), haendelser(e, 1 + 1, 1)) = udtraek(e, 1)
    BY <1>2 DEF EventsLeadToSnapshot
  <2>1. haendelser(e, 1 + 1, 1) = {}
    BY <1>3 DEF haendelser, Fit
  <2> QED BY <2>1, ReplayNothing DEF udtraek
<1> QED BY <1>4, <1>5, <1>6, <1>7 DEF IInv

\* An import transaction adds changes of its own number only, so it disturbs
\* neither a snapshot of the past nor the events between two past transactions
\* (for ændret, which udtraek leaves out, see ImportMovesTimes).
LEMMA ImportKeepsPast ==
  ASSUME IInv, NEW N, NEW source \in Sources, Written(N, source),
         NEW e \in Entities, NEW t \in 1..lastTxid, NEW s \in Nat
  PROVE  /\ udtraek(e, t)' = udtraek(e, t)
         /\ haendelser(e, s, t)' = haendelser(e, s, t)
<1>1. ~ (nextTxid <= t)
  BY DEF IInv, ServerTypeOK, nextTxid
<1>2. \A c \in N[e] : ~ (c.txid <= t)
  BY <1>1 DEF Written, Fit
<1>3. changes'[e] = changes[e] \cup N[e] /\ history' = history \cup HistoryOf(N)
  BY DEF Written
<1>4. {c \in changes'[e] : c.txid <= t} = {c \in changes[e] : c.txid <= t}
  BY <1>2, <1>3
<1>5. udtraek(e, t)' = udtraek(e, t)
  BY <1>4 DEF udtraek
<1>6. ASSUME NEW c \in changes[e], c.txid <= t
      PROVE  (\E h \in history' : h.sequence_number = c.changeid /\ h.entity = e /\ h.txid = c.txid)
         <=> (\E h \in history : h.sequence_number = c.changeid /\ h.entity = e /\ h.txid = c.txid)
  <2>1. \A h \in HistoryOf(N) : h.txid # c.txid
    BY <1>1, <1>6 DEF Written
  <2> QED BY <1>3, <2>1
<1>7. haendelser(e, s, t)' = haendelser(e, s, t)
  BY <1>2, <1>3, <1>6 DEF haendelser
<1> QED BY <1>5, <1>7

\* The events up to a transaction are those before it and what it publishes.
LEMMA ImportPublishes ==
  ASSUME IInv, NEW N, NEW source \in Sources, Written(N, source),
         NEW e \in Entities, NEW s \in 1..lastTxid
  PROVE  haendelser(e, s + 1, lastTxid)'
           = haendelser(e, s + 1, lastTxid) \cup {c \in N[e] : c.public}
<1>1. changes'[e] = changes[e] \cup N[e] /\ history' = history \cup HistoryOf(N)
  BY DEF Written
<1>2. lastTxid \in Nat /\ nextTxid = lastTxid + 1 /\ lastTxid' = nextTxid
  BY DEF IInv, ServerTypeOK, nextTxid, Written
<1>3. \A c \in changes[e] : c.txid \in Nat /\ c.txid <= lastTxid
  BY DEF IInv, ServerTypeOK, InThePast, Change
<1>4. \A c \in N[e] : c.txid = nextTxid
  BY DEF Written, Fit
<1>5. ASSUME NEW c \in N[e], c.public
      PROVE  \E h \in history' : h.sequence_number = c.changeid /\ h.entity = e /\ h.txid = c.txid
  <2>1. c.changeid # 0
    BY <1>5 DEF Written, IInv, NumbersUsed
  <2> DEFINE h == [sequence_number |-> c.changeid, entity |-> e,
                   operation |-> c.operation, txid |-> c.txid]
  <2>2. h \in HistoryOf(N)
    BY <2>1 DEF HistoryOf
  <2> QED BY <1>1, <2>2
<1>6. ASSUME NEW c \in changes[e]
      PROVE  (\E h \in history' : h.sequence_number = c.changeid /\ h.entity = e /\ h.txid = c.txid)
         <=> (\E h \in history : h.sequence_number = c.changeid /\ h.entity = e /\ h.txid = c.txid)
  <2>1. \A h \in HistoryOf(N) : h.txid # c.txid
    BY <1>2, <1>3 DEF Written
  <2> QED BY <1>1, <2>1
<1>7. \A c \in changes[e] : s + 1 <= c.txid /\ c.txid <= nextTxid
                              <=> s + 1 <= c.txid /\ c.txid <= lastTxid
  BY <1>2, <1>3
<1>8. \A c \in N[e] : s + 1 <= c.txid /\ c.txid <= nextTxid
  BY <1>2, <1>4
<1>9. haendelser(e, s + 1, lastTxid)' =
        {c \in changes'[e] : /\ c.public
                             /\ s + 1 <= c.txid /\ c.txid <= nextTxid
                             /\ \E h \in history' : /\ h.sequence_number = c.changeid
                                                    /\ h.entity = e /\ h.txid = c.txid}
  BY <1>2 DEF haendelser
<1> QED BY <1>1, <1>5, <1>6, <1>7, <1>8, <1>9 DEF haendelser

LEMMA ImportInv ==
  ASSUME IInv, NEW source \in Sources, NEW ranking \in Rankings,
         NEW compared \in SUBSET timed, Import(source, ranking, compared)
  PROVE  IInv'
<1>1. ServerTypeOK /\ InThePast /\ NumbersUsed /\ SnapshotIsCurrent /\ EventsLeadToSnapshot
  BY DEF IInv
<1>2. PICK N : Written(N, source)
  BY <1>1, ImportWrites DEF NumbersUsed
<1>3. lastTxid \in Nat /\ nextTxid = lastTxid + 1
  BY <1>1 DEF ServerTypeOK, nextTxid
<1>4. ServerTypeOK'
  <2>1. source \in [Entities -> Tables]
    BY DEF Sources
  <2>2. history' \subseteq HistoryRow
    BY <1>1, <1>2 DEF ServerTypeOK, HistoryRow, Written
  <2>3. timed' \in TimedTables
    BY <1>1, <1>2 DEF ServerTypeOK, Written
  <2>4. tables' = source /\ lastTxid' \in 1..MaxTxid
    BY <1>2 DEF Written
  <2>5. changes' \in [Entities -> SUBSET Change] /\ changed' \in [Entities -> [Places -> 0..MaxTxid]]
    BY <1>2 DEF Written
  <2>6. transactions' \in Seq([fra : Nat, til : Nat])
    BY <1>2 DEF Written
  <2> QED BY <2>1, <2>2, <2>3, <2>4, <2>5, <2>6 DEF ServerTypeOK, HistoryRow
<1>5. NumbersUsed'
  <2>1. PICK bound \in Nat : /\ lastSequenceNumber <= bound
                             /\ \A h \in HistoryOf(N) : h.sequence_number <= bound
    BY <1>2 DEF Written
  <2>2. /\ history \subseteq HistoryRow /\ HistoryOf(N) \subseteq HistoryRow
        /\ history' = history \cup HistoryOf(N)
    BY <1>1, <1>2 DEF ServerTypeOK, HistoryRow, Written
  <2>3. \A h \in history' : h.sequence_number <= bound
    BY <1>1, <2>1, <2>2 DEF NumbersUsed, HistoryRow
  <2>4. lastSequenceNumber' = IF history' = {} THEN 0 ELSE largestNumber(history')
    BY DEF lastSequenceNumber
  <2>5. /\ lastSequenceNumber' \in Nat
        /\ \A h \in history' : h.sequence_number <= lastSequenceNumber'
    BY <2>2, <2>3, <2>4, LargestNumber
  <2>6. lastSequenceNumber <= lastSequenceNumber'
    <3>1. CASE history = {}
      BY <2>5, <3>1 DEF lastSequenceNumber
    <3>2. CASE history # {}
      <4>1. \A h \in history : h.sequence_number <= lastSequenceNumber /\ lastSequenceNumber \in Nat
        BY <1>1 DEF NumbersUsed
      <4>2. \E h \in history : h.sequence_number = lastSequenceNumber
        BY <2>2, <3>2, <4>1, LargestNumber DEF lastSequenceNumber
      <4> QED BY <2>2, <2>5, <4>2
    <3> QED BY <3>1, <3>2
  <2>7. ASSUME NEW e \in Entities, NEW c \in changes'[e] PROVE c.changeid <= lastSequenceNumber'
    <3>1. CASE c \in changes[e]
      <4>1. c.changeid <= lastSequenceNumber /\ c.changeid \in Nat /\ lastSequenceNumber \in Nat
        BY <1>1, <3>1 DEF NumbersUsed, ServerTypeOK, Change
      <4> QED BY <2>5, <2>6, <4>1
    <3>2. CASE c \in N[e] /\ c.changeid = 0
      BY <2>5, <3>2
    <3>3. CASE c \in N[e] /\ c.changeid # 0
      <4>1. [sequence_number |-> c.changeid, entity |-> e,
             operation |-> c.operation, txid |-> c.txid] \in HistoryOf(N)
        BY <3>3 DEF HistoryOf
      <4> QED BY <2>2, <2>5, <4>1
    <3> QED BY <1>2, <2>7, <3>1, <3>2, <3>3 DEF Written
  <2> QED BY <2>5, <2>7 DEF NumbersUsed
<1>6. InThePast'
  <2>1. ASSUME NEW e \in Entities, NEW c \in changes'[e] PROVE c.txid <= lastTxid'
    <3>1. CASE c \in changes[e]
      <4>1. c.txid <= lastTxid /\ c.txid \in Nat
        BY <1>1, <3>1 DEF InThePast, ServerTypeOK, Change
      <4> QED BY <1>2, <1>3, <4>1 DEF Written
    <3>2. CASE c \in N[e]
      BY <1>2, <1>3, <3>2 DEF Fit, Written
    <3> QED BY <1>2, <2>1, <3>1, <3>2 DEF Written
  <2>2. ASSUME NEW h \in history' PROVE h.txid <= lastTxid'
    <3>1. CASE h \in history
      <4>1. h.txid <= lastTxid /\ h.txid \in Nat
        BY <1>1, <3>1 DEF InThePast, ServerTypeOK
      <4> QED BY <1>2, <1>3, <4>1 DEF Written
    <3>2. CASE h \in HistoryOf(N)
      BY <1>2, <1>3, <3>2 DEF Written
    <3> QED BY <1>2, <2>2, <3>1, <3>2 DEF Written
  <2> QED BY <2>1, <2>2 DEF InThePast
<1>7. SnapshotIsCurrent'
  <2> SUFFICES ASSUME NEW e \in Entities
               PROVE  udtraek(e, lastTxid)' = Published(source[e])
    BY <1>2 DEF SnapshotIsCurrent, Written
  <2>1. {c \in changes[e] : c.txid <= lastTxid} = changes[e]
    BY <1>1 DEF InThePast
  <2>2. SnapshotOf(changes[e]) = Published(tables[e])
    BY <1>1, <2>1 DEF SnapshotIsCurrent, udtraek
  <2>3. /\ changes[e] \in SUBSET Change /\ N[e] \in SUBSET Change
        /\ source[e] \in Tables /\ tables[e] \in Tables
    BY <1>1, <1>2 DEF ServerTypeOK, Computed, Sources, Written
  <2>4. \A c \in changes[e] : c.txid < nextTxid
    BY <1>1, <1>3, <2>3 DEF InThePast, Change
  <2>5. SnapshotOf(changes[e] \cup N[e]) = Published(source[e])
    <3>1. nextTxid \in 1..MaxTxid /\ Fit(N[e], nextTxid, source[e], tables[e])
      BY <1>2 DEF Written
    <3> QED BY <2>2, <2>3, <2>4, <3>1, SnapshotAfterTransaction
  <2>6. {c \in changes'[e] : c.txid <= lastTxid'} = changes[e] \cup N[e]
    BY <1>2, <1>6 DEF InThePast, Written
  <2>7. udtraek(e, lastTxid)' = SnapshotOf({c \in changes'[e] : c.txid <= lastTxid'})
    BY DEF udtraek, SnapshotOf, Newest, PublicRow
  <2> QED BY <2>5, <2>6, <2>7
<1>8. EventsLeadToSnapshot'
  <2> SUFFICES ASSUME NEW e \in Entities, NEW s \in 1..lastTxid', NEW t \in 1..lastTxid', s <= t
               PROVE  Replay(udtraek(e, s)', haendelser(e, s + 1, t)') = udtraek(e, t)'
    BY DEF EventsLeadToSnapshot, Replay, PublicRow
  <2>1. lastTxid' = nextTxid
    BY <1>2 DEF Written
  <2>2. \A r \in 1..lastTxid : udtraek(e, r)' = udtraek(e, r)
    <3>1. 0 \in Nat
      OBVIOUS
    <3> QED BY <1>2, <3>1, ImportKeepsPast
  <2>3. CASE t <= lastTxid
    <3>1. s \in 1..lastTxid /\ t \in 1..lastTxid /\ s + 1 \in Nat
      BY <1>3, <2>3
    <3>2. haendelser(e, s + 1, t)' = haendelser(e, s + 1, t)
      BY <1>2, <3>1, ImportKeepsPast
    <3> QED BY <1>1, <2>2, <3>1, <3>2 DEF EventsLeadToSnapshot
  <2>4. CASE t = nextTxid /\ s = nextTxid
    <3>1. \A c \in changes'[e] : c.txid \in Nat /\ c.txid <= nextTxid
      BY <1>4, <1>6, <2>1 DEF InThePast, ServerTypeOK, Change
    <3>2. haendelser(e, s + 1, t)' = {}
      BY <1>3, <2>4, <3>1 DEF haendelser
    <3>3. udtraek(e, s)' = SnapshotOf({c \in changes'[e] : c.txid <= s})
      BY DEF udtraek, SnapshotOf, Newest, PublicRow
    <3> QED BY <2>4, <3>2, <3>3, ReplayNothing
  <2>5. CASE t = nextTxid /\ s <= lastTxid
    <3>1. s \in 1..lastTxid /\ lastTxid \in 1..lastTxid /\ s <= lastTxid
      BY <1>3, <2>5
    <3> DEFINE cs == haendelser(e, s + 1, lastTxid)
               snapshot == udtraek(e, s)
    <3>2. Replay(snapshot, cs) = Published(tables[e])
      BY <1>1, <3>1 DEF EventsLeadToSnapshot, SnapshotIsCurrent
    <3>3. haendelser(e, s + 1, t)' = cs \cup {c \in N[e] : c.public}
      <4>1. haendelser(e, s + 1, t)' = haendelser(e, s + 1, lastTxid)'
        BY <2>1, <2>5 DEF haendelser
      <4> QED BY <1>2, <3>1, <4>1, ImportPublishes
    <3>4. udtraek(e, t)' = Published(source[e])
      <4>1. udtraek(e, t)' = udtraek(e, lastTxid)'
        BY <2>1, <2>5 DEF udtraek
      <4>2. udtraek(e, lastTxid)' = Published(source[e])
        BY <1>2, <1>7 DEF SnapshotIsCurrent, Written
      <4> QED BY <4>1, <4>2
    <3>5. /\ cs \in SUBSET Change
          /\ \A c \in cs : c.changeid <= lastSequenceNumber
      BY <1>1 DEF haendelser, ServerTypeOK, NumbersUsed
    <3>6. /\ N[e] \in SUBSET Change
          /\ source[e] \in Tables /\ tables[e] \in Tables
          /\ lastSequenceNumber \in Nat
      BY <1>1, <1>2 DEF ServerTypeOK, NumbersUsed, Computed, Sources, Written
    <3>7. /\ Fit(N[e], nextTxid, source[e], tables[e])
          /\ Unpublished(N[e], tables[e])
          /\ \A c \in N[e] : c.public => c.changeid > lastSequenceNumber
      BY <1>2 DEF Written
    <3> HIDE DEF cs, snapshot
    <3>8. Replay(snapshot, cs \cup {c \in N[e] : c.public}) = Published(source[e])
      BY <3>2, <3>5, <3>6, <3>7, ReplayTransaction
    <3>9. udtraek(e, s)' = snapshot
      BY <2>2, <3>1 DEF snapshot
    <3> QED BY <3>3, <3>4, <3>8, <3>9
  <2> QED BY <1>3, <2>1, <2>3, <2>4, <2>5
<1> QED BY <1>4, <1>5, <1>6, <1>7, <1>8 DEF IInv

LEMMA NextInv == IInv /\ [ServerNext]_serverVars => IInv'
<1> SUFFICES ASSUME IInv, [ServerNext]_serverVars PROVE IInv'
  OBVIOUS
<1>1. ASSUME NEW source \in Sources, NEW ranking \in Rankings,
             NEW compared \in SUBSET timed, Import(source, ranking, compared)
      PROVE  IInv'
  BY <1>1, ImportInv
<1>2. CASE UNCHANGED serverVars
  <2>1. /\ UNCHANGED <<timed, tables, changes, changed, history, transactions>>
        /\ lastTxid' = lastTxid
    BY <1>2 DEF serverVars, lastTxid
  <2>2. ServerTypeOK' /\ InThePast' /\ NumbersUsed'
    BY <2>1 DEF IInv, ServerTypeOK, InThePast, NumbersUsed, lastSequenceNumber
  <2>3. SnapshotIsCurrent'
    BY <2>1 DEF IInv, SnapshotIsCurrent, udtraek
  <2>4. EventsLeadToSnapshot'
    BY <2>1 DEF IInv, EventsLeadToSnapshot, udtraek, haendelser
  <2> QED BY <2>2, <2>3, <2>4 DEF IInv
<1> QED BY <1>1, <1>2 DEF ServerNext, ServerStops

\* The inductive invariant holds in every reachable state.
THEOREM InvHolds == ServerSpec => []IInv
<1> QED BY ServerInitInv, NextInv, PTL DEF ServerSpec

-----------------------------------------------------------------------------
\* What follows

\* The tables, the change tables, transaction_history and transactions keep
\* their types, whatever the importers read.
THEOREM TypeCorrect == ServerSpec => []ServerTypeOK
<1>1. IInv => ServerTypeOK
  BY DEF IInv
<1> QED BY <1>1, InvHolds, PTL

\* The snapshot at the last transaction is the public part of the tables: the
\* change tables lose nothing of what applyChanges does to the tables, in the
\* columns that no hook rewrites (all but ændret).
THEOREM SnapshotsAreCurrent == ServerSpec => []SnapshotIsCurrent
<1>1. IInv => SnapshotIsCurrent
  BY DEF IInv
<1> QED BY <1>1, InvHolds, PTL

\* Snapshots and events agree: a copy made at any transaction and brought up
\* to date with the events since shows the snapshot of the later one. This is
\* what lets a consumer of the API follow the tables without reading them again.
THEOREM EventsLeadOn == ServerSpec => []EventsLeadToSnapshot
<1>1. IInv => EventsLeadToSnapshot
  BY DEF IInv
<1> QED BY <1>1, InvHolds, PTL

-----------------------------------------------------------------------------
\* Sequence numbers have no gaps

\* Each call of assignSequenceNumbers has a place of its own.
LEMMA BatchesDiffer ==
  ASSUME NEW e \in Entities, NEW f \in Entities, NEW o \in Operations, NEW q \in Operations
  PROVE  /\ Batch(e, o) \in Int
         /\ Batch(e, o) = Batch(f, q) => e = f /\ o = q
<1>1. Cardinality(Entities) \in Nat
  BY FS_CardinalityType, ServerAssumption
<1>2. /\ Position[e] \in 1..Cardinality(Entities) /\ Position[f] \in 1..Cardinality(Entities)
      /\ Position[e] = Position[f] => e = f
  BY ServerAssumption
<1> QED BY <1>1, <1>2 DEF Batch, Operations

\* What is numbered by a transaction: the changes of any two objects can be
\* told apart, and so can their places in the numbering.
Numberable(D, ranking) ==
  /\ Computed(D)
  /\ \A e \in Entities : \A c, d \in D[e] : c.key = d.key => c = d
  /\ ranking \in Rankings
  /\ lastSequenceNumber \in Nat

\* Precedes is a total order of the changes of a transaction.
LEMMA TotalOrder ==
  ASSUME NEW D, NEW ranking, Numberable(D, ranking),
         NEW e \in Entities, NEW c \in D[e], NEW f \in Entities, NEW d \in D[f]
  PROVE  /\ Precedes(e, c, e, c, ranking)
         /\ Precedes(e, c, f, d, ranking) \/ Precedes(f, d, e, c, ranking)
         /\ Precedes(e, c, f, d, ranking) /\ Precedes(f, d, e, c, ranking) => e = f /\ c = d
         /\ \A g \in Entities : \A b \in D[g] :
              Precedes(g, b, e, c, ranking) /\ Precedes(e, c, f, d, ranking)
                => Precedes(g, b, f, d, ranking)
<1>1. \A g \in Entities : \A b \in D[g] : b.operation \in Operations /\ b.key \in Keys
  BY DEF Numberable, Computed, Change
<1>2. /\ \A k \in Keys : ranking[k] \in Nat
      /\ \A j, k \in Keys : ranking[j] = ranking[k] => j = k
  BY FS_CardinalityType, ServerAssumption DEF Numberable, Rankings
<1>3. \A g \in Entities, o \in Operations : Batch(g, o) \in Int
  BY BatchesDiffer
<1>4. Batch(e, c.operation) = Batch(f, d.operation) => e = f /\ c.operation = d.operation
  BY <1>1, BatchesDiffer
<1>5. e = f /\ c.key = d.key => c = d
  BY DEF Numberable
<1>6. Precedes(e, c, e, c, ranking)
  BY <1>1, <1>2 DEF Precedes
<1>7. Precedes(e, c, f, d, ranking) \/ Precedes(f, d, e, c, ranking)
  <2>1. ranking[c.key] <= ranking[d.key] \/ ranking[d.key] <= ranking[c.key]
    BY <1>1, <1>2
  <2>2. \/ Batch(e, c.operation) < Batch(f, d.operation)
        \/ Batch(f, d.operation) < Batch(e, c.operation)
        \/ Batch(e, c.operation) = Batch(f, d.operation)
    BY <1>1, <1>3
  <2> QED BY <1>4, <2>1, <2>2 DEF Precedes
<1>8. Precedes(e, c, f, d, ranking) /\ Precedes(f, d, e, c, ranking) => e = f /\ c = d
  <2> SUFFICES ASSUME Precedes(e, c, f, d, ranking), Precedes(f, d, e, c, ranking)
               PROVE  e = f /\ c = d
    OBVIOUS
  <2>1. e = f /\ ranking[c.key] <= ranking[d.key] /\ ranking[d.key] <= ranking[c.key]
    BY <1>1, <1>3 DEF Precedes
  <2> QED BY <1>1, <1>2, <1>5, <2>1
<1>9. ASSUME NEW g \in Entities, NEW b \in D[g],
             Precedes(g, b, e, c, ranking), Precedes(e, c, f, d, ranking)
      PROVE  Precedes(g, b, f, d, ranking)
  <2>1. /\ Batch(g, b.operation) \in Int /\ Batch(e, c.operation) \in Int
        /\ Batch(f, d.operation) \in Int
        /\ ranking[b.key] \in Nat /\ ranking[c.key] \in Nat /\ ranking[d.key] \in Nat
    BY <1>1, <1>2, <1>3
  <2> QED BY <1>9, <2>1 DEF Precedes
<1> QED BY <1>6, <1>7, <1>8, <1>9

\* More changes come up to a later one.
LEMMA LaterIsMore ==
  ASSUME NEW D, NEW ranking, Numberable(D, ranking),
         NEW e \in Entities, NEW c \in D[e], c.public,
         NEW f \in Entities, NEW d \in D[f], d.public,
         Precedes(e, c, f, d, ranking), ~ Precedes(f, d, e, c, ranking)
  PROVE  /\ sequenceNumber(D, e, c, ranking) \in Nat /\ sequenceNumber(D, f, d, ranking) \in Nat
         /\ sequenceNumber(D, e, c, ranking) < sequenceNumber(D, f, d, ranking)
<1> DEFINE U == {p \in Numbered(D) : Precedes(p[1], p[2], e, c, ranking)}
           V == {p \in Numbered(D) : Precedes(p[1], p[2], f, d, ranking)}
<1>1. \A p \in Numbered(D) : p[1] \in Entities /\ p[2] \in D[p[1]]
  BY DEF Numbered
<1>2. U \subseteq V
  BY <1>1, TotalOrder
<1>3. <<f, d>> \in V /\ <<f, d>> \notin U
  BY TotalOrder DEF Numbered
<1>4. IsFiniteSet(V)
  BY NumberedFinite, FS_Subset DEF Numberable
<1>5. sequenceNumber(D, e, c, ranking) = lastSequenceNumber + Cardinality(U)
  BY DEF sequenceNumber
<1>6. sequenceNumber(D, f, d, ranking) = lastSequenceNumber + Cardinality(V)
  BY DEF sequenceNumber
<1> HIDE DEF U, V
<1>7. Cardinality(U) < Cardinality(V) /\ Cardinality(U) \in Nat /\ Cardinality(V) \in Nat
  <2>1. Cardinality(U) <= Cardinality(V) /\ Cardinality(U) # Cardinality(V)
    BY <1>2, <1>3, <1>4, FS_Subset
  <2>2. Cardinality(U) \in Nat /\ Cardinality(V) \in Nat
    BY <1>2, <1>4, FS_Subset, FS_CardinalityType
  <2> QED BY <2>1, <2>2
<1> QED BY <1>5, <1>6, <1>7 DEF Numberable

LEMMA NumbersDiffer ==
  ASSUME NEW D, NEW ranking, Numberable(D, ranking),
         NEW e \in Entities, NEW c \in D[e], c.public,
         NEW f \in Entities, NEW d \in D[f], d.public,
         sequenceNumber(D, e, c, ranking) = sequenceNumber(D, f, d, ranking)
  PROVE  e = f /\ c = d
<1>1. /\ Precedes(e, c, f, d, ranking) \/ Precedes(f, d, e, c, ranking)
      /\ Precedes(e, c, f, d, ranking) /\ Precedes(f, d, e, c, ranking) => e = f /\ c = d
  BY TotalOrder
<1> QED BY <1>1, LaterIsMore

\* Every number up to the last of the transaction is given.
LEMMA NumbersAreGiven ==
  ASSUME NEW D, NEW ranking, Numberable(D, ranking),
         NEW n \in lastSequenceNumber + 1..lastSequenceNumber + Cardinality(Numbered(D))
  PROVE  \E e \in Entities : \E c \in D[e] :
           c.public /\ sequenceNumber(D, e, c, ranking) = n
<1> DEFINE M == Cardinality(Numbered(D))
           T == lastSequenceNumber + 1..lastSequenceNumber + M
           number == [p \in Numbered(D) |-> sequenceNumber(D, p[1], p[2], ranking)]
<1>1. /\ M \in Nat /\ lastSequenceNumber \in Nat
      /\ IsFiniteSet(Numbered(D))
  BY NumberedFinite, FS_CardinalityType DEF Numberable
<1>2. \A p \in Numbered(D) : p[1] \in Entities /\ p[2] \in D[p[1]] /\ p[2].public /\ p = <<p[1], p[2]>>
  BY DEF Numbered
<1>3. number \in Injection(Numbered(D), T)
  <2>1. ASSUME NEW p \in Numbered(D) PROVE number[p] \in T
    <3>1. /\ sequenceNumber(D, p[1], p[2], ranking) \in Nat
          /\ sequenceNumber(D, p[1], p[2], ranking) > lastSequenceNumber
          /\ sequenceNumber(D, p[1], p[2], ranking) <= lastSequenceNumber + M
      BY <1>2, NumberRange DEF Numberable
    <3> QED BY <1>1, <3>1
  <2>2. ASSUME NEW p \in Numbered(D), NEW q \in Numbered(D), number[p] = number[q]
        PROVE  p = q
    <3>1. sequenceNumber(D, p[1], p[2], ranking) = sequenceNumber(D, q[1], q[2], ranking)
      BY <2>2
    <3>2. p[1] = q[1] /\ p[2] = q[2]
      BY <1>2, <3>1, NumbersDiffer
    <3> QED BY <1>2, <3>2
  <2> QED BY <2>1, <2>2 DEF Injection, IsInjective
<1>4. IsFiniteSet(T) /\ Cardinality(T) = M
  <2> HIDE DEF M
  <2>1. lastSequenceNumber + 1 \in Int /\ lastSequenceNumber + M \in Int
    BY <1>1
  <2>2. /\ IsFiniteSet(T)
        /\ Cardinality(T) = IF lastSequenceNumber + 1 > lastSequenceNumber + M THEN 0
                            ELSE (lastSequenceNumber + M) - (lastSequenceNumber + 1) + 1
    BY <2>1, FS_Interval
  <2> HIDE DEF T
  <2> QED BY <1>1, <2>2
<1>5. number \in Surjection(Numbered(D), T)
  <2> HIDE DEF number, T
  <2> QED BY <1>3, <1>4, FS_Injection DEF M
<1>6. PICK p \in Numbered(D) : number[p] = n
  <2> HIDE DEF number
  <2> QED BY <1>5 DEF Surjection
<1> QED BY <1>2, <1>6

\* Rows of transaction_history whose numbers go from low + 1 to high, each
\* number once.
Gapless(rows, low, high) ==
  /\ numbersOf(rows) = low + 1..high
  /\ \A g, h \in rows : g.sequence_number = h.sequence_number => g = h

LEMMA EndsOfGapless ==
  ASSUME NEW rows, rows # {}, NEW low \in Nat, NEW high \in Nat, Gapless(rows, low, high)
  PROVE  leastNumber(rows) = low + 1 /\ largestNumber(rows) = high /\ low < high
<1>1. numbersOf(rows) # {} /\ numbersOf(rows) = low + 1..high
  BY DEF numbersOf, Gapless
<1>2. low < high
  BY <1>1
<1>3. /\ low + 1 \in low + 1..high /\ \A m \in low + 1..high : low + 1 <= m
      /\ \A n \in low + 1..high : (\A m \in low + 1..high : n <= m) => n = low + 1
  BY <1>2
<1>4. /\ high \in low + 1..high /\ \A m \in low + 1..high : high >= m
      /\ \A n \in low + 1..high : (\A m \in low + 1..high : n >= m) => n = high
  BY <1>2
<1>5. leastNumber(rows) = low + 1
  BY <1>1, <1>3 DEF leastNumber
<1>6. largestNumber(rows) = high
  BY <1>1, <1>4 DEF largestNumber
<1> QED BY <1>2, <1>5, <1>6

\* The row of transaction_history of a change.
RowOf(D, e, c, ranking) ==
  [sequence_number |-> sequenceNumber(D, e, c, ranking), entity |-> e,
   operation |-> c.operation, txid |-> c.txid]

\* The history of a transaction: one row for each public change.
LEMMA HistoryRows ==
  ASSUME NEW D, NEW ranking, Numberable(D, ranking)
  PROVE  /\ \A h \in HistoryOf(assignSequenceNumbers(D, ranking)) :
              \E e \in Entities : \E c \in D[e] : c.public /\ h = RowOf(D, e, c, ranking)
         /\ \A e \in Entities : \A c \in D[e] : c.public =>
              RowOf(D, e, c, ranking) \in HistoryOf(assignSequenceNumbers(D, ranking))
<1> DEFINE numbered(e, c) == [c EXCEPT !.changeid = IF <<e, c>> \in Numbered(D)
                                                    THEN sequenceNumber(D, e, c, ranking) ELSE 0]
           N == assignSequenceNumbers(D, ranking)
<1>1. \A e \in Entities : N[e] = {numbered(e, c) : c \in D[e]}
  BY DEF assignSequenceNumbers
<1>2. ASSUME NEW e \in Entities, NEW c \in D[e]
      PROVE  /\ numbered(e, c).operation = c.operation /\ numbered(e, c).txid = c.txid
             /\ c.public => numbered(e, c).changeid = sequenceNumber(D, e, c, ranking)
             /\ numbered(e, c).changeid # 0 <=> c.public
  <2>1. c \in Change
    BY DEF Numberable, Computed
  <2>2. <<e, c>> \in Numbered(D) <=> c.public
    BY DEF Numbered
  <2>3. c.public => sequenceNumber(D, e, c, ranking) # 0
    BY NumberRange DEF Numberable
  <2> QED BY <2>1, <2>2, <2>3 DEF Change
<1> HIDE DEF numbered, N
<1>3. ASSUME NEW h \in HistoryOf(N)
      PROVE  \E e \in Entities : \E c \in D[e] : c.public /\ h = RowOf(D, e, c, ranking)
  <2>1. PICK e \in Entities : \E b \in {d \in N[e] : d.changeid # 0} :
          h = [sequence_number |-> b.changeid, entity |-> e,
               operation |-> b.operation, txid |-> b.txid]
    BY DEF HistoryOf
  <2>2. PICK b \in N[e] :
          /\ b.changeid # 0
          /\ h = [sequence_number |-> b.changeid, entity |-> e,
                  operation |-> b.operation, txid |-> b.txid]
    BY <2>1
  <2>3. PICK c \in D[e] : b = numbered(e, c)
    BY <1>1
  <2>4. c.public /\ h = RowOf(D, e, c, ranking)
    BY <1>2, <2>2, <2>3 DEF RowOf
  <2> QED BY <2>4
<1>4. ASSUME NEW e \in Entities, NEW c \in D[e], c.public
      PROVE  RowOf(D, e, c, ranking) \in HistoryOf(N)
  <2>1. PICK b \in N[e] : b = numbered(e, c)
    BY <1>1
  <2>2. /\ b.changeid # 0
        /\ RowOf(D, e, c, ranking) = [sequence_number |-> b.changeid, entity |-> e,
                                      operation |-> b.operation, txid |-> b.txid]
    BY <1>2, <1>4, <2>1 DEF RowOf
  <2> QED BY <2>2 DEF HistoryOf
<1> QED BY <1>3, <1>4 DEF N

\* A transaction gives the next numbers, each once.
LEMMA HistoryGapless ==
  ASSUME NEW D, NEW ranking, Numberable(D, ranking)
  PROVE  Gapless(HistoryOf(assignSequenceNumbers(D, ranking)), lastSequenceNumber,
                 lastSequenceNumber + Cardinality(Numbered(D)))
<1> DEFINE rows == HistoryOf(assignSequenceNumbers(D, ranking))
           high == lastSequenceNumber + Cardinality(Numbered(D))
<1>1. /\ \A h \in rows :
           \E e \in Entities : \E c \in D[e] : c.public /\ h = RowOf(D, e, c, ranking)
      /\ \A e \in Entities : \A c \in D[e] : c.public => RowOf(D, e, c, ranking) \in rows
  BY HistoryRows
<1>2. \A e, c : RowOf(D, e, c, ranking).sequence_number
                               = sequenceNumber(D, e, c, ranking)
  BY DEF RowOf
<1>3. lastSequenceNumber \in Nat /\ high \in Nat
  BY NumberedFinite, FS_CardinalityType DEF Numberable
<1> HIDE DEF rows, high
<1>4. ASSUME NEW h \in rows PROVE h.sequence_number \in lastSequenceNumber + 1..high
  <2>1. PICK e, c : e \in Entities /\ c \in D[e] /\ c.public /\ h = RowOf(D, e, c, ranking)
    BY <1>1
  <2>2. /\ sequenceNumber(D, e, c, ranking) \in Nat
        /\ sequenceNumber(D, e, c, ranking) > lastSequenceNumber
        /\ sequenceNumber(D, e, c, ranking) <= high
    BY <2>1, NumberRange DEF Numberable, high
  <2> QED BY <1>2, <1>3, <2>1, <2>2
<1>5. ASSUME NEW n \in lastSequenceNumber + 1..high
      PROVE  \E h \in rows : h.sequence_number = n
  <2>1. PICK e, c : e \in Entities /\ c \in D[e] /\ c.public /\ sequenceNumber(D, e, c, ranking) = n
    BY NumbersAreGiven DEF high
  <2> QED BY <1>1, <1>2, <2>1
<1>6. ASSUME NEW g \in rows, NEW h \in rows, g.sequence_number = h.sequence_number
      PROVE  g = h
  <2>1. PICK e, c : e \in Entities /\ c \in D[e] /\ c.public /\ g = RowOf(D, e, c, ranking)
    BY <1>1
  <2>2. PICK f, d : f \in Entities /\ d \in D[f] /\ d.public /\ h = RowOf(D, f, d, ranking)
    BY <1>1
  <2>3. e = f /\ c = d
    BY <1>2, <1>6, <2>1, <2>2, NumbersDiffer
  <2> QED BY <2>1, <2>2, <2>3
<1>7. numbersOf(rows) = lastSequenceNumber + 1..high
  BY <1>4, <1>5 DEF numbersOf
<1> QED BY <1>6, <1>7 DEF Gapless, rows, high

RowsOf(rows, t) == {h \in rows : h.txid = t}

IntervalsExact ==
  \A t \in 1..lastTxid :
    numbersOf(RowsOf(history, t)) =
      IF transactions[t].til = 0 THEN {} ELSE transactions[t].fra..transactions[t].til

\* Numbers follow the transactions.
NumbersFollow ==
  \A g, h \in history : g.txid < h.txid => g.sequence_number < h.sequence_number

\* What the sequence numbers need of the inductive invariant: the numbers up
\* to the last one are given, each once, and each transaction has its interval.
NumbersExact ==
  /\ Gapless(history, 0, lastSequenceNumber)
  /\ IntervalsExact
  /\ NumbersFollow

LEMMA ImportNumbers ==
  ASSUME IInv, NumbersExact, NEW source \in Sources, NEW ranking \in Rankings,
         NEW compared \in SUBSET timed, Import(source, ranking, compared)
  PROVE  NumbersExact'
<1> DEFINE D == Differences(source)
           rows == HistoryOf(assignSequenceNumbers(D, ranking))
           high == lastSequenceNumber + Cardinality(Numbered(D))
<1>1. /\ lastTxid < MaxTxid
      /\ history' = history \cup rows
      /\ transactions' = Append(transactions, Interval(rows))
  BY DEF Import, Differences
<1>2. ServerTypeOK /\ lastSequenceNumber \in Nat
  BY DEF IInv, NumbersUsed
<1>3. /\ Computed(D)
      /\ \A e \in Entities : Fit(D[e], nextTxid, source[e], tables[e])
  BY <1>1, <1>2, ImportComputes
<1> HIDE DEF D
<1>4. Numberable(D, ranking)
  BY <1>2, <1>3 DEF Numberable, Fit
<1>5. Gapless(rows, lastSequenceNumber, high)
  BY <1>4, HistoryGapless
<1>6. high \in Nat /\ lastSequenceNumber <= high
  <2>1. Cardinality(Numbered(D)) \in Nat
    BY <1>3, NumberedFinite, FS_CardinalityType
  <2> QED BY <1>2, <2>1
<1>7. \A h \in rows : h.txid = nextTxid
  <2> SUFFICES ASSUME NEW h \in rows PROVE h.txid = nextTxid
    OBVIOUS
  <2>1. PICK e, c : e \in Entities /\ c \in D[e] /\ h = RowOf(D, e, c, ranking)
    BY <1>4, HistoryRows
  <2> QED BY <1>3, <2>1 DEF RowOf, Fit
<1> HIDE DEF rows, high
<1>8. /\ \A h \in history : h.sequence_number \in 1..lastSequenceNumber
      /\ \A h \in rows : h.sequence_number \in lastSequenceNumber + 1..high
  BY <1>5 DEF NumbersExact, Gapless, numbersOf
<1>9. Gapless(history', 0, high)
  <2>1. numbersOf(history') = numbersOf(history) \cup numbersOf(rows)
    BY <1>1 DEF numbersOf
  <2>2. numbersOf(history') = 0 + 1..high
    BY <1>2, <1>5, <1>6, <2>1 DEF NumbersExact, Gapless
  <2>3. ASSUME NEW g \in history', NEW h \in history', g.sequence_number = h.sequence_number
        PROVE  g = h
    <3>1. g \in history <=> h \in history
      BY <1>1, <1>2, <1>6, <1>8, <2>3
    <3> QED BY <1>1, <1>5, <2>3, <3>1 DEF NumbersExact, Gapless
  <2> QED BY <2>2, <2>3 DEF Gapless
<1>10. lastSequenceNumber' = high
  <2>1. lastSequenceNumber' = IF history' = {} THEN 0 ELSE largestNumber(history')
    BY DEF lastSequenceNumber
  <2>2. CASE history' = {}
    <3>1. 1..high = {}
      BY <1>9, <2>2 DEF Gapless, numbersOf
    <3> QED BY <1>6, <2>1, <2>2, <3>1
  <2>3. CASE history' # {}
    BY <1>6, <1>9, <2>1, <2>3, EndsOfGapless
  <2> QED BY <2>2, <2>3
<1>11. lastTxid \in Nat /\ nextTxid = lastTxid + 1 /\ lastTxid' = nextTxid
  BY <1>1, <1>2 DEF ServerTypeOK, lastTxid, nextTxid
<1>12. \A h \in history : h.txid \in Nat /\ h.txid <= lastTxid /\ h.txid < nextTxid
  BY <1>2, <1>11 DEF IInv, InThePast, ServerTypeOK
<1>13. IntervalsExact'
  <2> SUFFICES ASSUME NEW t \in 1..nextTxid
               PROVE  numbersOf(RowsOf(history', t)) =
                        IF transactions'[t].til = 0 THEN {}
                        ELSE transactions'[t].fra..transactions'[t].til
    BY <1>11 DEF IntervalsExact
  <2>1. CASE t <= lastTxid
    <3>1. t \in 1..lastTxid /\ t # nextTxid
      BY <1>11, <2>1
    <3>2. RowsOf(history', t) = RowsOf(history, t)
      BY <1>1, <1>7, <3>1 DEF RowsOf
    <3>3. transactions'[t] = transactions[t]
      BY <1>1, <1>2, <3>1 DEF ServerTypeOK, lastTxid
    <3> QED BY <3>1, <3>2, <3>3 DEF NumbersExact, IntervalsExact
  <2>2. CASE t = nextTxid
    <3>1. RowsOf(history', t) = rows
      BY <1>1, <1>7, <1>12, <2>2 DEF RowsOf
    <3>2. transactions'[t] = Interval(rows)
      BY <1>1, <1>2, <1>11, <2>2 DEF ServerTypeOK, lastTxid
    <3>3. CASE rows = {}
      BY <3>1, <3>2, <3>3 DEF Interval, numbersOf
    <3>4. CASE rows # {}
      <4>1. Interval(rows) = [fra |-> lastSequenceNumber + 1, til |-> high] /\ high # 0
        BY <1>2, <1>5, <1>6, <3>4, EndsOfGapless DEF Interval
      <4> QED BY <1>5, <3>1, <3>2, <4>1 DEF Gapless
    <3> QED BY <3>3, <3>4
  <2> QED BY <1>11, <2>1, <2>2
<1>14. NumbersFollow'
  <2> SUFFICES ASSUME NEW g \in history', NEW h \in history', g.txid < h.txid
               PROVE  g.sequence_number < h.sequence_number
    BY DEF NumbersFollow
  <2>1. CASE h \in history
    <3>1. g \in history
      BY <1>1, <1>7, <1>11, <1>12, <2>1
    <3> QED BY <2>1, <3>1 DEF NumbersExact, NumbersFollow
  <2>2. CASE h \in rows
    <3>1. g \in history
      BY <1>1, <1>7, <1>11, <2>2
    <3> QED BY <1>2, <1>6, <1>8, <2>2, <3>1
  <2> QED BY <1>1, <2>1, <2>2
<1> QED BY <1>9, <1>10, <1>13, <1>14 DEF NumbersExact

\* There are as many numbers as rows.
LEMMA HistoryCounted ==
  ASSUME IInv, NumbersExact
  PROVE  Cardinality(history) = lastSequenceNumber
<1> DEFINE L == lastSequenceNumber
           row == [n \in 1..L |-> CHOOSE h \in history : h.sequence_number = n]
<1>1. L \in Nat
  BY DEF IInv, NumbersUsed
<1>2. /\ numbersOf(history) = 1..L
      /\ \A g, h \in history : g.sequence_number = h.sequence_number => g = h
  BY DEF NumbersExact, Gapless
<1> HIDE DEF L
<1>3. row \in Bijection(1..L, history)
  <2>1. \A n \in 1..L : row[n] \in history /\ row[n].sequence_number = n
    BY <1>2 DEF numbersOf
  <2>2. \A h \in history : h.sequence_number \in 1..L
    BY <1>2 DEF numbersOf
  <2>3. \A h \in history : row[h.sequence_number] = h
    BY <1>2, <2>1, <2>2
  <2>4. row \in [1..L -> history]
    BY <2>1
  <2> HIDE DEF row
  <2>5. row \in Injection(1..L, history)
    BY <2>1, <2>4 DEF Injection, IsInjective
  <2>6. row \in Surjection(1..L, history)
    BY <2>2, <2>3, <2>4 DEF Surjection
  <2> QED BY <2>5, <2>6 DEF Bijection
<1>4. Cardinality(history) = L
  <2> HIDE DEF row
  <2>1. ExistsBijection(1..L, history)
    BY <1>3 DEF ExistsBijection
  <2> QED BY <1>1, <2>1, FS_CountingElements
<1> QED BY <1>4 DEF L

LEMMA NumbersCounted ==
  ASSUME IInv, NumbersExact
  PROVE  SequenceNumbersExact
<1>1. numbersOf(history) = 1..Cardinality(history)
  BY HistoryCounted DEF NumbersExact, Gapless
<1> QED BY <1>1 DEF SequenceNumbersExact, NumbersExact, IntervalsExact, RowsOf, NumbersFollow

\* The strengthened invariant is inductive.
THEOREM NumbersInvHolds == ServerSpec => [](IInv /\ NumbersExact)
<1>1. ServerInit => NumbersExact
  <2> SUFFICES ASSUME ServerInit PROVE NumbersExact
    OBVIOUS
  <2>1. history = {} /\ lastSequenceNumber = 0 /\ lastTxid = 1 /\ transactions[1].til = 0
    BY DEF ServerInit, lastSequenceNumber, lastTxid
  <2> QED BY <2>1 DEF NumbersExact, Gapless, numbersOf, IntervalsExact, RowsOf, NumbersFollow
<1>2. IInv /\ NumbersExact /\ [ServerNext]_serverVars => NumbersExact'
  <2> SUFFICES ASSUME IInv, NumbersExact, [ServerNext]_serverVars PROVE NumbersExact'
    OBVIOUS
  <2>1. CASE UNCHANGED serverVars
    <3>1. history' = history /\ transactions' = transactions
      BY <2>1 DEF serverVars
    <3>2. lastSequenceNumber' = lastSequenceNumber /\ lastTxid' = lastTxid
      BY <3>1 DEF lastSequenceNumber, lastTxid
    <3> QED BY <3>1, <3>2 DEF NumbersExact, IntervalsExact, NumbersFollow
  <2>2. CASE \E source \in Sources, ranking \in Rankings, compared \in SUBSET timed :
               Import(source, ranking, compared)
    BY <2>2, ImportNumbers
  <2> QED BY <2>1, <2>2 DEF ServerNext, ServerStops
<1> QED BY <1>1, <1>2, InvHolds, PTL DEF ServerSpec

\* Sequence numbers are given once, without gaps, in the order of the
\* transactions, and the intervals in transactions are exactly theirs, whatever
\* the importers compute and in whatever order row_number() has the rows.
THEOREM NumbersStayExact == ServerSpec => []SequenceNumbersExact
<1> QED BY NumbersInvHolds, NumbersCounted, PTL

-----------------------------------------------------------------------------
\* Sequence numbers respect the foreign keys

\* The table of e as a consumer has it that applied the events up to n.
ReplayedUpTo(e, n) == Replay(udtraek(e, 1), haendelserUpTo(e, n))

\* The invariant behind PrefixesConsistent: foreign keys hold in the tables,
\* all events lead to the tables, and any first events to consistent tables.
PrefixInv ==
  /\ tables \in Sources
  /\ \A e \in Entities : ReplayedUpTo(e, lastSequenceNumber) = Published(tables[e])
  /\ \A n \in 0..lastSequenceNumber :
       Consistent([e \in Entities |-> Present(ReplayedUpTo(e, n))])

\* The events up to a number after an import: the old ones first, then those
\* of the import.
LEMMA EventsUpTo ==
  ASSUME IInv, NEW N, NEW source \in Sources, Written(N, source), NEW e \in Entities, NEW n \in Nat
  PROVE  /\ n <= lastSequenceNumber => haendelserUpTo(e, n)' = haendelserUpTo(e, n)
         /\ n >= lastSequenceNumber =>
              haendelserUpTo(e, n)' = haendelserUpTo(e, lastSequenceNumber)
                                        \cup {c \in N[e] : c.public /\ c.changeid <= n}
<1> DEFINE L == lastSequenceNumber
           numberedBy(rows, c, upTo) ==
             \E h \in rows : h.sequence_number = c.changeid /\ h.entity = e /\ h.sequence_number <= upTo
<1>1. L \in Nat /\ (\A c \in changes[e] : c.changeid <= L) /\ \A h \in history : h.sequence_number <= L
  BY DEF IInv, NumbersUsed
<1>2. changes'[e] = changes[e] \cup N[e] /\ history' = history \cup HistoryOf(N)
  BY DEF Written
<1>3. /\ \A c \in changes[e] : c.changeid \in Nat
      /\ \A c \in N[e] : c.changeid \in Nat
      /\ \A h \in history : h.sequence_number \in Nat
  BY DEF IInv, ServerTypeOK, Written, Computed, Change
<1>4. ASSUME NEW h \in HistoryOf(N) PROVE h.sequence_number \in Nat /\ h.sequence_number > L
  <2>1. PICK f \in Entities : \E c \in {d \in N[f] : d.changeid # 0} :
          h = [sequence_number |-> c.changeid, entity |-> f, operation |-> c.operation, txid |-> c.txid]
    BY DEF HistoryOf
  <2>2. PICK c \in N[f] : c.changeid # 0 /\ h.sequence_number = c.changeid
    BY <2>1
  <2>3. c.changeid \in Nat
    BY DEF Written, Computed, Change
  <2> QED BY <2>2, <2>3 DEF Written
<1>5. ASSUME NEW c \in N[e], c.public
      PROVE  c.changeid > L /\ (numberedBy(history', c, n) <=> c.changeid <= n)
  <2>1. c.changeid > L /\ c.changeid # 0
    BY <1>1, <1>3, <1>5 DEF Written
  <2> DEFINE h == [sequence_number |-> c.changeid, entity |-> e,
                   operation |-> c.operation, txid |-> c.txid]
  <2>2. h \in history'
    BY <1>2, <2>1 DEF HistoryOf
  <2> QED BY <2>1, <2>2
<1>6. ASSUME NEW c \in changes[e]
      PROVE  /\ numberedBy(history', c, n) <=> numberedBy(history, c, n)
             /\ n >= L => (numberedBy(history, c, n) <=> numberedBy(history, c, L))
  <2>1. \A h \in HistoryOf(N) : h.sequence_number # c.changeid
    BY <1>1, <1>3, <1>4
  <2>2. \A h \in history : h.sequence_number <= L /\ (n >= L => h.sequence_number <= n)
    BY <1>1, <1>3
  <2> QED BY <1>2, <2>1, <2>2
<1>7. /\ haendelserUpTo(e, n)' = {c \in changes'[e] : c.public /\ numberedBy(history', c, n)}
      /\ \A m : haendelserUpTo(e, m) = {c \in changes[e] : c.public /\ numberedBy(history, c, m)}
  BY DEF haendelserUpTo
<1> HIDE DEF numberedBy
<1>8. n <= L => \A c \in N[e] : c.public => ~ numberedBy(history', c, n)
  BY <1>1, <1>3, <1>5
<1>9. CASE n <= L /\ n >= L
  <2>1. \A c \in N[e] : c.public => ~ (c.changeid <= n)
    BY <1>5, <1>8, <1>9
  <2> QED BY <1>2, <1>5, <1>6, <1>7, <1>9, <2>1
<1>10. CASE ~ (n >= L)
  BY <1>1, <1>2, <1>6, <1>7, <1>8, <1>10
<1>11. CASE ~ (n <= L)
  BY <1>1, <1>2, <1>5, <1>6, <1>7, <1>11
<1> QED BY <1>1, <1>9, <1>10, <1>11

\* The table of an entity when the changes numbered up to n are applied.
Partly(made, source, table, n) ==
  [k \in Keys |-> IF \E c \in made : c.key = k /\ c.public /\ c.changeid <= n
                  THEN source[k] ELSE table[k]]

LEMMA ReplayPart ==
  ASSUME NEW cs \in SUBSET Change, NEW N \in SUBSET Change, NEW last \in Nat,
         NEW txid, NEW source \in Tables, NEW table \in Tables, NEW snapshot, NEW n \in Nat,
         \A c \in cs : c.changeid <= last,
         \A c \in N : c.public => c.changeid > last,
         Fit(N, txid, source, table),
         Replay(snapshot, cs) = Published(table)
  PROVE  Replay(snapshot, cs \cup {c \in N : c.public /\ c.changeid <= n})
           = Published(Partly(N, source, table, n))
<1> DEFINE part == {c \in N : c.public /\ c.changeid <= n}
           mid == Partly(N, source, table, n)
<1>1. mid \in Tables
  BY DEF Partly, Tables
<1>2. \A c \in part : c.key \in Keys /\ mid[c.key] = source[c.key]
  BY DEF Partly, Fit
<1>3. \A k \in Keys : mid[k] # table[k] => \E c \in part : c.key = k
  BY DEF Partly
<1>4. /\ part \in SUBSET Change /\ part \in SUBSET N
      /\ \A c \in part : c.public => c.changeid > last
      /\ {c \in part : c.public} = part
  OBVIOUS
<1>5. Unpublished(part, table)
  BY DEF Unpublished
<1> HIDE DEF part, mid
<1>6. Fit(part, txid, mid, table)
  BY <1>2, <1>3, <1>4 DEF Fit
<1>7. Replay(snapshot, cs \cup {c \in part : c.public}) = Published(mid)
  BY <1>1, <1>4, <1>5, <1>6, ReplayTransaction
<1> QED BY <1>4, <1>7 DEF part, mid

\* Batches in their order: of two public changes of a transaction, the one of
\* the earlier batch has the smaller number.
LEMMA BatchesInOrder ==
  ASSUME NEW D, NEW ranking, Numberable(D, ranking),
         NEW e \in Entities, NEW c \in assignSequenceNumbers(D, ranking)[e], c.public,
         NEW f \in Entities, NEW d \in assignSequenceNumbers(D, ranking)[f], d.public,
         Batch(e, c.operation) < Batch(f, d.operation)
  PROVE  c.changeid < d.changeid
<1> DEFINE numbered(g, b) == [b EXCEPT !.changeid = IF <<g, b>> \in Numbered(D)
                                                    THEN sequenceNumber(D, g, b, ranking) ELSE 0]
<1>1. \A g \in Entities : assignSequenceNumbers(D, ranking)[g] = {numbered(g, b) : b \in D[g]}
  BY DEF assignSequenceNumbers
<1>2. ASSUME NEW g \in Entities, NEW b \in D[g]
      PROVE  /\ b.operation \in Operations
             /\ numbered(g, b).operation = b.operation /\ numbered(g, b).public = b.public
             /\ b.public => numbered(g, b).changeid = sequenceNumber(D, g, b, ranking)
  <2>1. b \in Change
    BY DEF Numberable, Computed
  <2>2. <<g, b>> \in Numbered(D) <=> b.public
    BY DEF Numbered
  <2> QED BY <2>1, <2>2 DEF Change
<1> HIDE DEF numbered
<1>3. PICK b \in D[e] : c = numbered(e, b)
  BY <1>1
<1>4. PICK a \in D[f] : d = numbered(f, a)
  BY <1>1
<1>5. /\ b.public /\ c.operation = b.operation /\ c.changeid = sequenceNumber(D, e, b, ranking)
      /\ a.public /\ d.operation = a.operation /\ d.changeid = sequenceNumber(D, f, a, ranking)
  BY <1>2, <1>3, <1>4
<1>6. Precedes(e, b, f, a, ranking) /\ ~ Precedes(f, a, e, b, ranking)
  <2>1. Batch(e, b.operation) \in Int /\ Batch(f, a.operation) \in Int
    BY <1>2, BatchesDiffer
  <2>2. Batch(e, b.operation) < Batch(f, a.operation)
    BY <1>5
  <2> QED BY <2>1, <2>2 DEF Precedes
<1>7. sequenceNumber(D, e, b, ranking) < sequenceNumber(D, f, a, ranking)
  BY <1>5, <1>6, LaterIsMore
<1> QED BY <1>5, <1>7

\* Deletes go from the tables that refer to those referred to, inserts the
\* other way round.
LEMMA ReferencesInOrder ==
  ASSUME NEW r \in References
  PROVE  /\ r.entity \in Entities /\ r.parent \in Entities
         /\ r.key \in Keys /\ r.parentKey \in Keys
         /\ Batch(r.entity, "delete") < Batch(r.parent, "delete")
         /\ Batch(r.parent, "insert") < Batch(r.entity, "insert")
<1>1. /\ r.entity \in Entities /\ r.parent \in Entities
      /\ r.key \in Keys /\ r.parentKey \in Keys
  BY ServerAssumption
<1>2. Cardinality(Entities) \in Nat
  BY FS_CardinalityType, ServerAssumption
<1>3. /\ Position[r.entity] \in 1..Cardinality(Entities)
      /\ Position[r.parent] \in 1..Cardinality(Entities)
      /\ Position[r.parent] < Position[r.entity]
  BY <1>1, ServerAssumption
<1> QED BY <1>1, <1>2, <1>3 DEF Batch

\* Foreign keys hold in the tables that are on the way to the sources, however
\* far the changes are applied.
LEMMA PartsConsistent ==
  ASSUME tables \in Sources, NEW source \in Sources, NEW D, NEW ranking, Numberable(D, ranking),
         Written(assignSequenceNumbers(D, ranking), source), NEW n \in Nat
  PROVE  Consistent([e \in Entities |->
           Present(Partly(assignSequenceNumbers(D, ranking)[e], source[e], tables[e], n))])
<1> DEFINE N == assignSequenceNumbers(D, ranking)
           mid(e) == Partly(N[e], source[e], tables[e], n)
           applied(e, k) == \E c \in N[e] : c.key = k /\ c.public /\ c.changeid <= n
<1>1. \A e \in Entities : \A k \in Keys :
        mid(e)[k] = IF applied(e, k) THEN source[e][k] ELSE tables[e][k]
  BY DEF Partly
<1>2. ASSUME NEW e \in Entities
      PROVE  /\ Fit(N[e], nextTxid, source[e], tables[e])
             /\ Unpublished(N[e], tables[e])
             /\ \A c \in N[e] : c.changeid \in Nat
  BY DEF Written, Computed, Change
<1>3. ASSUME NEW e \in Entities, NEW f \in Entities, NEW c \in N[e], NEW d \in N[f],
             c.public, d.public, Batch(e, c.operation) < Batch(f, d.operation)
      PROVE  c.changeid < d.changeid
  BY <1>3, BatchesInOrder
<1> SUFFICES ASSUME NEW r \in References,
                    r.key \in [e \in Entities |-> Present(mid(e))][r.entity]
             PROVE  r.parentKey \in [e \in Entities |-> Present(mid(e))][r.parent]
  BY DEF Consistent
<1> DEFINE e == r.entity
           p == r.parent
           k == r.key
           q == r.parentKey
<1>4. /\ e \in Entities /\ p \in Entities /\ k \in Keys /\ q \in Keys
      /\ Batch(e, "delete") < Batch(p, "delete") /\ Batch(p, "insert") < Batch(e, "insert")
  BY ReferencesInOrder
<1>5. /\ source[e][k] # NoRow => source[p][q] # NoRow
      /\ tables[e][k] # NoRow => tables[p][q] # NoRow
  <2>1. \A s \in Sources : s[e][k] # NoRow => s[p][q] # NoRow
    <3> SUFFICES ASSUME NEW s \in Sources, s[e][k] # NoRow PROVE s[p][q] # NoRow
      OBVIOUS
    <3>1. [f \in Entities |-> Present(s[f])][e] = Present(s[e])
          /\ [f \in Entities |-> Present(s[f])][p] = Present(s[p])
      BY <1>4
    <3>2. k \in Present(s[e]) => q \in Present(s[p])
      BY <3>1 DEF Sources, Consistent
    <3> QED BY <1>4, <3>2 DEF Present
  <2> QED BY <2>1
<1>6. mid(e)[k] # NoRow
  BY <1>4 DEF Present
<1> SUFFICES mid(p)[q] # NoRow
  BY <1>4 DEF Present
<1> HIDE DEF mid, e, p, k, q
<1>7. CASE ~ applied(e, k)
  <2>1. tables[e][k] # NoRow /\ tables[p][q] # NoRow
    BY <1>1, <1>4, <1>5, <1>6, <1>7
  <2>2. ASSUME applied(p, q), source[p][q] = NoRow PROVE FALSE
    <3>1. PICK d \in N[p] : d.key = q /\ d.public /\ d.changeid <= n
      BY <2>2
    <3>2. d.operation = "delete"
      BY <1>2, <1>4, <2>1, <2>2, <3>1 DEF Fit
    <3>3. source[e][k] = NoRow
      BY <1>5, <2>2
    <3>4. PICK c \in N[e] : c.key = k
      BY <1>2, <1>4, <2>1, <3>3 DEF Fit
    <3>5. c.operation = "delete" /\ c.public
      BY <1>2, <1>4, <2>1, <3>3, <3>4 DEF Fit, Unpublished
    <3>6. c.changeid < d.changeid
      BY <1>3, <1>4, <3>1, <3>2, <3>5
    <3>7. c.changeid \in Nat /\ d.changeid \in Nat
      BY <1>2, <1>4
    <3>8. c.changeid <= n
      BY <3>1, <3>6, <3>7
    <3> QED BY <1>7, <3>4, <3>5, <3>8
  <2> QED BY <1>1, <1>4, <2>1, <2>2
<1>8. CASE applied(e, k)
  <2>1. source[e][k] # NoRow /\ source[p][q] # NoRow
    BY <1>1, <1>4, <1>5, <1>6, <1>8
  <2>2. ASSUME ~ applied(p, q), tables[p][q] = NoRow PROVE FALSE
    <3>1. PICK c \in N[e] : c.key = k /\ c.public /\ c.changeid <= n
      BY <1>8
    <3>2. tables[e][k] = NoRow
      BY <1>5, <2>2
    <3>3. c.operation = "insert"
      BY <1>2, <1>4, <3>1, <3>2 DEF Fit
    <3>4. PICK d \in N[p] : d.key = q
      BY <1>2, <1>4, <2>1, <2>2 DEF Fit
    <3>5. d.operation = "insert" /\ d.public
      BY <1>2, <1>4, <2>2, <3>4 DEF Fit, Unpublished
    <3>6. d.changeid < c.changeid
      BY <1>3, <1>4, <3>1, <3>3, <3>5
    <3>7. c.changeid \in Nat /\ d.changeid \in Nat
      BY <1>2, <1>4
    <3>8. d.changeid <= n
      BY <3>1, <3>6, <3>7
    <3> QED BY <2>2, <3>4, <3>5, <3>8
  <2> QED BY <1>1, <1>4, <2>1, <2>2
<1> QED BY <1>7, <1>8

LEMMA PublishedPresent ==
  ASSUME NEW table \in Tables
  PROVE  Present(Published(table)) = Present(table)
<1>1. \A k \in Keys : table[k] # NoRow => table[k].public \in Publics
  BY DEF Tables, Rows
<1> QED BY <1>1, ServerAssumption DEF Present, Published

LEMMA ImportPrefixes ==
  ASSUME IInv, NumbersExact, PrefixInv, NEW source \in Sources, NEW ranking \in Rankings,
         NEW compared \in SUBSET timed, Import(source, ranking, compared)
  PROVE  PrefixInv'
<1> DEFINE D == Differences(source)
           N == assignSequenceNumbers(D, ranking)
           L == lastSequenceNumber
           mid(e, n) == Partly(N[e], source[e], tables[e], n)
<1>1. ServerTypeOK /\ L \in Nat /\ lastTxid < MaxTxid /\ 1 \in 1..lastTxid
  BY DEF IInv, NumbersUsed, Import, ServerTypeOK
<1>2. Written(N, source)
  BY <1>1, ImportWrites
<1>3. Numberable(D, ranking)
  BY <1>1, ImportComputes DEF Numberable, Fit
<1>4. IInv'
  BY ImportInv
<1>5. lastSequenceNumber' \in Nat /\ \A e \in Entities : \A c \in changes'[e] : c.changeid <= lastSequenceNumber'
  BY <1>4 DEF IInv, NumbersUsed
<1>6. L <= lastSequenceNumber'
  <2>1. numbersOf(history) = 1..L /\ history \subseteq history'
    BY <1>2 DEF NumbersExact, Gapless, Written
  <2>2. CASE L = 0
    BY <1>5, <2>2
  <2>3. CASE L # 0
    <3>1. L \in numbersOf(history)
      BY <1>1, <2>1, <2>3
    <3>2. PICK h \in history' : h.sequence_number = L
      BY <2>1, <3>1 DEF numbersOf
    <3> QED BY <1>4, <3>2 DEF IInv, NumbersUsed
  <2> QED BY <2>2, <2>3
<1> HIDE DEF D, N, L
<1>7. ASSUME NEW e \in Entities
      PROVE  /\ changes[e] \in SUBSET Change /\ N[e] \in SUBSET Change
             /\ source[e] \in Tables /\ tables[e] \in Tables
             /\ Fit(N[e], nextTxid, source[e], tables[e])
             /\ Unpublished(N[e], tables[e])
             /\ \A c \in N[e] : c.public => c.changeid > L
             /\ changes'[e] = changes[e] \cup N[e]
             /\ udtraek(e, 1)' = udtraek(e, 1)
  <2>1. udtraek(e, 1)' = udtraek(e, 1)
    BY <1>1, <1>2, ImportKeepsPast
  <2> QED BY <1>1, <1>2, <2>1 DEF Written, Computed, ServerTypeOK, Sources, L
<1>8. ASSUME NEW e \in Entities, NEW n \in Nat
      PROVE  /\ n <= L => ReplayedUpTo(e, n)' = ReplayedUpTo(e, n)
             /\ n >= L => ReplayedUpTo(e, n)' = Published(mid(e, n))
  <2>1. /\ n <= L => haendelserUpTo(e, n)' = haendelserUpTo(e, n)
        /\ n >= L => haendelserUpTo(e, n)' = haendelserUpTo(e, L)
                                               \cup {c \in N[e] : c.public /\ c.changeid <= n}
    BY <1>2, EventsUpTo DEF L
  <2> DEFINE now == ReplayedUpTo(e, n)'
  <2>0. now = Replay(udtraek(e, 1)', haendelserUpTo(e, n)')
    BY DEF ReplayedUpTo
  <2>2. n <= L => ReplayedUpTo(e, n)' = ReplayedUpTo(e, n)
    BY <1>7, <2>0, <2>1 DEF ReplayedUpTo
  <2>3. CASE n >= L
    <3> DEFINE cs == haendelserUpTo(e, L)
               snapshot == udtraek(e, 1)
               last == L
    <3>1. cs \in SUBSET Change /\ \A c \in cs : c.changeid <= L
      BY <1>7 DEF haendelserUpTo, IInv, NumbersUsed, L
    <3>2. Replay(snapshot, cs) = Published(tables[e])
      BY DEF PrefixInv, ReplayedUpTo, L
    <3>3. ReplayedUpTo(e, n)' = Replay(snapshot, cs \cup {c \in N[e] : c.public /\ c.changeid <= n})
      BY <1>7, <2>0, <2>1, <2>3
    <3> DEFINE made == N[e]
               new == source[e]
               table == tables[e]
               txid == nextTxid
    <3>4. /\ made \in SUBSET Change /\ new \in Tables /\ table \in Tables
          /\ Fit(made, txid, new, table) /\ \A c \in made : c.public => c.changeid > last
      BY <1>7
    <3>5. cs \in SUBSET Change /\ last \in Nat /\ \A c \in cs : c.changeid <= last
      BY <1>1, <3>1
    <3>6. Replay(snapshot, cs) = Published(table)
      BY <3>2
    <3> HIDE DEF cs, snapshot, made, new, table, txid, last
    <3>7. Replay(snapshot, cs \cup {c \in made : c.public /\ c.changeid <= n})
            = Published(Partly(made, new, table, n))
      BY <3>4, <3>5, <3>6, ReplayPart
    <3> QED BY <2>2, <3>3, <3>7 DEF made, new, table
  <2> QED BY <2>2, <2>3
<1>9. tables' = source
  BY <1>2 DEF Written
<1>10. PICK m \in Nat : m = lastSequenceNumber'
  BY <1>5
<1>11. ASSUME NEW e \in Entities
       PROVE  ReplayedUpTo(e, lastSequenceNumber)' = Published(source[e])
  <2>1. ReplayedUpTo(e, lastSequenceNumber)' = ReplayedUpTo(e, m)'
    BY <1>10 DEF ReplayedUpTo, haendelserUpTo
  <2>2. ReplayedUpTo(e, m)' = Published(mid(e, m))
    BY <1>1, <1>6, <1>8, <1>10
  <2>3. ASSUME NEW k \in Keys PROVE Published(mid(e, m))[k] = Published(source[e])[k]
    <3>1. Published(mid(e, m))[k] = IF mid(e, m)[k] = NoRow THEN NoRow ELSE mid(e, m)[k].public
      BY DEF Published
    <3>2. Published(source[e])[k] = IF source[e][k] = NoRow THEN NoRow ELSE source[e][k].public
      BY DEF Published
    <3>3. CASE mid(e, m)[k] = source[e][k]
      BY <3>1, <3>2, <3>3
    <3>4. CASE mid(e, m)[k] # source[e][k]
      <4>1. /\ mid(e, m)[k] = tables[e][k] /\ tables[e][k] # source[e][k]
            /\ ~ \E c \in N[e] : c.key = k /\ c.public /\ c.changeid <= m
        BY <3>4 DEF Partly
      <4>2. PICK c \in N[e] : c.key = k
        BY <1>7, <4>1 DEF Fit
      <4>3. ~ c.public
        BY <1>5, <1>7, <1>10, <4>1, <4>2
      <4>4. c.operation = "update" /\ c.row.public = tables[e][k].public
        BY <1>7, <4>2, <4>3 DEF Unpublished
      <4>5. tables[e][k] # NoRow /\ source[e][k] # NoRow /\ c.row = source[e][k]
        BY <1>7, <4>2, <4>4 DEF Fit
      <4> QED BY <3>1, <3>2, <4>1, <4>4, <4>5
    <3> QED BY <3>3, <3>4
  <2> QED BY <2>1, <2>2, <2>3 DEF Published
<1>12. ASSUME NEW n \in 0..m
       PROVE  Consistent([e \in Entities |-> Present(ReplayedUpTo(e, n)')])
  <2>1. CASE n <= L
    <3>1. n \in 0..L
      BY <1>1, <2>1
    <3>2. \A e \in Entities : ReplayedUpTo(e, n)' = ReplayedUpTo(e, n)
      BY <1>8, <2>1
    <3> QED BY <3>1, <3>2 DEF PrefixInv, L
  <2>2. CASE n >= L
    <3>1. ASSUME NEW e \in Entities
          PROVE  Present(ReplayedUpTo(e, n)') = Present(mid(e, n))
      <4>1. ReplayedUpTo(e, n)' = Published(mid(e, n))
        BY <1>8, <2>2
      <4>2. mid(e, n) \in Tables
        BY <1>7 DEF Partly, Tables
      <4> HIDE DEF mid
      <4> QED BY <4>1, <4>2, PublishedPresent
    <3>2. Consistent([e \in Entities |-> Present(mid(e, n))])
      BY <1>2, <1>3, PartsConsistent DEF PrefixInv, N
    <3> QED BY <3>1, <3>2
  <2> QED BY <1>1, <2>1, <2>2
<1>13. \A n \in 0..lastSequenceNumber' :
         Consistent([e \in Entities |-> Present(ReplayedUpTo(e, n)')])
  BY <1>10, <1>12
<1>14. \A e \in Entities : ReplayedUpTo(e, lastSequenceNumber)' = Published(tables'[e])
  BY <1>9, <1>11
<1> QED BY <1>9, <1>13, <1>14 DEF PrefixInv

\* Whoever applies the events of all tables one by one in the order of their
\* numbers never has a row without the row it refers to: the calls of
\* assignSequenceNumbersToDependentTables are in the right order for any
\* foreign keys that go from later to earlier tables.
THEOREM PrefixesStayConsistent == ServerSpec => []PrefixesConsistent
<1>1. ServerInit /\ IInv => PrefixInv
  <2> SUFFICES ASSUME ServerInit, IInv PROVE PrefixInv
    OBVIOUS
  <2>1. tables \in Sources /\ history = {} /\ lastTxid = 1 /\ lastSequenceNumber = 0
    BY DEF ServerInit, lastTxid, lastSequenceNumber
  <2>2. ASSUME NEW e \in Entities, NEW n
        PROVE  ReplayedUpTo(e, n) = Published(tables[e])
    <3>1. haendelserUpTo(e, n) = {}
      BY <2>1 DEF haendelserUpTo
    <3>2. udtraek(e, 1) = Published(tables[e])
      BY <2>1 DEF IInv, SnapshotIsCurrent
    <3> QED BY <3>1, <3>2, ReplayNothing DEF ReplayedUpTo, udtraek
  <2>3. \A e \in Entities : Present(Published(tables[e])) = Present(tables[e])
    BY <2>1, PublishedPresent DEF Sources
  <2>4. Consistent([e \in Entities |-> Present(tables[e])])
    BY <2>1 DEF Sources
  <2> QED BY <2>1, <2>2, <2>3, <2>4 DEF PrefixInv
<1>2. IInv /\ NumbersExact /\ PrefixInv /\ [ServerNext]_serverVars => PrefixInv'
  <2> SUFFICES ASSUME IInv, NumbersExact, PrefixInv, [ServerNext]_serverVars PROVE PrefixInv'
    OBVIOUS
  <2>1. CASE UNCHANGED serverVars
    BY <2>1 DEF serverVars, PrefixInv, ReplayedUpTo, udtraek, haendelserUpTo, lastSequenceNumber
  <2>2. CASE \E source \in Sources, ranking \in Rankings, compared \in SUBSET timed :
               Import(source, ranking, compared)
    BY <2>2, ImportPrefixes
  <2> QED BY <2>1, <2>2 DEF ServerNext, ServerStops
<1>3. IInv /\ NumbersExact /\ PrefixInv => PrefixesConsistent
  BY HistoryCounted DEF PrefixInv, PrefixesConsistent, ReplayedUpTo
<1> QED BY <1>1, <1>2, <1>3, NumbersInvHolds, PTL DEF ServerSpec

-----------------------------------------------------------------------------
\* The client

\* In one transaction an object changes at most once.
OneChangeEach ==
  \A e \in Entities : \A c, d \in changes[e] : c.key = d.key /\ c.txid = d.txid => c = d

\* Events of a later transaction have larger numbers.
NumbersInOrder ==
  \A e \in Entities : \A c, d \in changes[e] :
    c.public /\ d.public /\ c.txid < d.txid => c.changeid < d.changeid

\* A recorded transaction is one of the server.
RecordedArePast ==
  /\ DOMAIN sourceTransactions = Entities
  /\ \A e \in Entities : sourceTransactions[e] \subseteq 1..lastTxid

RunType == [state : {"idle", "updating", "done", "failed"}, remoteTxid : Nat,
            force : BOOLEAN, multiple : BOOLEAN, todo : SUBSET Entities]

\* A command that updates works towards a transaction of the server, and no
\* copy is past it. This takes the commands to run one after the other.
RunsAhead ==
  /\ run \in [Runs -> RunType]
  /\ \A r \in Runs : run[r].state = "updating" =>
       /\ run[r].remoteTxid \in 1..lastTxid
       /\ \A e \in Entities : \A t \in sourceTransactions[e] : t <= run[r].remoteTxid

\* The inductive invariant of server and client.
CInv ==
  /\ IInv
  /\ OneChangeEach
  /\ NumbersInOrder
  /\ RecordedArePast
  /\ RunsAhead
  /\ CopyIsSnapshot

-----------------------------------------------------------------------------
\* What applying events does

\* Events that can be told apart and ordered by their transactions.
Orderly(events) ==
  /\ events \in SUBSET Change
  /\ \A c, d \in events : c.key = d.key /\ c.txid = d.txid => c = d
  /\ \A c, d \in events : c.txid < d.txid => c.changeid < d.changeid

\* Of the events of an object one is last, by transaction and by number.
LEMMA LastEvent ==
  ASSUME NEW events, Orderly(events), NEW k, \E c \in events : c.key = k
  PROVE  \E c \in events :
           /\ c.key = k
           /\ \A d \in events : d.key = k => d = c \/ (d.txid < c.txid /\ d.changeid < c.changeid)
<1> DEFINE mine == {c \in events : c.key = k}
           txids == {c.txid : c \in mine}
<1>1. MaxTxid \in Nat /\ \A c \in events : c.txid \in Nat /\ c.txid <= MaxTxid
  BY ServerAssumption DEF Orderly, Change
<1>2. txids \subseteq Nat /\ txids # {} /\ \A n \in txids : n <= MaxTxid
  BY <1>1
<1>3. \E n \in txids : \A m \in txids : n >= m
  <2> HIDE DEF txids
  <2> QED BY <1>1, <1>2, LargestExists
<1>4. PICK c \in mine : \A d \in mine : c.txid >= d.txid
  BY <1>3
<1>5. ASSUME NEW d \in mine, d # c
      PROVE  d.txid < c.txid /\ d.changeid < c.changeid
  <2>1. d.txid # c.txid
    BY <1>5 DEF Orderly
  <2>2. d.txid < c.txid
    BY <1>1, <1>4, <2>1
  <2> QED BY <2>2 DEF Orderly
<1> QED BY <1>5

\* The change an event of the last kind becomes, if it becomes one.
LEMMA EventChange ==
  ASSUME NEW events, Orderly(events), NEW table, NEW txid,
         NEW c \in events,
         \A d \in events : d.key = c.key => d = c \/ (d.txid < c.txid /\ d.changeid < c.changeid)
  PROVE  LET x == NewChange(txid, localOperation(c, table), c.key, c.row.public)
         IN  /\ \A y \in eventChanges(txid, events, table) : y.key = c.key => y = x
             /\ c.operation # "delete" \/ table[c.key] # NoRow
                  => x \in eventChanges(txid, events, table)
             /\ c.operation = "delete" /\ table[c.key] = NoRow
                  => \A y \in eventChanges(txid, events, table) : y.key # c.key
<1> DEFINE change(d) == NewChange(txid, localOperation(d, table), d.key, d.row.public)
<1>1. \A d \in events : d.txid \in Nat
  BY DEF Orderly, Change
<1>2. c \in lastOperations(events)
  BY <1>1 DEF lastOperations
<1>3. \A d \in lastOperations(events) : d.key = c.key => d = c
  BY <1>1 DEF lastOperations
<1>4. \A d : change(d).key = d.key
  BY DEF NewChange
<1>5. eventChanges(txid, events, table) =
        {change(d) : d \in {b \in lastOperations(events) :
                              b.operation # "delete" \/ table[b.key] # NoRow}}
  BY DEF eventChanges
<1> HIDE DEF change
<1> QED BY <1>2, <1>3, <1>4, <1>5 DEF change

\* Each change comes from the last event of its object.
LEMMA ChangeHasEvent ==
  ASSUME NEW events, NEW table, NEW txid, NEW y \in eventChanges(txid, events, table)
  PROVE  \E c \in events : y = NewChange(txid, localOperation(c, table), c.key, c.row.public)
BY DEF eventChanges, lastOperations

\* The changes the client makes of events fit its table: one per object, and
\* the operation says what happens to the object here.
LEMMA EventChangesFit ==
  ASSUME NEW events, Orderly(events), NEW table, NEW txid
  PROVE  /\ \A x, y \in eventChanges(txid, events, table) : x.key = y.key => x = y
         /\ \A x \in eventChanges(txid, events, table) :
              /\ x.txid = txid /\ x.key \in Keys
              /\ x.operation = "insert" <=> x.operation # "delete" /\ table[x.key] = NoRow
              /\ x.operation = "delete" => table[x.key] # NoRow
              /\ x.operation # "delete" => x.row # NoRow
<1>1. ASSUME NEW x \in eventChanges(txid, events, table)
      PROVE  \E c \in events :
               /\ c.key = x.key
               /\ \A d \in events : d.key = c.key => d = c \/ (d.txid < c.txid /\ d.changeid < c.changeid)
               /\ x = NewChange(txid, localOperation(c, table), c.key, c.row.public)
               /\ c.operation # "delete" \/ table[c.key] # NoRow
  <2>1. PICK b \in events : x = NewChange(txid, localOperation(b, table), b.key, b.row.public)
    BY ChangeHasEvent
  <2>2. b.key = x.key
    BY <2>1 DEF NewChange
  <2>3. PICK c \in events :
           /\ c.key = x.key
           /\ \A d \in events : d.key = x.key => d = c \/ (d.txid < c.txid /\ d.changeid < c.changeid)
    BY <2>2, LastEvent
  <2>4. /\ x = NewChange(txid, localOperation(c, table), c.key, c.row.public)
        /\ ~ (c.operation = "delete" /\ table[c.key] = NoRow)
    BY <2>3, EventChange
  <2> QED BY <2>3, <2>4
<1>2. \A x, y \in eventChanges(txid, events, table) : x.key = y.key => x = y
  <2> SUFFICES ASSUME NEW x \in eventChanges(txid, events, table),
                      NEW y \in eventChanges(txid, events, table), x.key = y.key
               PROVE  x = y
    OBVIOUS
  <2>1. PICK c \in events :
          /\ c.key = x.key
          /\ \A d \in events : d.key = c.key => d = c \/ (d.txid < c.txid /\ d.changeid < c.changeid)
    BY <1>1
  <2> QED BY <2>1, EventChange
<1>3. ASSUME NEW x \in eventChanges(txid, events, table)
      PROVE  /\ x.txid = txid /\ x.key \in Keys
             /\ x.operation = "insert" <=> x.operation # "delete" /\ table[x.key] = NoRow
             /\ x.operation = "delete" => table[x.key] # NoRow
             /\ x.operation # "delete" => x.row # NoRow
  <2>1. PICK c \in events :
          /\ x = NewChange(txid, localOperation(c, table), c.key, c.row.public)
          /\ c.operation # "delete" \/ table[c.key] # NoRow
    BY <1>1
  <2>2. c.key \in Keys /\ c.row.public \in Publics /\ NoRow \notin Publics
    BY ServerAssumption DEF Orderly, Change, Rows
  <2> QED BY <2>1, <2>2 DEF NewChange, localOperation
<1> QED BY <1>2, <1>3

\* Applying the events in one local transaction is replaying them one by one.
LEMMA ApplyIsReplay ==
  ASSUME NEW events, Orderly(events), NEW S, NEW table \in [Keys -> S], NEW txid
  PROVE  applyChanges(table, eventChanges(txid, events, table)) = Replay(table, events)
<1> DEFINE E == eventChanges(txid, events, table)
           deleted == applyDeletes(table, E)
           updated == applyUpdates(deleted, E)
           inserted == applyInserts(updated, E)
<1>1. ASSUME NEW k \in Keys PROVE inserted[k] = Replay(table, events)[k]
  <2> DEFINE mine == {c \in events : c.key = k}
             newest == CHOOSE c \in mine : \A d \in mine : c.changeid >= d.changeid
  <2>0. Replay(table, events)[k] = IF mine = {} THEN table[k] ELSE PublicRow(newest)
    BY DEF Replay
  <2>1. CASE \E c \in events : c.key = k
    <3>1. PICK c \in events :
            /\ c.key = k
            /\ \A d \in events : d.key = k => d = c \/ (d.txid < c.txid /\ d.changeid < c.changeid)
      BY <2>1, LastEvent
    <3>2. newest = c
      <4>1. \A d \in mine : d.changeid \in Nat
        BY DEF Orderly, Change
      <4>2. c \in mine /\ \A d \in mine : c.changeid >= d.changeid
        BY <3>1, <4>1
      <4>3. \A b \in mine : (\A d \in mine : b.changeid >= d.changeid) => b = c
        BY <3>1, <4>1, <4>2
      <4> HIDE DEF mine
      <4> QED BY <4>2, <4>3
    <3>3. Replay(table, events)[k] = PublicRow(c)
      <4>1. mine # {}
        BY <3>1
      <4> QED BY <2>0, <3>2, <4>1
    <3>4. c.row.public \in Publics /\ NoRow \notin Publics
      BY ServerAssumption DEF Orderly, Change, Rows
    <3>5. CASE c.operation = "delete" /\ table[k] = NoRow
      <4>1. \A y \in E : y.key # k
        BY <3>1, <3>5, EventChange
      <4>2. inserted[k] = table[k]
        <5> HIDE DEF E
        <5> QED BY <4>1 DEF applyDeletes, applyUpdates, applyInserts, HasChange, WithOperation
      <4> QED BY <3>3, <3>5, <4>2 DEF PublicRow
    <3>6. CASE c.operation # "delete" \/ table[k] # NoRow
      <4> DEFINE x == NewChange(txid, localOperation(c, table), c.key, c.row.public)
      <4>1. x \in E /\ \A y \in E : y.key = k => y = x
        BY <3>1, <3>6, EventChange
      <4>2. /\ x.key = k /\ x.row = c.row.public
            /\ x.operation = IF c.operation = "delete" THEN "delete"
                             ELSE IF table[k] = NoRow THEN "insert" ELSE "update"
        BY <3>1 DEF NewChange, localOperation
      <4> HIDE DEF x, E
      <4>3. /\ HasChange(E, k) /\ RowIn(E, k) = x.row
            /\ \A operation : HasChange(WithOperation(E, operation), k) <=> operation = x.operation
            /\ RowIn(WithOperation(E, x.operation), k) = x.row
        BY <4>1, <4>2 DEF HasChange, RowIn, WithOperation
      <4>4. deleted[k] = IF x.operation = "delete" THEN NoRow ELSE table[k]
        BY <4>3 DEF applyDeletes
      <4>5. updated[k] = IF deleted[k] # NoRow THEN x.row ELSE deleted[k]
        BY <4>3 DEF applyUpdates
      <4>6. inserted[k] = IF x.operation = "insert" THEN x.row ELSE updated[k]
        BY <4>3 DEF applyInserts
      <4> QED BY <3>3, <3>4, <3>6, <4>2, <4>4, <4>5, <4>6 DEF PublicRow
    <3> QED BY <3>5, <3>6
  <2>2. CASE ~ \E c \in events : c.key = k
    <3>1. \A y \in E : y.key # k
      <4> SUFFICES ASSUME NEW y \in E, y.key = k PROVE FALSE
        OBVIOUS
      <4>1. PICK c \in events : y = NewChange(txid, localOperation(c, table), c.key, c.row.public)
        BY ChangeHasEvent
      <4> QED BY <2>2, <4>1 DEF NewChange
    <3>2. inserted[k] = table[k]
      <4> HIDE DEF E
      <4> QED BY <3>1 DEF applyDeletes, applyUpdates, applyInserts, HasChange, WithOperation
    <3>3. mine = {}
      BY <2>2
    <3> QED BY <2>0, <3>2, <3>3
  <2> QED BY <2>1, <2>2
<1>2. inserted = [k \in Keys |-> inserted[k]]
  BY DEF applyInserts
<1>3. Replay(table, events) = [k \in Keys |-> Replay(table, events)[k]]
  BY DEF Replay
<1> HIDE DEF inserted
<1>4. inserted = Replay(table, events)
  BY <1>1, <1>2, <1>3
<1> QED BY <1>4 DEF applyChanges, inserted, updated, deleted, E

-----------------------------------------------------------------------------
\* What updating an entity does

\* A copy is a table, whatever is in it.
LEMMA CopyIsTable ==
  ASSUME CInv, NEW e \in Entities
  PROVE  copy[e] = [k \in Keys |-> copy[e][k]]
<1>1. \/ copy[e] = [k \in Keys |-> NoRow]
      \/ copy[e] = udtraek(e, lastRemoteTxid(e))
  BY DEF CInv, CopyIsSnapshot
<1> QED BY <1>1 DEF udtraek, SnapshotOf

\* The last recorded transaction is one of the recorded ones.
LEMMA LastRecorded ==
  ASSUME NEW e, sourceTransactions[e] # {}, NEW R \in Nat,
         \A t \in sourceTransactions[e] : t \in Nat /\ t <= R
  PROVE  /\ lastRemoteTxid(e) \in sourceTransactions[e]
         /\ \A t \in sourceTransactions[e] : lastRemoteTxid(e) >= t
<1>1. \E t \in sourceTransactions[e] : \A s \in sourceTransactions[e] : t >= s
  BY LargestExists
<1> QED BY <1>1 DEF lastRemoteTxid

\* A table with content is the snapshot of a recorded transaction.
LEMMA ContentIsRecorded ==
  ASSUME CInv, NEW e \in Entities, hasContent(e)
  PROVE  /\ lastRemoteTxid(e) \in sourceTransactions[e]
         /\ lastRemoteTxid(e) \in 1..lastTxid
         /\ copy[e] = udtraek(e, lastRemoteTxid(e))
<1>1. sourceTransactions[e] # {}
  BY DEF CInv, CopyIsSnapshot, hasContent, Present
<1>2. sourceTransactions[e] \subseteq 1..lastTxid /\ lastTxid \in Nat
  BY DEF CInv, RecordedArePast, IInv, ServerTypeOK
<1>3. lastRemoteTxid(e) \in sourceTransactions[e]
  BY <1>1, <1>2, LastRecorded
<1> QED BY <1>1, <1>2, <1>3 DEF CInv, CopyIsSnapshot

\* The events of the server can be ordered.
LEMMA EventsAreOrderly ==
  ASSUME CInv, NEW e \in Entities, NEW from, NEW to
  PROVE  Orderly(haendelser(e, from, to))
<1>1. changes[e] \in SUBSET Change
  BY DEF CInv, IInv, ServerTypeOK
<1>2. \A c \in haendelser(e, from, to) : c \in changes[e] /\ c.public
  BY DEF haendelser
<1> QED BY <1>1, <1>2 DEF Orderly, CInv, OneChangeEach, NumbersInOrder

\* Downloading, or applying the events, or finding that there are none: each
\* way leads to the snapshot of the transaction of the command.
LEMMA UpdateBrings ==
  ASSUME CInv, NEW e \in Entities, NEW R \in 1..lastTxid, NEW force, NEW txid,
         \A t \in sourceTransactions[e] : t <= R
  PROVE  /\ updatedCopy(txid, e, R, force) = udtraek(e, R)
         /\ Method(e, R, force) = "nothing" => updatedCopy(txid, e, R, force) = copy[e]
<1>1. copy[e] = [k \in Keys |-> copy[e][k]]
  BY CopyIsTable
<1>2. udtraek(e, R) = [k \in Keys |-> udtraek(e, R)[k]]
  BY DEF udtraek, SnapshotOf
<1>3. CASE Method(e, R, force) = "initialize"
  BY <1>3 DEF updatedCopy, Downloaded
<1>4. CASE Method(e, R, force) = "download"
  <2> DEFINE source == udtraek(e, R)
             table == copy[e]
             D == computeDifferences(txid, source, table)
             S == {source[k] : k \in Keys} \cup {table[k] : k \in Keys}
  <2>1. updatedCopy(txid, e, R, force) = applyChanges(table, D)
    BY <1>4 DEF updatedCopy, entityChanges, Downloaded
  <2>2. source \in [Keys -> S] /\ table \in [Keys -> S]
    <3> HIDE DEF source, table
    <3>1. source = [k \in Keys |-> source[k]] /\ table = [k \in Keys |-> table[k]]
      BY <1>1, <1>2 DEF source, table
    <3>2. \A k \in Keys : source[k] \in S /\ table[k] \in S
      OBVIOUS
    <3> QED BY <3>1, <3>2
  <2>3. Fit(D, txid, source, table)
    BY DifferencesFit
  <2>4. applyChanges(table, D) = source
    <3> HIDE DEF source, table, D, S
    <3> QED BY <2>2, <2>3, ChangesLeadToSource
  <2> QED BY <1>4, <2>1, <2>4
<1>5. CASE Method(e, R, force) \in {"events", "nothing"}
  <2> DEFINE last == lastRemoteTxid(e)
             events == newEvents(e, R)
  <2>1. hasContent(e)
    BY <1>5 DEF Method
  <2>2. last \in sourceTransactions[e] /\ last \in 1..lastTxid /\ copy[e] = udtraek(e, last)
    BY <2>1, ContentIsRecorded
  <2>3. Replay(copy[e], events) = udtraek(e, R)
    <3>1. last <= R
      BY <2>2
    <3>2. EventsLeadToSnapshot
      BY DEF CInv, IInv
    <3>3. Replay(udtraek(e, last), haendelser(e, last + 1, R)) = udtraek(e, R)
      BY <2>2, <3>1, <3>2 DEF EventsLeadToSnapshot
    <3> QED BY <2>2, <3>3 DEF newEvents
  <2>4. CASE Method(e, R, force) = "events"
    <3>1. updatedCopy(txid, e, R, force) = applyChanges(copy[e], eventChanges(txid, events, copy[e]))
      BY <2>4 DEF updatedCopy, entityChanges
    <3>2. Orderly(events)
      BY EventsAreOrderly DEF newEvents
    <3>3. copy[e] \in [Keys -> {copy[e][k] : k \in Keys}]
      BY <1>1
    <3>4. applyChanges(copy[e], eventChanges(txid, events, copy[e])) = Replay(copy[e], events)
      BY <3>2, <3>3, ApplyIsReplay
    <3> QED BY <2>3, <2>4, <3>1, <3>4
  <2>5. CASE Method(e, R, force) = "nothing"
    <3>1. events = {}
      BY <2>5 DEF Method
    <3>2. updatedCopy(txid, e, R, force) = applyChanges(copy[e], {})
      BY <2>5 DEF updatedCopy, entityChanges
    <3>3. applyChanges(copy[e], {}) = copy[e]
      <4>1. applyDeletes(copy[e], {}) = copy[e]
        BY <1>1 DEF applyDeletes, HasChange, WithOperation
      <4>2. applyUpdates(copy[e], {}) = copy[e]
        BY <1>1 DEF applyUpdates, HasChange
      <4>3. applyInserts(copy[e], {}) = copy[e]
        BY <1>1 DEF applyInserts, HasChange, WithOperation
      <4> QED BY <4>1, <4>2, <4>3 DEF applyChanges
    <3>4. Replay(copy[e], {}) = copy[e]
      BY <2>2, ReplayNothing DEF udtraek
    <3> QED BY <2>3, <3>1, <3>2, <3>3, <3>4
  <2> QED BY <1>5, <2>4, <2>5
<1> QED BY <1>3, <1>4, <1>5 DEF Method

\* A local transaction brings its entities to the transaction of the command,
\* and leaves the others alone.
LEMMA ReplicateBrings ==
  ASSUME CInv, NEW entities \in SUBSET Entities, NEW R \in 1..lastTxid, NEW force,
         \A e \in Entities : \A t \in sourceTransactions[e] : t <= R,
         Replicate(entities, R, force), UNCHANGED serverVars
  PROVE  /\ \A e \in entities : copy'[e] = udtraek(e, R)
         /\ \A e \in Entities : \A t \in sourceTransactions'[e] : t <= R
         /\ RecordedArePast'
         /\ CopyIsSnapshot'
<1>1. /\ copy' = [e \in Entities |-> IF e \in entities
                    THEN updatedCopy(localTxid + 1, e, R, force) ELSE copy[e]]
      /\ sourceTransactions' = [e \in Entities |-> IF e \in entities
                    THEN sourceTransactions[e] \cup Recorded(e, R, force)
                    ELSE sourceTransactions[e]]
  BY DEF Replicate
<1>2. changes' = changes /\ lastTxid' = lastTxid /\ lastTxid \in Nat
  BY DEF serverVars, lastTxid, CInv, IInv, ServerTypeOK
<1>3. \A e \in entities : /\ copy'[e] = udtraek(e, R)
                          /\ Method(e, R, force) = "nothing" => copy'[e] = copy[e]
  BY <1>1, UpdateBrings
<1>4. RecordedArePast
  BY DEF CInv
<1>5. /\ RecordedArePast'
      /\ \A e \in Entities : \A t \in sourceTransactions'[e] : t <= R
  <2>1. ASSUME NEW e \in Entities
        PROVE  /\ sourceTransactions'[e] \subseteq 1..lastTxid
               /\ \A t \in sourceTransactions'[e] : t <= R
    BY <1>1, <1>2, <1>4 DEF RecordedArePast, Recorded
  <2> QED BY <1>1, <1>2, <2>1 DEF RecordedArePast
<1>6. ASSUME NEW e \in Entities
      PROVE  copy'[e] = IF sourceTransactions'[e] = {} THEN [k \in Keys |-> NoRow]
                        ELSE udtraek(e, lastRemoteTxid(e)')
  <2>1. CASE e \notin entities \/ Method(e, R, force) = "nothing"
    <3>1. copy'[e] = copy[e] /\ sourceTransactions'[e] = sourceTransactions[e]
      BY <1>1, <1>3, <2>1 DEF Recorded
    <3>2. lastRemoteTxid(e)' = lastRemoteTxid(e)
      BY <3>1 DEF lastRemoteTxid
    <3> QED BY <3>1, <3>2 DEF CInv, CopyIsSnapshot
  <2>2. CASE e \in entities /\ Method(e, R, force) # "nothing"
    <3>1. sourceTransactions'[e] = sourceTransactions[e] \cup {R}
      BY <1>1, <2>2 DEF Recorded
    <3>2. \A t \in sourceTransactions'[e] : t \in Nat /\ t <= R
      BY <1>2, <1>5 DEF RecordedArePast
    <3>3. lastRemoteTxid(e)' = R
      <4>1. \A t \in sourceTransactions'[e] : (\A s \in sourceTransactions'[e] : t >= s) <=> t = R
        BY <3>1, <3>2
      <4>2. R \in sourceTransactions'[e]
        BY <3>1
      <4> QED BY <4>1, <4>2 DEF lastRemoteTxid
    <3> QED BY <1>3, <2>2, <3>1, <3>3
  <2> QED BY <2>1, <2>2
<1>7. CopyIsSnapshot'
  <2>1. \A e, t : udtraek(e, t)' = udtraek(e, t)
    BY <1>2 DEF udtraek
  <2>2. \A e : udtraek(e, lastRemoteTxid(e))' = udtraek(e, lastRemoteTxid(e)')
    BY <1>2 DEF udtraek
  <2> QED BY <1>6, <2>2 DEF CopyIsSnapshot
<1> QED BY <1>3, <1>5, <1>7

-----------------------------------------------------------------------------
\* The invariant of the client holds initially and every step keeps it

\* Initially there are only the inserts of the first transaction.
LEMMA ServerInitOrder == ServerInit => OneChangeEach /\ NumbersInOrder
<1> SUFFICES ASSUME ServerInit, NEW e \in Entities
             PROVE  \A c, d \in changes[e] : /\ c.key = d.key => c = d
                                             /\ c.txid = d.txid /\ c.txid = 1
  BY DEF OneChangeEach, NumbersInOrder
<1>1. changes[e] = {NewChange(1, "insert", k, tables[e][k]) : k \in Present(tables[e])}
  BY DEF ServerInit, initializeFromScratch
<1>2. \A c \in changes[e] : c = NewChange(1, "insert", c.key, tables[e][c.key])
  BY <1>1 DEF NewChange
<1>3. \A k, row : NewChange(1, "insert", k, row).txid = 1
  BY DEF NewChange
<1> QED BY <1>2, <1>3

\* The order of changes and numbers is kept by the server.
LEMMA ServerKeepsOrder ==
  ASSUME IInv, OneChangeEach, NumbersInOrder, [ServerNext]_serverVars
  PROVE  OneChangeEach' /\ NumbersInOrder'
<1>1. ASSUME NEW source \in Sources, NEW ranking \in Rankings,
             NEW compared \in SUBSET timed, Import(source, ranking, compared)
      PROVE  OneChangeEach' /\ NumbersInOrder'
  <2>1. PICK N : Written(N, source)
    BY <1>1, ImportWrites DEF IInv, NumbersUsed
  <2> SUFFICES ASSUME NEW e \in Entities, NEW c \in changes'[e], NEW d \in changes'[e]
               PROVE  /\ c.key = d.key /\ c.txid = d.txid => c = d
                      /\ c.public /\ d.public /\ c.txid < d.txid => c.changeid < d.changeid
    BY DEF OneChangeEach, NumbersInOrder
  <2>2. changes'[e] = changes[e] \cup N[e]
    BY <2>1 DEF Written
  <2>3. \A b \in changes[e] : /\ b.txid \in Nat /\ b.txid <= lastTxid
                              /\ b.changeid \in Nat /\ b.changeid <= lastSequenceNumber
    BY DEF IInv, ServerTypeOK, InThePast, NumbersUsed, Change
  <2>4. /\ \A b \in N[e] : /\ b.txid = nextTxid
                           /\ b.changeid \in Nat
                           /\ b.public => b.changeid > lastSequenceNumber
        /\ \A a, b \in N[e] : a.key = b.key => a = b
    BY <2>1, <2>2 DEF Written, Fit, Change
  <2>5. nextTxid = lastTxid + 1 /\ lastTxid \in Nat /\ lastSequenceNumber \in Nat
    BY DEF nextTxid, IInv, ServerTypeOK, NumbersUsed
  <2>6. CASE c \in changes[e] /\ d \in changes[e]
    BY <2>6 DEF OneChangeEach, NumbersInOrder
  <2>7. CASE c \in changes[e] /\ d \in N[e]
    BY <2>3, <2>4, <2>5, <2>7
  <2>8. CASE c \in N[e] /\ d \in changes[e]
    BY <2>3, <2>4, <2>5, <2>8
  <2>9. CASE c \in N[e] /\ d \in N[e]
    BY <2>4, <2>5, <2>9
  <2> QED BY <2>2, <2>6, <2>7, <2>8, <2>9
<1>2. CASE UNCHANGED serverVars
  BY <1>2 DEF serverVars, OneChangeEach, NumbersInOrder
<1> QED BY <1>1, <1>2 DEF ServerNext, ServerStops

-----------------------------------------------------------------------------
\* The past

\* A row in a snapshot comes from one change of its object.
LEMMA DecidingIsThere ==
  ASSUME ServerTypeOK, OneChangeEach, NEW e \in Entities, NEW t \in Nat, NEW k \in Keys,
         udtraek(e, t)[k] # NoRow
  PROVE  /\ Deciding(e, t, k) \in changes[e]
         /\ Deciding(e, t, k).key = k /\ Deciding(e, t, k).txid <= t
<1> DEFINE mine == {c \in changes[e] : c.txid <= t /\ c.key = k}
           txids == {c.txid : c \in mine}
<1>1. mine # {}
  BY DEF udtraek, SnapshotOf
<1>2. mine \in SUBSET Change /\ txids \subseteq Nat /\ txids # {} /\ \A n \in txids : n <= t
  BY <1>1 DEF ServerTypeOK, Change
<1>3. PICK n \in txids : \A m \in txids : n >= m
  <2> HIDE DEF txids
  <2> QED BY <1>2, LargestExists
<1>4. PICK c \in mine : c.txid = n
  OBVIOUS
<1>5. \A d \in mine : d = c \/ d.txid < c.txid
  <2> SUFFICES ASSUME NEW d \in mine, d.txid = c.txid PROVE d = c
    BY <1>2, <1>3, <1>4
  <2> QED BY DEF OneChangeEach
<1>6. Newest(mine) = c
  <2> HIDE DEF mine
  <2> QED BY <1>2, <1>5, NewestChange
<1> QED BY <1>4, <1>6 DEF Deciding

\* What the hook of ændret changes of the past: the times of inserts.
LEMMA ImportMovesInserts ==
  ASSUME IInv, OneChangeEach, NEW source \in Sources, NEW ranking \in Rankings,
         NEW compared \in SUBSET timed, Import(source, ranking, compared),
         NEW e \in Entities, NEW c \in changes[e],
         changed'[e][<<c.txid, c.key>>] # changed[e][<<c.txid, c.key>>]
  PROVE  /\ e \in timed /\ c.operation = "insert"
         /\ changed'[e][<<c.txid, c.key>>] = nextTxid
<1> DEFINE D == Differences(source)
           rows == changes[e] \cup D[e]
           hit == {b \in rows : \/ b.operation = "insert"
                                \/ b.operation = "update" /\ b.txid = nextTxid}
           place == <<c.txid, c.key>>
<1>1. place \in Places
  BY DEF IInv, ServerTypeOK, Change, Places
<1>2. changed'[e] = IF e \in compared THEN setChanged(changed[e], nextTxid, rows) ELSE changed[e]
  BY DEF Import, Differences
<1>3. e \in compared /\ place \in placesOf(hit) /\ changed'[e][place] = nextTxid
  BY <1>1, <1>2 DEF setChanged
<1>4. PICK b \in hit : b.txid = c.txid /\ b.key = c.key
  BY <1>3 DEF placesOf
<1>5. lastTxid < MaxTxid
  BY DEF Import
<1>6. \A d \in D[e] : d.txid = nextTxid
  BY <1>5, ImportComputes DEF IInv, Fit
<1>7. c.txid # nextTxid
  BY DEF IInv, ServerTypeOK, InThePast, Change, nextTxid
<1>8. b \in changes[e] /\ b.operation = "insert"
  BY <1>4, <1>6, <1>7
<1>9. b = c
  BY <1>4, <1>8 DEF OneChangeEach
<1> QED BY <1>3, <1>8, <1>9

\* The column ændret of a past snapshot only moves as MayMove allows.
LEMMA ImportMovesTimes ==
  ASSUME IInv, OneChangeEach, NEW source \in Sources, NEW ranking \in Rankings,
         NEW compared \in SUBSET timed, Import(source, ranking, compared),
         NEW e \in Entities, NEW t \in 1..lastTxid, NEW k \in Keys,
         udtraekChanged(e, t)'[k] # udtraekChanged(e, t)[k]
  PROVE  MayMove(e, t, k)
<1> DEFINE d == Deciding(e, t, k)
<1>1. PICK N : Written(N, source)
  BY ImportWrites DEF IInv, NumbersUsed
<1>2. udtraek(e, t)' = udtraek(e, t)
  <2>1. 0 \in Nat
    OBVIOUS
  <2> QED BY <1>1, <2>1, ImportKeepsPast
<1>3. Deciding(e, t, k)' = d
  <2>1. ~ (nextTxid <= t)
    BY DEF IInv, ServerTypeOK, nextTxid
  <2>2. \A c \in N[e] : ~ (c.txid <= t)
    BY <1>1, <2>1 DEF Written, Fit
  <2>3. {c \in changes'[e] : c.txid <= t /\ c.key = k} = {c \in changes[e] : c.txid <= t /\ c.key = k}
    BY <1>1, <2>2 DEF Written
  <2> QED BY <2>3 DEF Deciding
<1>4. udtraek(e, t)[k] # NoRow
  BY <1>2 DEF udtraekChanged
<1>5. /\ udtraekChanged(e, t)[k] = changed[e][<<d.txid, k>>]
      /\ udtraekChanged(e, t)'[k] = changed'[e][<<d.txid, k>>]
  BY <1>2, <1>3, <1>4 DEF udtraekChanged
<1>6. d \in changes[e] /\ d.key = k
  BY <1>4, DecidingIsThere DEF IInv
<1> HIDE DEF d
<1>7. e \in timed /\ d.operation = "insert" /\ changed'[e][<<d.txid, k>>] = nextTxid
  BY <1>5, <1>6, ImportMovesInserts
<1>8. lastTxid' = nextTxid
  BY <1>1 DEF Written
<1> QED BY <1>5, <1>7, <1>8 DEF MayMove, d

\* The documented meaning of snapshots and events, as far as the code keeps
\* it: what has been committed is the same whenever it is asked for, except
\* for the column ændret. Past times move, but only those of objects that were
\* inserted and not updated since, in tables with the column, and to the
\* time of the import.
THEOREM PastStaysStable == ServerSpec => PastStaysButTimes
<1> DEFINE Stable == \A e \in Entities, t \in 1..lastTxid :
                       /\ udtraek(e, t)' = udtraek(e, t)
                       /\ \A s \in 1..t : haendelser(e, s, t)' = haendelser(e, s, t)
                       /\ \A k \in Keys : udtraekChanged(e, t)'[k] # udtraekChanged(e, t)[k]
                                          => MayMove(e, t, k)
<1>1. ServerInit => IInv /\ OneChangeEach /\ NumbersInOrder
  BY ServerInitInv, ServerInitOrder
<1>2. IInv /\ OneChangeEach /\ NumbersInOrder /\ [ServerNext]_serverVars
        => IInv' /\ OneChangeEach' /\ NumbersInOrder'
  BY NextInv, ServerKeepsOrder
<1>3. IInv /\ OneChangeEach /\ [ServerNext]_serverVars => [Stable]_serverVars
  <2> SUFFICES ASSUME IInv, OneChangeEach, ServerNext PROVE Stable \/ UNCHANGED serverVars
    OBVIOUS
  <2>1. ASSUME NEW source \in Sources, NEW ranking \in Rankings,
               NEW compared \in SUBSET timed, Import(source, ranking, compared)
        PROVE  Stable
    <3> SUFFICES ASSUME NEW e \in Entities, NEW t \in 1..lastTxid
                 PROVE  /\ udtraek(e, t)' = udtraek(e, t)
                        /\ \A s \in 1..t : haendelser(e, s, t)' = haendelser(e, s, t)
                        /\ \A k \in Keys :
                             udtraekChanged(e, t)'[k] # udtraekChanged(e, t)[k] => MayMove(e, t, k)
      OBVIOUS
    <3>1. PICK N : Written(N, source)
      BY <2>1, ImportWrites DEF IInv, NumbersUsed
    <3>2. 0 \in Nat /\ \A s \in 1..t : s \in Nat
      OBVIOUS
    <3>3. /\ udtraek(e, t)' = udtraek(e, t)
          /\ \A s \in 1..t : haendelser(e, s, t)' = haendelser(e, s, t)
      BY <3>1, <3>2, ImportKeepsPast
    <3>4. \A k \in Keys : udtraekChanged(e, t)'[k] # udtraekChanged(e, t)[k] => MayMove(e, t, k)
      BY <2>1, ImportMovesTimes
    <3> QED BY <3>3, <3>4
  <2>2. CASE ServerStops
    BY <2>2 DEF ServerStops
  <2> QED BY <2>1, <2>2 DEF ServerNext
<1> QED BY <1>1, <1>2, <1>3, PTL DEF ServerSpec, PastStaysButTimes

-----------------------------------------------------------------------------
\* The client, continued

\* What the server does later leaves the client where it is: snapshots of the
\* past do not change, in the columns the client copies here (all but ændret).
LEMMA ServerStepInv ==
  ASSUME CInv, [ServerNext]_serverVars, UNCHANGED clientVars
  PROVE  CInv'
<1>1. IInv' /\ OneChangeEach' /\ NumbersInOrder'
  BY NextInv, ServerKeepsOrder DEF CInv
<1>2. /\ lastTxid \in Nat /\ lastTxid' \in Nat /\ lastTxid' >= lastTxid
      /\ \A e \in Entities : \A t \in 1..lastTxid : udtraek(e, t)' = udtraek(e, t)
  <2>1. lastTxid \in Nat /\ lastTxid' \in Nat
    BY <1>1 DEF CInv, IInv, ServerTypeOK
  <2>2. ASSUME NEW source \in Sources, NEW ranking \in Rankings,
               NEW compared \in SUBSET timed, Import(source, ranking, compared)
        PROVE  /\ lastTxid' >= lastTxid
               /\ \A e \in Entities : \A t \in 1..lastTxid : udtraek(e, t)' = udtraek(e, t)
    <3>1. PICK N : Written(N, source)
      BY <2>2, ImportWrites DEF CInv, IInv, NumbersUsed
    <3>2. lastTxid' >= lastTxid
      BY <2>1, <3>1 DEF Written, nextTxid
    <3>3. \A e \in Entities : \A t \in 1..lastTxid : udtraek(e, t)' = udtraek(e, t)
      <4>1. 0 \in Nat /\ IInv
        BY DEF CInv
      <4> QED BY <3>1, <4>1, ImportKeepsPast
    <3> QED BY <3>2, <3>3
  <2>3. CASE UNCHANGED serverVars
    BY <2>1, <2>3 DEF serverVars, lastTxid, udtraek
  <2> QED BY <2>1, <2>2, <2>3 DEF ServerNext, ServerStops
<1>3. copy' = copy /\ sourceTransactions' = sourceTransactions /\ run' = run
  BY DEF clientVars
<1>4. RecordedArePast' /\ RunsAhead'
  BY <1>2, <1>3 DEF CInv, RecordedArePast, RunsAhead
<1>5. CopyIsSnapshot'
  <2> SUFFICES ASSUME NEW e \in Entities, sourceTransactions[e] # {}
               PROVE  udtraek(e, lastRemoteTxid(e))' = udtraek(e, lastRemoteTxid(e))
    BY <1>3 DEF CInv, CopyIsSnapshot
  <2>1. PICK t : t = lastRemoteTxid(e)
    OBVIOUS
  <2>2. lastRemoteTxid(e)' = t
    BY <1>3, <2>1 DEF lastRemoteTxid
  <2>3. sourceTransactions[e] \subseteq 1..lastTxid
    BY DEF CInv, RecordedArePast
  <2>4. t \in 1..lastTxid
    BY <1>2, <2>1, <2>3, LastRecorded
  <2>5. udtraek(e, lastRemoteTxid(e))' = udtraek(e, t)'
    BY <2>2 DEF udtraek
  <2> QED BY <1>2, <2>1, <2>4, <2>5
<1> QED BY <1>1, <1>4, <1>5 DEF CInv

LEMMA ClientInitInv == Init => CInv
<1> SUFFICES ASSUME Init PROVE CInv
  OBVIOUS
<1>1. IInv
  BY ServerInitInv DEF Init
<1>2. OneChangeEach /\ NumbersInOrder
  BY ServerInitOrder DEF Init
<1>3. RecordedArePast /\ RunsAhead /\ CopyIsSnapshot
  BY DEF Init, ClientInit, RecordedArePast, RunsAhead, CopyIsSnapshot, IdleRun, RunType
<1> QED BY <1>1, <1>2, <1>3 DEF CInv

\* A step that writes nothing leaves the copies what they are.
LEMMA CopyUntouched ==
  ASSUME CInv, UNCHANGED serverVars, UNCHANGED <<copy, sourceTransactions>>,
         IInv', OneChangeEach', NumbersInOrder', RunsAhead'
  PROVE  CInv'
<1>1. RecordedArePast' /\ CopyIsSnapshot'
  BY DEF CInv, RecordedArePast, CopyIsSnapshot, serverVars, lastTxid, udtraek, lastRemoteTxid
<1> QED BY <1>1 DEF CInv

\* A step of a command, of which there is only one at a time.
LEMMA ClientStepInv ==
  ASSUME CInv, \A r, s \in Runs : r = s,
         NEW r \in Runs,
         \/ \E force \in ForceDownloads, multiple \in BOOLEAN, entities \in (SUBSET Entities) \ {{}} :
              Start(r, force, multiple, entities)
         \/ UpdateSingleTx(r)
         \/ \E e \in Entities : UpdateMultipleTx(r, e)
         \/ Fail(r)
  PROVE  CInv'
<1>1. UNCHANGED serverVars
  BY DEF Start, UpdateSingleTx, UpdateMultipleTx, Fail
<1>2. IInv' /\ OneChangeEach' /\ NumbersInOrder'
  BY <1>1, NextInv, ServerKeepsOrder DEF CInv
<1>3. lastTxid' = lastTxid /\ lastTxid \in Nat \ {0} /\ Runs = {r}
  BY <1>1, ServerAssumption DEF serverVars, lastTxid, CInv, IInv, ServerTypeOK
<1>4. /\ run \in [Runs -> RunType]
      /\ run[r].state = "updating" =>
           /\ run[r].remoteTxid \in 1..lastTxid
           /\ \A e \in Entities : \A t \in sourceTransactions[e] : t <= run[r].remoteTxid
  BY DEF CInv, RunsAhead
<1>5. CASE \E force \in ForceDownloads, multiple \in BOOLEAN, entities \in (SUBSET Entities) \ {{}} :
              Start(r, force, multiple, entities)
  <2>1. PICK force \in ForceDownloads, multiple \in BOOLEAN, entities \in (SUBSET Entities) \ {{}} :
               Start(r, force, multiple, entities)
    BY <1>5
  <2>2. run' = [run EXCEPT ![r] = [state |-> "updating", remoteTxid |-> lastTxid,
                                   force |-> force, multiple |-> multiple, todo |-> entities]]
    BY <2>1 DEF Start, senesteTransaktion
  <2>3. /\ run' \in [Runs -> RunType]
        /\ run'[r].remoteTxid = lastTxid
    BY <1>3, <1>4, <2>2, ClientAssumption DEF RunType
  <2>4. UNCHANGED <<copy, sourceTransactions>>
    BY <2>1 DEF Start
  <2>5. RunsAhead'
    BY <1>3, <2>3, <2>4 DEF CInv, RunsAhead, RecordedArePast
  <2> QED BY <1>1, <1>2, <2>4, <2>5, CopyUntouched
<1>6. ASSUME NEW entities \in SUBSET Entities, run[r].state = "updating",
             Replicate(entities, run[r].remoteTxid, run[r].force),
             run' \in [Runs -> RunType], run'[r].remoteTxid = run[r].remoteTxid
      PROVE  CInv'
  <2>1. /\ \A e \in Entities : \A t \in sourceTransactions'[e] : t <= run[r].remoteTxid
        /\ RecordedArePast' /\ CopyIsSnapshot'
    BY <1>1, <1>4, <1>6, ReplicateBrings
  <2>2. RunsAhead'
    BY <1>3, <1>4, <1>6, <2>1 DEF RunsAhead
  <2> QED BY <1>2, <2>1, <2>2 DEF CInv
<1>7. ASSUME NEW state \in {"done", "failed"}, run' = [run EXCEPT ![r].state = state]
      PROVE  /\ run' \in [Runs -> RunType] /\ run'[r].state = state
             /\ run'[r].remoteTxid = run[r].remoteTxid
  BY <1>4, <1>7 DEF RunType
<1>8. ASSUME run' = [run EXCEPT ![r].state = "failed"], UNCHANGED <<copy, sourceTransactions>>
      PROVE  CInv'
  <2>1. run' \in [Runs -> RunType] /\ run'[r].state = "failed"
    BY <1>7, <1>8
  <2>2. RunsAhead'
    BY <1>3, <2>1 DEF RunsAhead
  <2> QED BY <1>1, <1>2, <1>8, <2>2, CopyUntouched
<1>9. CASE UpdateSingleTx(r)
  <2>1. CASE Replicate(run[r].todo, run[r].remoteTxid, run[r].force)
             /\ run' = [run EXCEPT ![r].state = "done"]
    <3>1. run[r].state = "updating" /\ run[r].todo \in SUBSET Entities
      BY <1>4, <1>9 DEF UpdateSingleTx, RunType
    <3>2. run' \in [Runs -> RunType] /\ run'[r].remoteTxid = run[r].remoteTxid
      BY <1>7, <2>1
    <3> QED BY <1>6, <2>1, <3>1, <3>2
  <2>2. CASE run' = [run EXCEPT ![r].state = "failed"]
             /\ UNCHANGED <<copy, sourceTransactions>>
    BY <1>8, <2>2
  <2> QED BY <1>9, <2>1, <2>2 DEF UpdateSingleTx
<1>10. ASSUME NEW e \in Entities, UpdateMultipleTx(r, e)
       PROVE  CInv'
  <2>1. /\ run[r].state = "updating"
        /\ Replicate({e}, run[r].remoteTxid, run[r].force)
        /\ run' = [run EXCEPT ![r].todo = run[r].todo \ {e},
                              ![r].state = IF run[r].todo = {e} THEN "done" ELSE "updating"]
    BY <1>10 DEF UpdateMultipleTx
  <2>2. run' \in [Runs -> RunType] /\ run'[r].remoteTxid = run[r].remoteTxid
    <3>1. PICK left \in SUBSET Entities, state \in {"updating", "done"} :
            run' = [run EXCEPT ![r].todo = left, ![r].state = state]
      <4>1. run[r].todo \ {e} \in SUBSET Entities
        BY <1>4 DEF RunType
      <4> QED BY <2>1, <4>1
    <3>2. run' = [run EXCEPT ![r] = [run[r] EXCEPT !.todo = left, !.state = state]]
      BY <3>1
    <3>3. run[r] \in RunType
      BY <1>4
    <3>4. /\ [run[r] EXCEPT !.todo = left, !.state = state] \in RunType
          /\ [run[r] EXCEPT !.todo = left, !.state = state].remoteTxid = run[r].remoteTxid
      BY <3>1, <3>3 DEF RunType
    <3> QED BY <1>4, <3>2, <3>4
  <2>3. PICK todo \in SUBSET Entities : todo = {e}
    OBVIOUS
  <2>4. Replicate(todo, run[r].remoteTxid, run[r].force)
    BY <2>1, <2>3
  <2> QED BY <1>6, <2>1, <2>2, <2>4
<1>11. CASE Fail(r)
  BY <1>8, <1>11 DEF Fail
<1> QED BY <1>5, <1>9, <1>10, <1>11

-----------------------------------------------------------------------------
\* What a step of a command does to the copy and the local change tables

\* The result for an object with one change.
LEMMA AppliedChange ==
  ASSUME NEW table, NEW E, NEW x \in E, x.key \in Keys, \A y \in E : y.key = x.key => y = x
  PROVE  applyChanges(table, E)[x.key] =
           CASE x.operation = "delete" -> NoRow
             [] x.operation = "insert" -> x.row
             [] OTHER -> IF table[x.key] = NoRow THEN NoRow ELSE x.row
<1> DEFINE k == x.key
           deleted == applyDeletes(table, E)
           updated == applyUpdates(deleted, E)
           inserted == applyInserts(updated, E)
<1>1. /\ HasChange(E, k) /\ RowIn(E, k) = x.row
      /\ \A operation : HasChange(WithOperation(E, operation), k) <=> operation = x.operation
      /\ RowIn(WithOperation(E, x.operation), k) = x.row
  BY DEF HasChange, RowIn, WithOperation
<1>2. deleted[k] = IF x.operation = "delete" THEN NoRow ELSE table[k]
  BY <1>1 DEF applyDeletes
<1>3. updated[k] = IF deleted[k] # NoRow THEN x.row ELSE deleted[k]
  BY <1>1 DEF applyUpdates
<1>4. inserted[k] = IF x.operation = "insert" THEN x.row ELSE updated[k]
  BY <1>1 DEF applyInserts
<1>5. applyChanges(table, E)[k] = inserted[k]
  BY DEF applyChanges
<1> HIDE DEF deleted, updated, inserted
<1> QED BY <1>2, <1>3, <1>4, <1>5

\* A row without a change stays.
LEMMA WithoutChange ==
  ASSUME NEW table, NEW E, NEW k \in Keys, ~ HasChange(E, k)
  PROVE  applyChanges(table, E)[k] = table[k]
<1>1. \A operation : ~ HasChange(WithOperation(E, operation), k)
  BY DEF HasChange, WithOperation
<1>2. applyDeletes(table, E)[k] = table[k]
  BY <1>1 DEF applyDeletes
<1>3. applyUpdates(applyDeletes(table, E), E)[k] = table[k]
  BY <1>2 DEF applyUpdates
<1>4. applyInserts(applyUpdates(applyDeletes(table, E), E), E)[k] = table[k]
  BY <1>1, <1>3 DEF applyInserts
<1> QED BY <1>4 DEF applyChanges

\* Changes E of the transaction txid tell how a table became what it is now.
Tell(E, txid, before, after) ==
  /\ \A c, d \in E : c.key = d.key => c = d
  /\ \A c \in E : /\ c.txid = txid
                  /\ c.operation = "insert" <=> before[c.key] = NoRow
                  /\ c.operation = "delete" <=> after[c.key] = NoRow
                  /\ c.operation # "delete" => c.row = after[c.key]
  /\ \A k \in Keys : after[k] # before[k] => HasChange(E, k)

\* Whichever way an entity is updated, its changes tell what happens to it.
LEMMA EntityChangesFit ==
  ASSUME CInv, NEW e \in Entities, NEW R \in 1..lastTxid, NEW force, NEW txid,
         \A t \in sourceTransactions[e] : t <= R
  PROVE  IF hasContent(e)
         THEN Tell(entityChanges(txid, e, R, force), txid, copy[e], updatedCopy(txid, e, R, force))
         ELSE entityChanges(txid, e, R, force) = {}
<1> DEFINE E == entityChanges(txid, e, R, force)
           after == updatedCopy(txid, e, R, force)
<1>1. CASE Method(e, R, force) = "download"
  <2>1. E = computeDifferences(txid, udtraek(e, R), copy[e])
    BY <1>1 DEF entityChanges, Downloaded
  <2>2. after = udtraek(e, R)
    BY UpdateBrings
  <2>3. Fit(E, txid, udtraek(e, R), copy[e])
    BY <2>1, DifferencesFit
  <2>4. hasContent(e)
    BY <1>1 DEF Method
  <2> HIDE DEF E, after
  <2>5. Tell(E, txid, copy[e], after)
    BY <2>2, <2>3 DEF Fit, Tell, HasChange
  <2> QED BY <2>4, <2>5 DEF E, after
<1>2. CASE Method(e, R, force) = "events"
  <2> DEFINE events == newEvents(e, R)
  <2>1. E = eventChanges(txid, events, copy[e]) /\ Orderly(events)
    BY <1>2, EventsAreOrderly DEF entityChanges, newEvents
  <2>2. after = applyChanges(copy[e], E)
    BY <1>2 DEF updatedCopy
  <2>3. hasContent(e)
    BY <1>2 DEF Method
  <2> HIDE DEF E, after, events
  <2>4. /\ \A x, y \in E : x.key = y.key => x = y
        /\ \A x \in E :
             /\ x.txid = txid /\ x.key \in Keys
             /\ x.operation = "insert" <=> x.operation # "delete" /\ copy[e][x.key] = NoRow
             /\ x.operation = "delete" => copy[e][x.key] # NoRow
             /\ x.operation # "delete" => x.row # NoRow
    BY <2>1, EventChangesFit
  <2>5. ASSUME NEW c \in E
        PROVE  /\ c.operation = "insert" <=> copy[e][c.key] = NoRow
               /\ c.operation = "delete" <=> after[c.key] = NoRow
               /\ c.operation # "delete" => c.row = after[c.key]
    <3>1. after[c.key] =
            CASE c.operation = "delete" -> NoRow
              [] c.operation = "insert" -> c.row
              [] OTHER -> IF copy[e][c.key] = NoRow THEN NoRow ELSE c.row
      BY <2>2, <2>4, AppliedChange
    <3> QED BY <2>4, <3>1
  <2>6. \A k \in Keys : after[k] # copy[e][k] => HasChange(E, k)
    BY <2>2, WithoutChange
  <2>7. Tell(E, txid, copy[e], after)
    BY <2>4, <2>5, <2>6 DEF Tell
  <2> QED BY <2>3, <2>7 DEF E, after
<1>3. CASE Method(e, R, force) = "nothing"
  <2>1. hasContent(e)
    BY <1>3 DEF Method
  <2>2. E = {} /\ after = copy[e]
    BY <1>3, UpdateBrings DEF entityChanges
  <2> QED BY <2>1, <2>2 DEF Tell
<1>4. CASE Method(e, R, force) = "initialize"
  BY <1>4 DEF entityChanges, Method
<1> QED BY <1>1, <1>2, <1>3, <1>4 DEF Method

\* What a command does in a step: nothing to its copy, or one local
\* transaction over entities that are still to be done.
LEMMA StepOfCommand ==
  ASSUME CInv, \A r, s \in Runs : r = s, NEW r \in Runs, [Next]_vars
  PROVE  \/ /\ UNCHANGED <<copy, localTxid, localChanges>>
            /\ run[r].state = "updating" =>
                 run'[r].todo = run[r].todo /\ run'[r].state # "done"
         \/ /\ run[r].state = "updating" /\ UNCHANGED serverVars
            /\ \E entities \in SUBSET Entities :
                 /\ Replicate(entities, run[r].remoteTxid, run[r].force)
                 /\ \A e \in run[r].todo : e \in entities \/ (e \in run'[r].todo /\ run'[r].state # "done")
<1>1. run \in [Runs -> RunType] /\ run[r] \in RunType
  BY DEF CInv, RunsAhead
<1>2. CASE ServerStep \/ UNCHANGED vars
  BY <1>2 DEF ServerStep, clientVars, vars
<1>3. CASE \E force \in ForceDownloads, multiple \in BOOLEAN,
              entities \in (SUBSET Entities) \ {{}} : Start(r, force, multiple, entities)
  BY <1>3 DEF Start
<1>4. CASE UpdateSingleTx(r)
  <2>1. CASE Replicate(run[r].todo, run[r].remoteTxid, run[r].force)
    <3>1. run[r].state = "updating" /\ UNCHANGED serverVars
      BY <1>4 DEF UpdateSingleTx
    <3>2. run[r].todo \in SUBSET Entities
      BY <1>1 DEF RunType
    <3> QED BY <2>1, <3>1, <3>2
  <2>2. CASE run' = [run EXCEPT ![r].state = "failed"] /\ UNCHANGED <<copy, localTxid, localChanges>>
    BY <1>1, <2>2 DEF RunType
  <2> QED BY <1>4, <2>1, <2>2 DEF UpdateSingleTx
<1>5. ASSUME NEW f \in Entities, UpdateMultipleTx(r, f)
      PROVE  /\ run[r].state = "updating" /\ UNCHANGED serverVars
             /\ Replicate({f}, run[r].remoteTxid, run[r].force)
             /\ \A e \in run[r].todo : e = f \/ (e \in run'[r].todo /\ run'[r].state # "done")
  <2>1. /\ run[r].state = "updating" /\ UNCHANGED serverVars
        /\ Replicate({f}, run[r].remoteTxid, run[r].force)
        /\ run' = [run EXCEPT ![r].todo = run[r].todo \ {f},
                              ![r].state = IF run[r].todo = {f} THEN "done" ELSE "updating"]
    BY <1>5 DEF UpdateMultipleTx
  <2>2. /\ run'[r].todo = run[r].todo \ {f}
        /\ run'[r].state = IF run[r].todo = {f} THEN "done" ELSE "updating"
    BY <1>1, <2>1 DEF RunType
  <2> QED BY <2>1, <2>2
<1>6. CASE Fail(r)
  BY <1>1, <1>6 DEF Fail, RunType
<1>7. CASE \E f \in Entities : UpdateMultipleTx(r, f)
  <2>1. PICK f \in Entities : UpdateMultipleTx(r, f)
    BY <1>7
  <2>2. {f} \in SUBSET Entities /\ \A e \in run[r].todo : e = f => e \in {f}
    OBVIOUS
  <2> QED BY <1>5, <2>1, <2>2
<1>8. \/ ServerStep \/ UNCHANGED vars
      \/ \E force \in ForceDownloads, multiple \in BOOLEAN,
           entities \in (SUBSET Entities) \ {{}} : Start(r, force, multiple, entities)
      \/ UpdateSingleTx(r) \/ (\E f \in Entities : UpdateMultipleTx(r, f)) \/ Fail(r)
  BY DEF Next
<1> QED BY <1>2, <1>3, <1>4, <1>6, <1>7, <1>8

-----------------------------------------------------------------------------
\* Commands that run one after the other

\* The invariant of server and client holds as long as commands run one after
\* the other.
THEOREM ClientInvHolds ==
  ASSUME \A r, s \in Runs : r = s
  PROVE  Spec => []CInv
<1>1. CInv /\ [Next]_vars => CInv'
  <2> SUFFICES ASSUME CInv, [Next]_vars PROVE CInv'
    OBVIOUS
  <2>1. CASE ServerStep \/ UNCHANGED vars
    BY <2>1, ServerStepInv DEF ServerStep, vars
  <2>2. ASSUME NEW r \in Runs,
               \/ \E force \in ForceDownloads, multiple \in BOOLEAN,
                    entities \in (SUBSET Entities) \ {{}} : Start(r, force, multiple, entities)
               \/ UpdateSingleTx(r)
               \/ \E e \in Entities : UpdateMultipleTx(r, e)
               \/ Fail(r)
        PROVE  CInv'
    BY <2>2, ClientStepInv
  <2> QED BY <2>1, <2>2 DEF Next
<1> QED BY <1>1, ClientInitInv, PTL DEF Spec

\* As long as commands run one after the other, the copy of an entity is the
\* snapshot of the last transaction recorded for it: however commands are
\* killed, forced, restricted to some entities or split into transactions. As
\* in CopyIsSnapshot, this is about the columns that no hook rewrites (all but
\* ændret).
THEOREM CopyStaysSnapshot ==
  ASSUME \A r, s \in Runs : r = s
  PROVE  Spec => []CopyIsSnapshot
<1>1. CInv => CopyIsSnapshot
  BY DEF CInv
<1> QED BY <1>1, ClientInvHolds, PTL

\* As long as commands run one after the other, an entity that a command is
\* through with is at the transaction the command works towards, in the columns
\* that no hook rewrites (all but ændret).
THEOREM CommandsReach ==
  ASSUME \A r, s \in Runs : r = s
  PROVE  Spec => RunsReachTheirTransaction
<1> DEFINE Reaches == \A r \in Runs, e \in Entities : ReachesTransaction(r, e)
<1>1. CInv /\ [Next]_vars => [Reaches]_vars
  <2> SUFFICES ASSUME CInv, [Next]_vars, NEW r \in Runs, NEW e \in Entities,
                      run[r].state = "updating", e \in run[r].todo,
                      e \notin run'[r].todo \/ run'[r].state = "done"
               PROVE  copy'[e] = udtraek(e, run[r].remoteTxid)
    BY DEF ReachesTransaction
  <2>1. PICK entities \in SUBSET Entities :
          /\ Replicate(entities, run[r].remoteTxid, run[r].force)
          /\ e \in entities
          /\ UNCHANGED serverVars
    BY StepOfCommand
  <2>2. /\ run[r].remoteTxid \in 1..lastTxid
        /\ \A f \in Entities : \A t \in sourceTransactions[f] : t <= run[r].remoteTxid
    BY DEF CInv, RunsAhead
  <2> QED BY <2>1, <2>2, ReplicateBrings
<1> QED BY <1>1, ClientInvHolds, PTL DEF Spec, RunsReachTheirTransaction

\* The local transactions are numbered, and no change is ahead of them.
LocalInPast ==
  /\ localTxid \in Nat
  /\ \A e \in Entities : \A c \in localChanges[e] : c.txid \in Nat /\ c.txid <= localTxid

\* One local transaction over some entities.
LEMMA ReplicateFits ==
  ASSUME CInv, LocalInPast, NEW r \in Runs, run[r].state = "updating",
         NEW entities \in SUBSET Entities,
         Replicate(entities, run[r].remoteTxid, run[r].force)
  PROVE  LocalInPast' /\ \A e \in Entities : NewChangesFit(e)
<1> DEFINE txid == localTxid + 1
           R == run[r].remoteTxid
           E(e) == entityChanges(txid, e, R, run[r].force)
           after(e) == updatedCopy(txid, e, R, run[r].force)
<1>1. localTxid' = txid
  BY DEF Replicate
<1>2. \A e \in Entities :
        /\ copy'[e] = IF e \in entities THEN after(e) ELSE copy[e]
        /\ localChanges'[e] = IF e \in entities THEN localChanges[e] \cup E(e) ELSE localChanges[e]
  BY DEF Replicate
<1>3. ASSUME NEW e \in Entities
      PROVE  IF hasContent(e) THEN Tell(E(e), txid, copy[e], after(e)) ELSE E(e) = {}
  <2>1. R \in 1..lastTxid /\ \A t \in sourceTransactions[e] : t <= R
    BY DEF CInv, RunsAhead
  <2> QED BY <2>1, EntityChangesFit
<1>4. txid \in Nat /\ localTxid < txid /\ localTxid \in Nat
  BY DEF LocalInPast
<1> HIDE DEF txid, R, E, after
<1>5. \A e \in Entities : \A c \in E(e) : c.txid = txid
  BY <1>3 DEF Tell
<1>6. LocalInPast'
  <2>1. ASSUME NEW e \in Entities, NEW c \in localChanges'[e]
        PROVE  c.txid \in Nat /\ c.txid <= txid
    <3>1. CASE c \in localChanges[e]
      <4>1. c.txid \in Nat /\ c.txid <= localTxid
        BY <3>1 DEF LocalInPast
      <4> QED BY <1>4, <4>1
    <3>2. CASE c \in E(e)
      BY <1>4, <1>5, <3>2
    <3> QED BY <1>2, <2>1, <3>1, <3>2
  <2> QED BY <1>1, <1>4, <2>1 DEF LocalInPast
<1>7. ASSUME NEW e \in Entities PROVE NewChangesFit(e)
  <2>1. CASE e \notin entities
    BY <1>2, <2>1 DEF NewChangesFit
  <2>2. CASE e \in entities
    <3>1. \A c \in localChanges[e] : c.txid # txid
      BY <1>4 DEF LocalInPast
    <3>2. localChanges'[e] \ localChanges[e] = E(e)
      BY <1>2, <1>5, <2>2, <3>1
    <3>3. copy'[e] = after(e)
      BY <1>2, <2>2
    <3> QED BY <1>1, <1>3, <3>2, <3>3 DEF NewChangesFit, Tell
  <2> QED BY <2>1, <2>2
<1> QED BY <1>6, <1>7

\* As long as commands run one after the other, the local change tables say of
\* every local transaction what it did: one change per object, the operation
\* and the row that fit, and a change for every row that changed, unless the
\* table was empty and loaded for the first time.
THEOREM ChangesStayFit ==
  ASSUME \A r, s \in Runs : r = s
  PROVE  Spec => LocalChangesFit
<1> DEFINE AllFit == \A e \in Entities : NewChangesFit(e)
<1>1. Init => LocalInPast
  BY DEF Init, ClientInit, LocalInPast
<1>2. CInv /\ LocalInPast /\ [Next]_vars => LocalInPast' /\ AllFit
  <2> SUFFICES ASSUME CInv, LocalInPast, [Next]_vars PROVE LocalInPast' /\ AllFit
    OBVIOUS
  <2>1. ASSUME UNCHANGED <<copy, localTxid, localChanges>> PROVE LocalInPast' /\ AllFit
    <3>1. LocalInPast'
      BY <2>1 DEF LocalInPast
    <3>2. ASSUME NEW e \in Entities PROVE NewChangesFit(e)
      BY <2>1 DEF NewChangesFit
    <3> QED BY <3>1, <3>2
  <2>2. CASE Runs = {}
    BY <2>1, <2>2 DEF Next, ServerStep, clientVars, vars
  <2>3. ASSUME NEW r \in Runs PROVE LocalInPast' /\ AllFit
    BY <2>1, <2>3, StepOfCommand, ReplicateFits
  <2> QED BY <2>2, <2>3
<1>3. CInv /\ LocalInPast /\ [Next]_vars => [AllFit]_vars
  BY <1>2
<1> QED BY <1>1, <1>2, <1>3, ClientInvHolds, PTL DEF Spec, LocalChangesFit
==============================================================================
