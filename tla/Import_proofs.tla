---------------------------- MODULE Import_proofs ----------------------------
(***************************************************************************)
(* Proofs about the two ways data come into the database.                  *)
(*                                                                         *)
(* DarImport: for any entities, rows and lengths of DAR's log and any      *)
(* options of the daemon, what is imported is a prefix of the log.         *)
(*                                                                         *)
(* ChangeColumns: for any keys, rows, geometries and number of imports,    *)
(* however they fail, the change table and the table keep every geometry.  *)
(***************************************************************************)
EXTENDS DarImport, ChangeColumns, SequenceTheorems, WellFoundedInduction, TLAPS

(***************************************************************************)
(* DarImport                                                               *)
(***************************************************************************)
-----------------------------------------------------------------------------
\* greatest

LEMMA GreatestExists ==
  ASSUME NEW N \in Nat, NEW S, S \subseteq 0..N, S # {}
  PROVE  \E x \in S : \A y \in S : x >= y
<1> DEFINE less == OpToRel(<, Nat)
           T == {N - y : y \in S}
<1>1. \A x, y \in Nat : x < y => <<x, y>> \in less
  BY DEF OpToRel
<1>0. \A y \in S : y \in Nat /\ y <= N /\ N - y \in Nat
  OBVIOUS
<1>2. T \subseteq Nat /\ T # {}
  <2>1. T \subseteq Nat
    BY <1>0
  <2>2. PICK y \in S : TRUE
    OBVIOUS
  <2>3. N - y \in T
    OBVIOUS
  <2> QED BY <2>1, <2>3
<1>3. PICK t \in T : \A u \in T : ~ (<<u, t>> \in less)
  BY <1>2, NatLessThanWellFounded, WFMin
<1> HIDE DEF less
<1>4. PICK x \in S : t = N - x
  OBVIOUS
<1>5. ASSUME NEW y \in S PROVE x >= y
  <2>1. N - y \in T
    OBVIOUS
  <2>2. ~ (N - y < t)
    BY <1>1, <1>2, <1>3, <2>1
  <2>3. x \in Nat /\ y \in Nat /\ x <= N /\ y <= N
    BY <1>0
  <2> QED BY <1>4, <2>2, <2>3
<1> QED BY <1>5

LEMMA GreatestOf ==
  ASSUME NEW N \in Nat, NEW S, S \subseteq 0..N
  PROVE  /\ greatest(S) \in 0..N
         /\ \A y \in S : y <= greatest(S)
         /\ S # {} => greatest(S) \in S
<1>1. CASE S = {}
  BY <1>1 DEF greatest
<1>2. CASE S # {}
  <2>1. greatest(S) = CHOOSE x \in S : \A y \in S : x >= y
    BY <1>2 DEF greatest
  <2>2. greatest(S) \in S /\ \A y \in S : greatest(S) >= y
    BY <1>2, <2>1, GreatestExists
  <2> QED BY <2>2
<1> QED BY <1>1, <1>2

LEMMA GreatestIs ==
  ASSUME NEW N \in Nat, NEW S, S \subseteq 0..N, NEW x \in S, \A y \in S : y <= x
  PROVE  greatest(S) = x
<1>1. greatest(S) \in S /\ x <= greatest(S) /\ greatest(S) <= x
  BY GreatestOf
<1>0. \A y \in S : y \in Nat
  OBVIOUS
<1>2. greatest(S) \in Nat /\ x \in Nat
  BY <1>0, <1>1
<1> QED BY <1>1, <1>2

EndsWith(C, B) == B \subseteq C /\ \A x \in C : x \in B \/ \A y \in B : x < y

\* What comes later decides.
LEMMA GreatestGrows ==
  ASSUME NEW N \in Nat, NEW C, NEW B, C \subseteq 0..N, B # {}, EndsWith(C, B)
  PROVE  greatest(C) = greatest(B)
<1>0. /\ \A y \in C : y \in Nat
      /\ B \subseteq 0..N
  BY DEF EndsWith
<1>1. greatest(B) \in B /\ \A y \in B : y <= greatest(B)
  BY <1>0, GreatestOf
<1>2. ASSUME NEW y \in C PROVE y <= greatest(B)
  <2>1. y \in Nat /\ greatest(B) \in Nat
    BY <1>0, <1>1 DEF EndsWith
  <2>2. CASE y \notin B
    <3>1. y < greatest(B)
      BY <1>1, <2>2 DEF EndsWith
    <3> QED BY <2>1, <3>1
  <2> QED BY <1>1, <2>2
<1>3. greatest(B) \in C
  BY <1>1 DEF EndsWith
<1> QED BY <1>2, <1>3, GreatestIs

LEMMA GreatestWithZero ==
  ASSUME NEW N \in Nat, NEW X, NEW B, B \subseteq 1..N, B \subseteq X, X \subseteq B \cup {0}
  PROVE  /\ B = {} => greatest(X) = 0
         /\ B # {} => greatest(X) = greatest(B) /\ greatest(X) # 0
<1>1. CASE B = {}
  <2>1. X \subseteq 0..0
    BY <1>1
  <2>2. greatest(X) \in 0..0
    BY <2>1, GreatestOf
  <2> QED BY <1>1, <2>2
<1>2. CASE B # {}
  <2>0. B \subseteq 0..N
    OBVIOUS
  <2>1. greatest(B) \in B /\ \A y \in B : y <= greatest(B)
    BY <1>2, <2>0, GreatestOf
  <2>2. greatest(X) = greatest(B)
    <3>1. ASSUME NEW y \in X PROVE y <= greatest(B)
      <4>1. y \in B \/ y = 0
        OBVIOUS
      <4>2. greatest(B) \in 1..N
        BY <2>1
      <4> QED BY <2>1, <4>1, <4>2
    <3>2. X \subseteq 0..N
      OBVIOUS
    <3> QED BY <2>1, <3>1, <3>2, GreatestIs
  <2>3. greatest(B) # 0
    BY <2>1
  <2> QED BY <1>2, <2>2, <2>3
<1> QED BY <1>1, <1>2

-----------------------------------------------------------------------------
\* The log, and what notifications tell of it

Records == [tx : Nat, entitet : Entities, rowkey : Rowkeys, operation : {"opret", "opdater"}]
Entries == [error : BOOLEAN, events : SUBSET [entitet : Entities, eventid : Nat]]

\* The events after the first c, up to p.
Notified(c, p) == {[entitet |-> events[i].entitet, eventid |-> i] : i \in (c + 1)..p}

LEMMA WhatIsNotified ==
  ASSUME NEW c, NEW p
  PROVE  /\ {r.eventid : r \in Notified(c, p)} = (c + 1)..p
         /\ {r.entitet : r \in Notified(c, p)} = {events[i].entitet : i \in (c + 1)..p}
         /\ \A e : {r.eventid : r \in {r \in Notified(c, p) : r.entitet = e}}
                   = {i \in (c + 1)..p : events[i].entitet = e}
<1> DEFINE I == (c + 1)..p
           f(i) == [entitet |-> events[i].entitet, eventid |-> i]
<1>1. Notified(c, p) = {f(i) : i \in I}
  BY DEF Notified
<1>2. \A i : f(i).eventid = i /\ f(i).entitet = events[i].entitet
  OBVIOUS
<1> HIDE DEF I, f
<1>3. {r.eventid : r \in Notified(c, p)} = I
  <2>1. \A x \in I : f(x) \in Notified(c, p)
    BY <1>1
  <2>2. \A r \in Notified(c, p) : r.eventid \in I
    BY <1>1, <1>2
  <2> QED BY <1>2, <2>1, <2>2
<1>4. {r.entitet : r \in Notified(c, p)} = {events[i].entitet : i \in I}
  <2>1. \A x \in I : f(x) \in Notified(c, p)
    BY <1>1
  <2>2. \A r \in Notified(c, p) : \E i \in I : r.entitet = events[i].entitet
    BY <1>1, <1>2
  <2> QED BY <1>2, <2>1, <2>2
<1>5. ASSUME NEW e
      PROVE  {r.eventid : r \in {r \in Notified(c, p) : r.entitet = e}} = {i \in I : events[i].entitet = e}
  <2> DEFINE S == {r \in Notified(c, p) : r.entitet = e}
             T == {i \in I : events[i].entitet = e}
  <2>1. \A x \in T : f(x) \in S
    BY <1>1, <1>2
  <2>2. \A r \in S : r.eventid \in T
    BY <1>1, <1>2
  <2> HIDE DEF S, T
  <2>3. {r.eventid : r \in S} = T
    BY <1>2, <2>1, <2>2
  <2> QED BY <2>3 DEF S, T
<1> QED BY <1>3, <1>4, <1>5 DEF I

OpEvents(n, e, k, operation) ==
  {i \in 1..n : events[i].entitet = e /\ events[i].rowkey = k /\ events[i].operation = operation}

LEMMA RowAtIs ==
  ASSUME NEW n, NEW e, NEW k
  PROVE  RowAt(n, e, k) = [eventopret |-> greatest(OpEvents(n, e, k, "opret")),
                           eventopdater |-> greatest(OpEvents(n, e, k, "opdater"))]
BY DEF RowAt, OpEvents

LEMMA LogTypes ==
  ASSUME events \in Seq(Records), NEW i \in 1..Len(events)
  PROVE  /\ events[i] \in Records
         /\ events[i].entitet \in Entities /\ events[i].rowkey \in Rowkeys
         /\ events[i].operation \in {"opret", "opdater"} /\ events[i].tx \in Nat
<1>1. events[i] \in Records
  OBVIOUS
<1> QED BY <1>1 DEF Records

LEMMA OpEventsBounded ==
  ASSUME NEW n \in Nat, NEW e, NEW k, NEW operation
  PROVE  /\ OpEvents(n, e, k, operation) \subseteq 0..n
         /\ greatest(OpEvents(n, e, k, operation)) \in 0..n
         /\ \A i \in OpEvents(n, e, k, operation) : i <= greatest(OpEvents(n, e, k, operation))
<1>1. OpEvents(n, e, k, operation) \subseteq 0..n
  BY DEF OpEvents
<1> QED BY <1>1, GreatestOf

\* An event among the first n leaves its number in its row.
LEMMA EventIsInRow ==
  ASSUME events \in Seq(Records), NEW n \in 0..Len(events), IsPrefix(n), NEW i \in 1..n
  PROVE  LET row == raw[events[i].entitet][events[i].rowkey]
         IN  i <= row.eventopret \/ i <= row.eventopdater
<1> DEFINE e == events[i].entitet
           k == events[i].rowkey
<1>1. e \in Entities /\ k \in Rowkeys /\ events[i].operation \in {"opret", "opdater"}
  BY LogTypes
<1>2. raw[e][k] = RowAt(n, e, k)
  BY <1>1 DEF IsPrefix
<1>3. i \in OpEvents(n, e, k, events[i].operation)
  BY DEF OpEvents
<1>4. i <= greatest(OpEvents(n, e, k, events[i].operation))
  BY <1>3, OpEventsBounded
<1>5. i <= RowAt(n, e, k).eventopret \/ i <= RowAt(n, e, k).eventopdater
  BY <1>1, <1>4, RowAtIs
<1> QED BY <1>2, <1>5

LEMMA RowsAreBounded ==
  ASSUME NEW n \in Nat, IsPrefix(n), NEW e \in Entities, NEW k \in Rowkeys
  PROVE  raw[e][k].eventopret \in 0..n /\ raw[e][k].eventopdater \in 0..n
BY RowAtIs, OpEventsBounded DEF IsPrefix

LEMMA PrefixIsUnique ==
  ASSUME events \in Seq(Records), NEW n \in 0..Len(events), NEW m \in 0..Len(events),
         IsPrefix(n), IsPrefix(m)
  PROVE  n = m
<1>1. ASSUME NEW a \in 0..Len(events), NEW b \in 0..Len(events), IsPrefix(a), IsPrefix(b)
      PROVE  ~ (a < b)
  <2> SUFFICES ASSUME a < b PROVE FALSE
    OBVIOUS
  <2>1. b \in 1..b /\ b \in 1..Len(events)
    OBVIOUS
  <2> DEFINE row == raw[events[b].entitet][events[b].rowkey]
  <2>2. b <= row.eventopret \/ b <= row.eventopdater
    BY <1>1, <2>1, EventIsInRow
  <2>3. events[b].entitet \in Entities /\ events[b].rowkey \in Rowkeys
    BY <2>1, LogTypes
  <2>4. row.eventopret \in 0..a /\ row.eventopdater \in 0..a
    BY <1>1, <2>3, RowsAreBounded
  <2> QED BY <2>2, <2>4
<1> QED BY <1>1

-----------------------------------------------------------------------------
\* An import

Later(n, m) == IF n <= m THEN m ELSE n

LaterEvents(n, m, e, k, operation) ==
  {i \in (n + 1)..m : events[i].entitet = e /\ events[i].rowkey = k /\ events[i].operation = operation}

\* eventIds names what takes the tables from the first n events to the first m.
BringsUpTo(eventIds, n, m) ==
  /\ \A e \in DOMAIN eventIds : eventIds[e] \in 0..m
  /\ \A i \in (n + 1)..m :
       events[i].entitet \in DOMAIN eventIds /\ i <= eventIds[events[i].entitet]

LEMMA SplitEvents ==
  ASSUME NEW n \in Nat, NEW m \in Nat, NEW e, NEW k, NEW operation
  PROVE  OpEvents(Later(n, m), e, k, operation)
           = OpEvents(n, e, k, operation) \cup LaterEvents(n, m, e, k, operation)
BY DEF OpEvents, LaterEvents, Later

\* One column of one row: what was fetched, or what was there.
LEMMA ColumnOfRow ==
  ASSUME NEW n \in Nat, NEW m \in Nat, NEW e, NEW k, NEW operation, NEW X,
         LaterEvents(n, m, e, k, operation) \subseteq X,
         X \subseteq LaterEvents(n, m, e, k, operation) \cup {0}
  PROVE  (IF greatest(X) # 0 THEN greatest(X) ELSE greatest(OpEvents(n, e, k, operation)))
           = greatest(OpEvents(Later(n, m), e, k, operation))
<1> DEFINE A == OpEvents(n, e, k, operation)
           B == LaterEvents(n, m, e, k, operation)
<1>1. B \subseteq 1..m /\ B \subseteq 0..(n + m) /\ A \subseteq 0..(n + m)
  BY DEF OpEvents, LaterEvents
<1>2. EndsWith(OpEvents(Later(n, m), e, k, operation), B)
  BY DEF OpEvents, LaterEvents, Later, EndsWith
<1>3. OpEvents(Later(n, m), e, k, operation) = A \cup B
  BY SplitEvents
<1>4. n + m \in Nat /\ B \subseteq X /\ X \subseteq B \cup {0}
  OBVIOUS
<1> DEFINE N == n + m
<1> HIDE DEF A, B, N
<1>5. CASE B = {}
  <2>1. greatest(X) = 0
    BY <1>1, <1>4, <1>5, GreatestWithZero
  <2>2. A \cup B = A
    BY <1>5
  <2>3. greatest(A) = greatest(A \cup B)
    BY <2>2
  <2> QED BY <1>3, <2>1, <2>3 DEF A
<1>6. CASE B # {}
  <2>1. greatest(X) = greatest(B) /\ greatest(X) # 0
    BY <1>1, <1>4, <1>6, GreatestWithZero
  <2>2. N \in Nat /\ OpEvents(Later(n, m), e, k, operation) \subseteq 0..N
    BY <1>1, <1>3, <1>4 DEF N
  <2>3. greatest(OpEvents(Later(n, m), e, k, operation)) = greatest(B)
    BY <1>2, <1>6, <2>2, GreatestGrows
  <2> QED BY <2>1, <2>3
<1> QED BY <1>5, <1>6

LEMMA CurrentEventIdIs ==
  ASSUME events \in Seq(Records), NEW n \in 0..Len(events), IsPrefix(n), NEW e \in Entities
  PROVE  /\ getCurrentEventId(e) \in 0..n
         /\ \A i \in 1..n : events[i].entitet = e => i <= getCurrentEventId(e)
<1> DEFINE S == {raw[e][k].eventopret : k \in Rowkeys} \cup {raw[e][k].eventopdater : k \in Rowkeys}
<1>1. S \subseteq 0..n
  <2>1. \A k \in Rowkeys : raw[e][k].eventopret \in 0..n /\ raw[e][k].eventopdater \in 0..n
    BY RowsAreBounded
  <2> QED BY <2>1
<1>2. greatest(S) \in 0..n /\ \A y \in S : y <= greatest(S)
  BY <1>1, GreatestOf
<1>3. ASSUME NEW i \in 1..n, events[i].entitet = e PROVE i <= greatest(S)
  <2> DEFINE k == events[i].rowkey
  <2>1. k \in Rowkeys
    BY LogTypes
  <2>2. i <= raw[e][k].eventopret \/ i <= raw[e][k].eventopdater
    BY <1>3, EventIsInRow
  <2>3. raw[e][k].eventopret \in S /\ raw[e][k].eventopdater \in S
    BY <2>1
  <2>4. raw[e][k].eventopret <= greatest(S) /\ raw[e][k].eventopdater <= greatest(S)
    BY <1>2, <2>3
  <2>5. raw[e][k].eventopret \in Nat /\ raw[e][k].eventopdater \in Nat /\ greatest(S) \in Nat
    BY <2>1, <1>2, RowsAreBounded
  <2> HIDE DEF S
  <2> QED BY <2>2, <2>4, <2>5
<1> QED BY <1>2, <1>3 DEF getCurrentEventId

\* The record that tells of one event.
RecordOf(i) ==
  [rowkey |-> events[i].rowkey,
   eventopret |-> IF events[i].operation = "opret" THEN i ELSE 0,
   eventopdater |-> IF events[i].operation = "opdater" THEN i ELSE 0]

EventsOf(n, m, e) == {i \in (n + 1)..m : events[i].entitet = e}

\* The range fetched for an entity is exactly what it misses.
LEMMA RangeFetched ==
  ASSUME events \in Seq(Records), NEW n \in 0..Len(events), IsPrefix(n),
         NEW m \in 0..Len(events), NEW eventIds, BringsUpTo(eventIds, n, m),
         NEW e \in Entities, e \in DOMAIN eventIds
  PROVE  getRecordsForEntity(getCurrentEventId(e) + 1, eventIds[e], e)
           = {RecordOf(i) : i \in EventsOf(n, m, e)}
<1> DEFINE from == getCurrentEventId(e)
           J == {j \in 1..Len(events) : from + 1 <= j /\ j <= eventIds[e] /\ events[j].entitet = e}
<1>1. from \in 0..n /\ \A i \in 1..n : events[i].entitet = e => i <= from
  BY CurrentEventIdIs
<1>2. eventIds[e] \in 0..m /\ \A i \in (n + 1)..m : events[i].entitet = e => i <= eventIds[e]
  BY DEF BringsUpTo
<1> HIDE DEF from
<1>3. J = EventsOf(n, m, e)
  BY <1>1, <1>2 DEF EventsOf
<1>4. getRecordsForEntity(from + 1, eventIds[e], e) = {RecordOf(i) : i \in J}
  BY DEF getRecordsForEntity, RecordOf
<1> QED BY <1>3, <1>4 DEF from

\* What the fetched records make of a row.
LEMMA RowImported ==
  ASSUME events \in Seq(Records), NEW n \in 0..Len(events), IsPrefix(n),
         NEW m \in 0..Len(events), NEW e \in Entities, NEW k \in Rowkeys
  PROVE  importChangeset({RecordOf(i) : i \in EventsOf(n, m, e)}, raw[e])[k]
           = RowAt(Later(n, m), e, k)
<1> DEFINE rows == {RecordOf(i) : i \in EventsOf(n, m, e)}
           J == {i \in EventsOf(n, m, e) : events[i].rowkey = k}
           O == {IF events[i].operation = "opret" THEN i ELSE 0 : i \in J}
           P == {IF events[i].operation = "opdater" THEN i ELSE 0 : i \in J}
<1>1. RowsOf(rows, k) = {RecordOf(i) : i \in J}
  BY DEF RowsOf, RecordOf
<1>2. {r.eventopret : r \in RowsOf(rows, k)} = O /\ {r.eventopdater : r \in RowsOf(rows, k)} = P
  <2>1. \A i \in J : /\ RecordOf(i).eventopret = (IF events[i].operation = "opret" THEN i ELSE 0)
                    /\ RecordOf(i).eventopdater = (IF events[i].operation = "opdater" THEN i ELSE 0)
    BY DEF RecordOf
  <2> HIDE DEF J
  <2>2. O = {RecordOf(i).eventopret : i \in J} /\ P = {RecordOf(i).eventopdater : i \in J}
    BY <2>1
  <2> HIDE DEF O, P
  <2>3. \A S : S = {RecordOf(i) : i \in J} =>
          /\ {r.eventopret : r \in S} = {RecordOf(i).eventopret : i \in J}
          /\ {r.eventopdater : r \in S} = {RecordOf(i).eventopdater : i \in J}
    OBVIOUS
  <2> QED BY <1>1, <2>2, <2>3
<1>3. /\ LaterEvents(n, m, e, k, "opret") \subseteq O
      /\ O \subseteq LaterEvents(n, m, e, k, "opret") \cup {0}
  BY DEF LaterEvents, EventsOf
<1>4. /\ LaterEvents(n, m, e, k, "opdater") \subseteq P
      /\ P \subseteq LaterEvents(n, m, e, k, "opdater") \cup {0}
  BY DEF LaterEvents, EventsOf
<1>5. n \in Nat /\ m \in Nat
  OBVIOUS
<1>6. raw[e][k] = [eventopret |-> greatest(OpEvents(n, e, k, "opret")),
                   eventopdater |-> greatest(OpEvents(n, e, k, "opdater"))]
  BY RowAtIs DEF IsPrefix
<1> HIDE DEF rows, J, O, P
<1>7. /\ (IF greatest(O) # 0 THEN greatest(O) ELSE raw[e][k].eventopret)
           = greatest(OpEvents(Later(n, m), e, k, "opret"))
      /\ (IF greatest(P) # 0 THEN greatest(P) ELSE raw[e][k].eventopdater)
           = greatest(OpEvents(Later(n, m), e, k, "opdater"))
  BY <1>3, <1>4, <1>5, <1>6, ColumnOfRow
<1>8. CASE RowsOf(rows, k) = {}
  <2>1. O = {} /\ P = {}
    BY <1>2, <1>8
  <2>2. greatest(O) = 0 /\ greatest(P) = 0
    BY <2>1 DEF greatest
  <2>3. importChangeset(rows, raw[e])[k] = raw[e][k]
    BY <1>8 DEF importChangeset
  <2> QED BY <1>6, <1>7, <2>2, <2>3, RowAtIs DEF rows
<1>9. CASE RowsOf(rows, k) # {}
  <2>1. importChangeset(rows, raw[e])[k] = copyEventIds(mergeOpretUpdateRows(rows, k), raw[e][k])
    BY <1>9 DEF importChangeset
  <2>2. mergeOpretUpdateRows(rows, k) = [eventopret |-> greatest(O), eventopdater |-> greatest(P)]
    BY <1>2 DEF mergeOpretUpdateRows
  <2>3. importChangeset(rows, raw[e])[k]
          = [eventopret |-> IF greatest(O) # 0 THEN greatest(O) ELSE raw[e][k].eventopret,
             eventopdater |-> IF greatest(P) # 0 THEN greatest(P) ELSE raw[e][k].eventopdater]
    BY <2>1, <2>2 DEF copyEventIds
  <2>4. importChangeset(rows, raw[e])[k]
          = [eventopret |-> greatest(OpEvents(Later(n, m), e, k, "opret")),
             eventopdater |-> greatest(OpEvents(Later(n, m), e, k, "opdater"))]
    BY <1>7, <2>3
  <2> QED BY <2>4, RowAtIs DEF rows
<1> QED BY <1>8, <1>9

LEMMA ImportBrings ==
  ASSUME events \in Seq(Records), NEW n \in 0..Len(events), IsPrefix(n),
         NEW m \in 0..Len(events), NEW eventIds, BringsUpTo(eventIds, n, m)
  PROVE  \A e \in Entities, k \in Rowkeys :
           fetchAndImport(eventIds)[e][k] = RowAt(Later(n, m), e, k)
<1> SUFFICES ASSUME NEW e \in Entities, NEW k \in Rowkeys
             PROVE  fetchAndImport(eventIds)[e][k] = RowAt(Later(n, m), e, k)
  OBVIOUS
<1>1. importChangeset({RecordOf(i) : i \in EventsOf(n, m, e)}, raw[e])[k] = RowAt(Later(n, m), e, k)
  BY RowImported
<1>2. CASE e \in DOMAIN eventIds /\ eventIds[e] # getCurrentEventId(e)
  <2>1. fetchAndImport(eventIds)[e]
          = importChangeset(getRecordsForEntity(getCurrentEventId(e) + 1, eventIds[e], e), raw[e])
    BY <1>2 DEF fetchAndImport
  <2>2. getRecordsForEntity(getCurrentEventId(e) + 1, eventIds[e], e)
          = {RecordOf(i) : i \in EventsOf(n, m, e)}
    BY <1>2, RangeFetched
  <2> QED BY <1>1, <2>1, <2>2
<1>3. CASE ~ (e \in DOMAIN eventIds /\ eventIds[e] # getCurrentEventId(e))
  <2>1. EventsOf(n, m, e) = {}
    <3> SUFFICES ASSUME NEW i \in (n + 1)..m, events[i].entitet = e PROVE FALSE
      BY DEF EventsOf
    <3>1. e \in DOMAIN eventIds /\ i <= eventIds[e]
      BY DEF BringsUpTo
    <3>2. getCurrentEventId(e) \in 0..n
      BY CurrentEventIdIs
    <3> QED BY <1>3, <3>1, <3>2
  <2>2. importChangeset({RecordOf(i) : i \in EventsOf(n, m, e)}, raw[e])[k] = raw[e][k]
    BY <2>1 DEF importChangeset, RowsOf
  <2> QED BY <1>1, <1>3, <2>2 DEF fetchAndImport
<1> QED BY <1>2, <1>3

-----------------------------------------------------------------------------
\* The inductive invariant

Typed ==
  /\ TypeOK
  /\ events \in Seq(Records)
  /\ posted \in Seq(Entries)
  /\ channel \in Seq(Entries)

\* The socket and the daemon agree.
Phases ==
  /\ phase \in {"status", "sleeping", "stopped"} => socket = "none"
  /\ socket = "opening" => phase = "waiting" /\ mustUpdateAll /\ channel = <<>>
  /\ socket = "dead" => \E i \in 1..Len(channel) : channel[i].error
  /\ rollsBack => socket = "none"

\* b[i] is where the i-th posted notification begins: each tells of whole
\* transactions, and the next one takes up where it ends.
Queued(b) ==
  /\ b \in [1..Len(posted) + 1 -> 0..Len(events)]
  /\ b[Len(posted) + 1] = Len(events)
  /\ \A i \in 1..Len(posted) + 1 : EndsTransaction(b[i])
  /\ \A i \in 1..Len(posted) :
       b[i] < b[i + 1] /\ posted[i] = [error |-> FALSE, events |-> Notified(b[i], b[i + 1])]

\* What was received is all that happened after the first c events, up to p.
Received(c, p) ==
  /\ c \in 0..p
  /\ received = Notified(c, p)
  /\ channel # <<>> => c < p
  /\ \A i \in 1..Len(channel) : ~ channel[i].error

Brings(n, m) == m \in 0..Len(events) /\ EndsTransaction(m) /\ BringsUpTo(remoteEventIds, n, m)

\* The import under way takes the tables, that hold the first n events, to the
\* first m, and what was received takes up there, or earlier.
Imports(n, p) ==
  \E m : Brings(n, m) /\ (socket = "open" => \E c : Received(c, p) /\ (c <= n \/ c <= m))

\* What was received takes up where the tables are, or earlier, unless the next
\* import is of all entities.
Waits(n, p) == socket = "open" => \E c : Received(c, p) /\ (mustUpdateAll \/ c <= n)

State(n, b) ==
  /\ n \in 0..Len(events) /\ EndsTransaction(n) /\ IsPrefix(n)
  /\ Queued(b)
  /\ phase = "importing" => Imports(n, b[1])
  /\ phase = "waiting" => Waits(n, b[1])

IInv == Typed /\ Phases /\ \E n, b : State(n, b)

-----------------------------------------------------------------------------
\* Where the log does not change

LEMMA SameTables ==
  ASSUME NEW n, UNCHANGED <<events, raw>>, n \in 0..Len(events), EndsTransaction(n), IsPrefix(n)
  PROVE  n \in 0..Len(events)' /\ EndsTransaction(n)' /\ IsPrefix(n)'
<1>1. n \in 0..Len(events)' /\ EndsTransaction(n)'
  BY DEF EndsTransaction
<1>2. IsPrefix(n)'
  BY DEF IsPrefix, RowAt
<1> QED BY <1>1, <1>2

LEMMA SameQueue ==
  ASSUME NEW b, UNCHANGED <<events, posted>>, Queued(b)
  PROVE  Queued(b)'
BY DEF Queued, Notified, EndsTransaction

LEMMA SameReceived ==
  ASSUME NEW c, NEW p, UNCHANGED <<events, channel>>, Received(c, p)
  PROVE  Received(c, p)'
BY DEF Received, received, Notified

LEMMA SameImport ==
  ASSUME NEW n, NEW m, UNCHANGED <<events, remoteEventIds>>, Brings(n, m)
  PROVE  Brings(n, m)'
BY DEF Brings, BringsUpTo, EndsTransaction

LEMMA StartHolds == Init => IInv
<1> SUFFICES ASSUME Init PROVE IInv
  OBVIOUS
<1> USE DarAssumption
<1>1. Typed
  <2>1. IsLog(events) /\ Len(events) = 0
    BY DEF Init, IsLog
  <2>2. raw \in [Entities -> [Rowkeys -> Row]]
    BY DEF Init, Row, NullRow
  <2>3. DOMAIN remoteEventIds = {}
    BY DEF Init
  <2>4. events \in Seq(Records) /\ posted \in Seq(Entries) /\ channel \in Seq(Entries)
    BY DEF Init
  <2>5. 0 <= MaxEvents
    OBVIOUS
  <2>6. /\ options \in Options /\ phase = "status" /\ socket = "none" /\ mustUpdateAll \in BOOLEAN
    BY DEF Init
  <2> QED BY <2>1, <2>2, <2>3, <2>4, <2>5, <2>6 DEF Typed, TypeOK
<1>2. Phases
  BY DEF Init, Phases
<1> DEFINE b == [i \in 1..1 |-> 0]
<1>3. IsPrefix(0)
  <2>1. \A e, k, operation : OpEvents(0, e, k, operation) = {}
    BY DEF OpEvents
  <2>2. \A e, k, operation : greatest(OpEvents(0, e, k, operation)) = 0
    BY <2>1 DEF greatest
  <2> QED BY <2>2, RowAtIs DEF IsPrefix, Init, NullRow
<1>4. Queued(b)
  BY DEF Init, Queued, EndsTransaction
<1>5. State(0, b)
  BY <1>3, <1>4 DEF State, Init, EndsTransaction
<1> QED BY <1>1, <1>2, <1>5 DEF IInv

\* The daemon is in no import and does not listen.
LEMMA IdleHolds ==
  ASSUME IInv, Typed', UNCHANGED <<events, posted, raw>>,
         socket' = "none", phase' \in {"status", "sleeping", "stopped"}
  PROVE  IInv'
<1> SUFFICES ASSUME NEW n, NEW b, State(n, b) PROVE IInv'
  BY DEF IInv
<1>1. Phases'
  BY DEF Phases
<1>2. State(n, b)'
  BY SameTables, SameQueue DEF State
<1> QED BY <1>1, <1>2 DEF IInv

LEMMA LeaveLoopHolds ==
  ASSUME IInv, LeaveLoop \/ WakeUp \/ Crash
  PROVE  IInv'
<1>1. UNCHANGED <<events, posted, raw>> /\ socket' = "none" /\ phase' \in {"status", "sleeping", "stopped"}
  BY DEF LeaveLoop, WakeUp, Crash, IInv, Phases, darVars
<1>2. Typed'
  <2>1. <<>> \in Seq(Entries) /\ DOMAIN <<>> = {}
    OBVIOUS
  <2> QED BY <1>1, <2>1 DEF LeaveLoop, WakeUp, Crash, IInv, Typed, TypeOK, darVars
<1> QED BY <1>1, <1>2, IdleHolds

LEMMA GetStatusHolds ==
  ASSUME IInv, GetStatus
  PROVE  IInv'
<1> SUFFICES ASSUME NEW n, NEW b, State(n, b) PROVE IInv'
  BY DEF IInv
<1> DEFINE last(e) == greatest({i \in 1..Len(events) : events[i].entitet = e})
<1>0. Len(events) \in Nat /\ events \in Seq(Records)
  BY DEF IInv, Typed
<1>1. \A e : last(e) \in 0..Len(events) /\ \A i \in 1..Len(events) : events[i].entitet = e => i <= last(e)
  <2> SUFFICES ASSUME NEW e
               PROVE  last(e) \in 0..Len(events)
                      /\ \A i \in 1..Len(events) : events[i].entitet = e => i <= last(e)
    OBVIOUS
  <2> DEFINE S == {i \in 1..Len(events) : events[i].entitet = e}
  <2>1. S \subseteq 0..Len(events)
    OBVIOUS
  <2>2. greatest(S) \in 0..Len(events) /\ \A y \in S : y <= greatest(S)
    BY <1>0, <2>1, GreatestOf
  <2> QED BY <2>2
<1>2. remoteEventIds' = [e \in Entities |-> last(e)]
  BY DEF GetStatus, getEventStatus
<1> HIDE DEF last
<1>3. /\ UNCHANGED <<events, posted, raw, options, channel, mustUpdateAll, socket>>
      /\ phase' = "importing" /\ socket = "none"
  BY DEF GetStatus, darVars, IInv, Phases
<1>4. Typed'
  BY <1>1, <1>2, <1>3 DEF IInv, Typed, TypeOK
<1>5. Phases'
  BY <1>3 DEF Phases
<1>6. Brings(n, Len(events))'
  <2>1. Len(events)' = Len(events) /\ n \in 0..Len(events)
    BY <1>3 DEF State
  <2>2. \A i \in (n + 1)..Len(events) : events[i].entitet \in Entities /\ i <= last(events[i].entitet)
    BY <1>0, <1>1, <2>1, LogTypes
  <2>3. BringsUpTo(remoteEventIds, n, Len(events))'
    BY <1>1, <1>2, <1>3, <2>1, <2>2 DEF BringsUpTo
  <2> QED BY <1>0, <2>1, <2>3 DEF Brings, EndsTransaction
<1>7. Imports(n, b[1])'
  BY <1>3, <1>6 DEF Imports
<1>8. State(n, b)'
  BY <1>3, <1>7, SameTables, SameQueue DEF State
<1> QED BY <1>4, <1>5, <1>8 DEF IInv

LEMMA TakeAvailableHolds ==
  ASSUME IInv, TakeAvailable
  PROVE  IInv'
<1> SUFFICES ASSUME ~ \E i \in DOMAIN channel : channel[i].error PROVE IInv'
  BY LeaveLoopHolds DEF TakeAvailable
<1> SUFFICES ASSUME NEW n, NEW b, State(n, b) PROVE IInv'
  BY DEF IInv
<1>0. channel \in Seq(Entries) /\ events \in Seq(Records) /\ Len(events) \in Nat
  BY DEF IInv, Typed
<1>1. /\ phase = "waiting" /\ phase' = "importing"
      /\ remoteEventIds' = IF mustUpdateAll THEN allUpToLast ELSE notifiedEventIds
      /\ channel' = <<>> /\ channel # <<>>
      /\ UNCHANGED <<options, events, posted, raw, mustUpdateAll, socket>>
  BY DEF TakeAvailable, darVars
<1>2. socket = "open"
  <2>1. socket \in {"opening", "open", "dead"}
    BY <1>1 DEF IInv, Typed, TypeOK
  <2>2. DOMAIN channel = 1..Len(channel)
    BY <1>0
  <2> QED BY <1>1, <2>1, <2>2 DEF IInv, Phases
<1> DEFINE p == b[1]
<1>3. PICK c : Received(c, p) /\ (mustUpdateAll \/ c <= n)
  BY <1>1, <1>2 DEF State, Waits
<1>4. p \in 0..Len(events) /\ EndsTransaction(p)
  <2>1. Len(posted) \in Nat
    BY DEF IInv, Typed
  <2>2. 1 \in 1..Len(posted) + 1
    BY <2>1
  <2> QED BY <2>2 DEF State, Queued
<1>5. c \in 0..p /\ c < p /\ received = Notified(c, p)
  BY <1>1, <1>3 DEF Received
<1>6. n \in 0..Len(events)
  BY DEF State
<1> HIDE DEF p
<1>7. BringsUpTo(remoteEventIds', n, p) /\ DOMAIN remoteEventIds' \subseteq Entities
  <2>1. CASE mustUpdateAll
    <3>1. {r.eventid : r \in received} = (c + 1)..p
      BY <1>5, WhatIsNotified
    <3>2. greatest((c + 1)..p) = p
      <4>1. (c + 1)..p \subseteq 0..p /\ p \in (c + 1)..p /\ p \in Nat /\ \A y \in (c + 1)..p : y <= p
        BY <1>4, <1>5
      <4> QED BY <4>1, GreatestIs
    <3>3. remoteEventIds' = [e \in Entities |-> p]
      BY <1>1, <2>1, <3>1, <3>2 DEF allUpToLast
    <3>4. \A i \in (n + 1)..p : events[i].entitet \in Entities /\ i <= p
      BY <1>0, <1>4, <1>6, LogTypes
    <3> QED BY <1>4, <3>3, <3>4 DEF BringsUpTo
  <2>2. CASE ~ mustUpdateAll
    <3> DEFINE mine(e) == {i \in (c + 1)..p : events[i].entitet = e}
               named == {events[i].entitet : i \in (c + 1)..p}
    <3>1. {r.entitet : r \in received} = named
      BY <1>5, WhatIsNotified
    <3>2. \A e : {r.eventid : r \in {r \in received : r.entitet = e}} = mine(e)
      <4>1. \A e : {r.eventid : r \in {r \in Notified(c, p) : r.entitet = e}} = mine(e)
        BY WhatIsNotified
      <4> HIDE DEF mine
      <4> QED BY <1>5, <4>1
    <3>3. \A e : greatest(mine(e)) \in 0..p /\ \A i \in mine(e) : i <= greatest(mine(e))
      <4> SUFFICES ASSUME NEW e
                   PROVE  greatest(mine(e)) \in 0..p /\ \A i \in mine(e) : i <= greatest(mine(e))
        OBVIOUS
      <4>1. mine(e) \subseteq 0..p /\ p \in Nat
        BY <1>4, <1>5
      <4> HIDE DEF mine
      <4> QED BY <4>1, GreatestOf
    <3>4. remoteEventIds' = [e \in named |-> greatest(mine(e))]
      BY <1>1, <2>2, <3>1, <3>2 DEF notifiedEventIds
    <3>5. \A i \in (n + 1)..p : events[i].entitet \in named /\ i \in mine(events[i].entitet)
      BY <1>3, <1>5, <1>6, <2>2
    <3>6. named \subseteq Entities
      BY <1>0, <1>4, <1>5, LogTypes
    <3> HIDE DEF mine, named
    <3>7. \A i \in (n + 1)..p : i <= greatest(mine(events[i].entitet))
      BY <3>3, <3>5
    <3> QED BY <3>3, <3>4, <3>5, <3>6, <3>7 DEF BringsUpTo
  <2> QED BY <2>1, <2>2
<1>8. Brings(n, p)'
  BY <1>1, <1>4, <1>7 DEF Brings, BringsUpTo, EndsTransaction
<1>9. Received(p, p)'
  <2>1. Len(channel') = 0 /\ DOMAIN channel' = {}
    BY <1>1
  <2>2. received' = {}
    BY <2>1 DEF received
  <2>3. Notified(p, p)' = {} /\ p \in 0..p
    BY <1>4 DEF Notified
  <2> QED BY <1>1, <2>1, <2>2, <2>3 DEF Received
<1>10. Typed'
  <2>1. <<>> \in Seq(Entries)
    OBVIOUS
  <2>2. \A e \in DOMAIN remoteEventIds' : remoteEventIds'[e] \in 0..Len(events)
    BY <1>4, <1>7 DEF BringsUpTo
  <2> QED BY <1>1, <1>7, <2>1, <2>2 DEF IInv, Typed, TypeOK
<1>11. Phases'
  BY <1>1, <1>2 DEF IInv, Phases, rollsBack
<1>12. Imports(n, p)'
  BY <1>4, <1>8, <1>9 DEF Imports
<1>13. State(n, b)'
  BY <1>1, <1>12, SameTables, SameQueue DEF State, p
<1> QED BY <1>10, <1>11, <1>13 DEF IInv

LEMMA SocketOpensHolds ==
  ASSUME IInv, SocketOpens
  PROVE  IInv'
<1> SUFFICES ASSUME NEW n, NEW b, State(n, b) PROVE IInv'
  BY DEF IInv
<1>1. /\ phase = "waiting" /\ mustUpdateAll /\ channel = <<>> /\ socket' = "open"
      /\ UNCHANGED <<options, events, posted, raw, phase, remoteEventIds, mustUpdateAll, channel>>
  BY DEF SocketOpens, IInv, Phases, darVars, loopVars
<1>2. Typed'
  BY <1>1 DEF IInv, Typed, TypeOK
<1>3. Phases'
  BY <1>1 DEF SocketOpens, IInv, Phases, rollsBack
<1>4. b[1] \in 0..Len(events)
  <2>1. 1 \in 1..Len(posted) + 1
    BY DEF IInv, Typed
  <2> QED BY <2>1 DEF State, Queued
<1>5. Received(b[1], b[1])'
  <2>1. Len(channel') = 0 /\ DOMAIN channel' = {}
    BY <1>1
  <2>2. received' = {}
    BY <2>1 DEF received
  <2>3. Notified(b[1], b[1])' = {} /\ b[1] \in 0..b[1]
    BY <1>4 DEF Notified
  <2> QED BY <1>1, <2>1, <2>2, <2>3 DEF Received
<1>6. State(n, b)'
  BY <1>1, <1>5, SameTables, SameQueue DEF State, Waits
<1> QED BY <1>2, <1>3, <1>6 DEF IInv

LEMMA SocketDiesHolds ==
  ASSUME IInv, SocketDies
  PROVE  IInv'
<1> SUFFICES ASSUME NEW n, NEW b, State(n, b) PROVE IInv'
  BY DEF IInv
<1>1. /\ socket \in {"opening", "open"} /\ socket' = "dead" /\ channel' = Append(channel, Failure)
      /\ UNCHANGED <<options, events, posted, raw, phase, remoteEventIds, mustUpdateAll>>
  BY DEF SocketDies, darVars, loopVars
<1>2. Failure \in Entries /\ channel \in Seq(Entries)
  BY DEF Failure, Entries, IInv, Typed
<1>3. /\ channel' \in Seq(Entries)
      /\ Len(channel') \in 1..Len(channel') /\ channel'[Len(channel')] = Failure
  BY <1>1, <1>2
<1>4. Typed'
  BY <1>1, <1>3 DEF IInv, Typed, TypeOK
<1>5. Phases'
  BY <1>1, <1>3 DEF IInv, Phases, Failure, rollsBack
<1>6. (phase = "importing" => Imports(n, b[1]))'
  BY <1>1, SameImport DEF State, Imports
<1>7. State(n, b)'
  BY <1>1, <1>6, SameTables, SameQueue DEF State, Waits
<1> QED BY <1>4, <1>5, <1>7 DEF IInv

LEMMA HandleNotificationHolds ==
  ASSUME IInv, HandleNotification
  PROVE  IInv'
<1> SUFFICES ASSUME NEW n, NEW b, State(n, b) PROVE IInv'
  BY DEF IInv
<1>1. /\ posted # <<>> /\ posted' = Tail(posted)
      /\ channel' = IF socket = "open" THEN Append(channel, Head(posted)) ELSE channel
      /\ UNCHANGED <<options, events, raw, phase, remoteEventIds, mustUpdateAll, socket>>
  BY DEF HandleNotification, loopVars
<1>2. posted \in Seq(Entries) /\ channel \in Seq(Entries)
  BY DEF IInv, Typed
<1>3. /\ Len(posted) \in Nat \ {0} /\ Len(posted') = Len(posted) - 1
      /\ Head(posted) = posted[1] /\ posted' \in Seq(Entries)
      /\ \A i \in 1..Len(posted') : posted'[i] = posted[i + 1]
  BY <1>1, <1>2
<1>4. /\ b \in [1..Len(posted) + 1 -> 0..Len(events)]
      /\ b[Len(posted) + 1] = Len(events)
      /\ \A i \in 1..Len(posted) + 1 : EndsTransaction(b[i])
      /\ \A i \in 1..Len(posted) :
           b[i] < b[i + 1] /\ posted[i] = [error |-> FALSE, events |-> Notified(b[i], b[i + 1])]
  BY DEF State, Queued
<1> DEFINE p == b[1]
           q == b[2]
<1>d. PICK d : d = [i \in 1..Len(posted) |-> b[i + 1]]
  OBVIOUS
<1>5. /\ p \in 0..Len(events) /\ q \in 0..Len(events) /\ p < q
      /\ posted[1] = [error |-> FALSE, events |-> Notified(p, q)]
  <2>1. /\ 1 \in 1..Len(posted) /\ 1 + 1 = 2
        /\ 1 \in 1..Len(posted) + 1 /\ 2 \in 1..Len(posted) + 1
    BY <1>3
  <2>2. p \in 0..Len(events) /\ q \in 0..Len(events)
    BY <1>4, <2>1
  <2>3. b[1] < b[2] /\ posted[1] = [error |-> FALSE, events |-> Notified(b[1], b[2])]
    BY <1>4, <2>1
  <2> QED BY <2>2, <2>3
<1>6. Queued(d)'
  <2>1. \A i \in 1..Len(posted) : d[i] = b[i + 1] /\ i + 1 \in 1..Len(posted) + 1
    BY <1>3, <1>d
  <2>2. d \in [1..Len(posted') + 1 -> 0..Len(events)] /\ d[Len(posted') + 1] = Len(events)
    BY <1>3, <1>4, <1>d, <2>1
  <2>3. \A i \in 1..Len(posted') + 1 : EndsTransaction(d[i])
    BY <1>3, <1>4, <2>1
  <2>4. ASSUME NEW i \in 1..Len(posted')
        PROVE  d[i] < d[i + 1] /\ posted'[i] = [error |-> FALSE, events |-> Notified(d[i], d[i + 1])]
    <3>1. i + 1 \in 1..Len(posted) /\ i \in 1..Len(posted)
      BY <1>3
    <3>2. d[i] = b[i + 1] /\ d[i + 1] = b[(i + 1) + 1]
      BY <2>1, <3>1
    <3>3. /\ b[i + 1] < b[(i + 1) + 1]
          /\ posted[i + 1] = [error |-> FALSE, events |-> Notified(b[i + 1], b[(i + 1) + 1])]
      BY <1>4, <3>1
    <3> QED BY <1>3, <3>2, <3>3
  <2>5. \A x : EndsTransaction(x)' <=> EndsTransaction(x)
    BY <1>1 DEF EndsTransaction
  <2>6. \A x, y : Notified(x, y)' = Notified(x, y)
    BY <1>1 DEF Notified
  <2>7. Len(posted)' = Len(posted') /\ Len(events)' = Len(events)
    BY <1>1
  <2> QED BY <2>2, <2>3, <2>4, <2>5, <2>6, <2>7 DEF Queued
<1>7. Typed'
  BY <1>1, <1>2, <1>3 DEF IInv, Typed, TypeOK
<1>8. Phases'
  <2>1. CASE socket = "open"
    BY <1>1, <2>1 DEF IInv, Phases, rollsBack
  <2>2. CASE socket # "open"
    BY <1>1, <2>2 DEF IInv, Phases, rollsBack
  <2> QED BY <2>1, <2>2
<1>9. d[1] = q
  BY <1>3, <1>d
<1> HIDE DEF p, q
<1>10. ASSUME NEW c, Received(c, p), socket = "open" PROVE Received(c, q)'
  <2>1. /\ c \in 0..p /\ received = Notified(c, p)
        /\ \A i \in 1..Len(channel) : ~ channel[i].error
    BY <1>10 DEF Received
  <2>2. /\ Len(channel) \in Nat /\ Len(channel') = Len(channel) + 1
        /\ DOMAIN channel = 1..Len(channel) /\ DOMAIN channel' = 1..Len(channel) + 1
        /\ \A i \in 1..Len(channel) : channel'[i] = channel[i]
        /\ channel'[Len(channel) + 1] = posted[1]
    BY <1>1, <1>2, <1>3, <1>10
  <2>3. received' = received \cup posted[1].events
    <3>1. \A x : x \in received' => x \in received \/ x \in posted[1].events
      BY <2>2 DEF received
    <3>2. \A x : x \in received \/ x \in posted[1].events => x \in received'
      BY <2>2 DEF received
    <3> QED BY <3>1, <3>2
  <2>4. Notified(c, p) \cup Notified(p, q) = Notified(c, q)
    <3>1. (c + 1)..q = (c + 1)..p \cup (p + 1)..q
      BY <1>5, <2>1
    <3> QED BY <3>1 DEF Notified
  <2>5. received' = Notified(c, q)'
    BY <1>1, <1>5, <2>1, <2>3, <2>4 DEF Notified
  <2>6. \A i \in 1..Len(channel') : ~ channel'[i].error
    BY <1>5, <2>1, <2>2
  <2>7. c \in 0..q /\ c < q
    BY <1>5, <2>1
  <2> QED BY <2>5, <2>6, <2>7 DEF Received
<1>11. State(n, d)'
  <2>1. phase = "importing" => Imports(n, q)'
    <3> SUFFICES ASSUME phase = "importing" PROVE Imports(n, q)'
      OBVIOUS
    <3>1. PICK m : Brings(n, m) /\ (socket = "open" => \E c : Received(c, p) /\ (c <= n \/ c <= m))
      BY DEF State, Imports, p
    <3>2. Brings(n, m)'
      BY <1>1, <3>1, SameImport
    <3> QED BY <1>1, <1>10, <3>1, <3>2 DEF Imports
  <2>2. phase = "waiting" => Waits(n, q)'
    BY <1>1, <1>10 DEF State, Waits, p
  <2> QED BY <1>1, <1>6, <1>9, <2>1, <2>2, SameTables DEF State
<1> QED BY <1>7, <1>8, <1>11 DEF IInv

\* What the import under way makes of the tables.
LEMMA ImportStep ==
  ASSUME IInv, ImportIncrementally, NEW n, NEW b, State(n, b), NEW m, Brings(n, m)
  PROVE  /\ raw' \in [Entities -> [Rowkeys -> Row]]
         /\ \E r : /\ (rollsBack => r = n) /\ (~ rollsBack => r = Later(n, m))
                  /\ r \in 0..Len(events)' /\ EndsTransaction(r)' /\ IsPrefix(r)'
<1>1. UNCHANGED events /\ raw' = IF rollsBack THEN raw ELSE fetchAndImport(remoteEventIds)
  BY DEF ImportIncrementally, darVars
<1>2. /\ events \in Seq(Records) /\ raw \in [Entities -> [Rowkeys -> Row]]
      /\ Len(events) \in Nat /\ Len(events) <= MaxEvents
  BY DEF IInv, Typed, TypeOK
<1>3. n \in 0..Len(events) /\ EndsTransaction(n) /\ IsPrefix(n)
  BY DEF State
<1>4. m \in 0..Len(events) /\ EndsTransaction(m) /\ BringsUpTo(remoteEventIds, n, m)
  BY DEF Brings
<1>5. CASE rollsBack
  <2>1. UNCHANGED <<events, raw>>
    BY <1>1, <1>5
  <2>2. n \in 0..Len(events)' /\ EndsTransaction(n)' /\ IsPrefix(n)'
    BY <1>3, <2>1, SameTables
  <2>3. raw' \in [Entities -> [Rowkeys -> Row]]
    BY <1>2, <2>1
  <2> QED BY <1>5, <2>2, <2>3
<1>6. CASE ~ rollsBack
  <2> DEFINE r == Later(n, m)
  <2>1. r \in 0..Len(events) /\ EndsTransaction(r)
    BY <1>3, <1>4 DEF Later
  <2>2. \A e \in Entities, k \in Rowkeys : raw'[e][k] = RowAt(r, e, k)
    BY <1>1, <1>2, <1>3, <1>4, <1>6, ImportBrings
  <2>3. \A e \in Entities, k \in Rowkeys : RowAt(r, e, k) \in Row
    <3> SUFFICES ASSUME NEW e \in Entities, NEW k \in Rowkeys PROVE RowAt(r, e, k) \in Row
      OBVIOUS
    <3>1. r \in Nat /\ r <= MaxEvents /\ MaxEvents \in Nat
      BY <1>2, <2>1, DarAssumption
    <3>2. /\ greatest(OpEvents(r, e, k, "opret")) \in 0..r
          /\ greatest(OpEvents(r, e, k, "opdater")) \in 0..r
      BY <3>1, OpEventsBounded
    <3> HIDE DEF r
    <3>3. /\ greatest(OpEvents(r, e, k, "opret")) \in 0..MaxEvents
          /\ greatest(OpEvents(r, e, k, "opdater")) \in 0..MaxEvents
      BY <3>1, <3>2
    <3> QED BY <3>3, RowAtIs DEF Row
  <2> HIDE DEF r
  <2>4. raw' \in [Entities -> [Rowkeys -> Row]]
    <3>1. raw' = [e \in Entities |-> raw'[e]]
      BY <1>1, <1>6 DEF fetchAndImport
    <3>2. ASSUME NEW e \in Entities PROVE raw'[e] = [k \in Rowkeys |-> raw'[e][k]]
      <4>1. raw[e] = [k \in Rowkeys |-> raw[e][k]]
        BY <1>2
      <4>2. CASE e \in DOMAIN remoteEventIds /\ remoteEventIds[e] # getCurrentEventId(e)
        <5> DEFINE rows == getRecordsForEntity(getCurrentEventId(e) + 1, remoteEventIds[e], e)
        <5>1. raw'[e] = importChangeset(rows, raw[e])
          BY <1>1, <1>6, <4>2 DEF fetchAndImport
        <5> HIDE DEF rows
        <5> QED BY <5>1 DEF importChangeset
      <4>3. CASE ~ (e \in DOMAIN remoteEventIds /\ remoteEventIds[e] # getCurrentEventId(e))
        <5>1. raw'[e] = raw[e]
          BY <1>1, <1>6, <4>3 DEF fetchAndImport
        <5> QED BY <4>1, <5>1
      <4> QED BY <4>2, <4>3
    <3>3. \A e \in Entities : raw'[e] \in [Rowkeys -> Row]
      BY <2>2, <2>3, <3>2
    <3> QED BY <3>1, <3>3
  <2>5. r \in 0..Len(events)' /\ EndsTransaction(r)'
    BY <1>1, <2>1 DEF EndsTransaction
  <2>6. IsPrefix(r)'
    BY <1>1, <2>2 DEF IsPrefix, RowAt
  <2> QED BY <1>6, <2>4, <2>5, <2>6 DEF r
<1> QED BY <1>5, <1>6

LEMMA ImportIncrementallyHolds ==
  ASSUME IInv, ImportIncrementally
  PROVE  IInv'
<1> SUFFICES ASSUME NEW n, NEW b, State(n, b) PROVE IInv'
  BY DEF IInv
<1>1. /\ phase = "importing" /\ remoteEventIds' = <<>>
      /\ IF socket = "none" THEN AfterStatus ELSE AfterNotifications
      /\ UNCHANGED <<options, events, posted>>
  BY DEF ImportIncrementally, darVars
<1> DEFINE p == b[1]
<1>2. PICK m : Brings(n, m) /\ (socket = "open" => \E c : Received(c, p) /\ (c <= n \/ c <= m))
  BY <1>1 DEF State, Imports
<1>0. raw' \in [Entities -> [Rowkeys -> Row]]
  BY <1>2, ImportStep
<1>3. PICK r : /\ (rollsBack => r = n) /\ (~ rollsBack => r = Later(n, m))
               /\ r \in 0..Len(events)' /\ EndsTransaction(r)' /\ IsPrefix(r)'
  BY <1>2, ImportStep
<1>4. n \in Nat /\ m \in Nat
  BY <1>2 DEF State, Brings
<1>5. Queued(b)'
  BY <1>1, SameQueue DEF State
<1>6. socket \in {"none", "open", "dead"} /\ mustUpdateAll \in BOOLEAN
  BY <1>1 DEF IInv, Typed, TypeOK, Phases
<1>7. channel \in Seq(Entries) /\ <<>> \in Seq(Entries) /\ DOMAIN <<>> = {}
  BY DEF IInv, Typed
<1>8. CASE socket = "none"
  <2>1. AfterStatus
    BY <1>1, <1>8
  <2>2. \/ /\ phase' \in {"stopped", "sleeping"}
           /\ UNCHANGED <<socket, channel, mustUpdateAll>>
        \/ phase' = "waiting" /\ socket' = "opening" /\ channel' = <<>> /\ mustUpdateAll' = TRUE
    BY <2>1 DEF AfterStatus, UpdatesAllAtFirst
  <2>3. Typed'
    BY <1>0, <1>1, <1>6, <1>7, <1>8, <2>2 DEF IInv, Typed, TypeOK
  <2>4. Phases'
    BY <1>1, <1>8, <2>1, <2>2 DEF IInv, Phases, rollsBack, AfterStatus
  <2>5. State(r, b)'
    BY <1>3, <1>5, <1>8, <2>2 DEF State, Waits
  <2> QED BY <2>3, <2>4, <2>5 DEF IInv
<1>9. CASE socket # "none"
  <2>1. phase' = "waiting" /\ mustUpdateAll' = FALSE /\ UNCHANGED <<socket, channel>>
    BY <1>1, <1>9 DEF AfterNotifications
  <2>2. Typed'
    BY <1>0, <1>1, <1>6, <1>7, <1>9, <2>1 DEF IInv, Typed, TypeOK
  <2>3. Phases'
    BY <1>1, <1>6, <1>9, <2>1 DEF IInv, Phases, rollsBack
  <2>4. Waits(r, p)'
    <3> SUFFICES ASSUME socket = "open" PROVE \E c : Received(c, p)' /\ c <= r
      BY <2>1 DEF Waits
    <3>1. PICK c : Received(c, p) /\ (c <= n \/ c <= m)
      BY <1>2
    <3>2. ~ rollsBack
      BY <1>9 DEF IInv, Phases
    <3>3. c \in Nat
      BY <3>1 DEF Received
    <3>4. c <= r
      BY <1>3, <1>4, <3>1, <3>2, <3>3 DEF Later
    <3>5. Received(c, p)'
      BY <1>1, <2>1, <3>1, SameReceived
    <3> QED BY <3>4, <3>5
  <2>5. State(r, b)'
    BY <1>3, <1>5, <2>1, <2>4 DEF State
  <2> QED BY <2>2, <2>3, <2>5 DEF IInv
<1> QED BY <1>8, <1>9

\* What a longer log does not change.
LogGrows ==
  /\ Len(events) \in Nat /\ Len(events)' \in Nat /\ Len(events) < Len(events)'
  /\ \A i \in 1..Len(events) : events'[i] = events[i]
  /\ Len(events) > 0 => events'[Len(events)].tx # events'[Len(events) + 1].tx

LEMMA GrownTables ==
  ASSUME LogGrows, NEW n, n \in 0..Len(events)
  PROVE  /\ n \in 0..Len(events)'
         /\ EndsTransaction(n) => EndsTransaction(n)'
         /\ \A e, k : RowAt(n, e, k)' = RowAt(n, e, k)
<1>1. \A i \in 1..n : events'[i] = events[i]
  BY DEF LogGrows
<1>2. ASSUME EndsTransaction(n) PROVE EndsTransaction(n)'
  <2>1. CASE n = 0
    BY <2>1 DEF EndsTransaction
  <2>2. CASE n = Len(events) /\ n # 0
    BY <2>2 DEF EndsTransaction, LogGrows
  <2>3. CASE n # 0 /\ n # Len(events)
    <3>1. n \in 1..Len(events) /\ n + 1 \in 1..Len(events)
      BY <2>3 DEF LogGrows
    <3>2. events'[n] = events[n] /\ events'[n + 1] = events[n + 1]
      BY <3>1 DEF LogGrows
    <3> QED BY <1>2, <2>3, <3>2 DEF EndsTransaction
  <2> QED BY <2>1, <2>2, <2>3
<1>3. ASSUME NEW e, NEW k PROVE RowAt(n, e, k)' = RowAt(n, e, k)
  <2>1. \A operation : {i \in 1..n : events'[i].entitet = e /\ events'[i].rowkey = k /\ events'[i].operation = operation}
                       = OpEvents(n, e, k, operation)
    BY <1>1 DEF OpEvents
  <2>2. \A operation : OpEvents(n, e, k, operation)' = OpEvents(n, e, k, operation)
    BY <2>1 DEF OpEvents
  <2>3. RowAt(n, e, k)' = [eventopret |-> greatest(OpEvents(n, e, k, "opret")'),
                           eventopdater |-> greatest(OpEvents(n, e, k, "opdater")')]
    BY DEF RowAt, OpEvents
  <2> QED BY <2>2, <2>3, RowAtIs
<1>4. n \in 0..Len(events)'
  BY DEF LogGrows
<1> QED BY <1>2, <1>3, <1>4

LEMMA GrownNotified ==
  ASSUME LogGrows, NEW c \in Nat, NEW p, p \in 0..Len(events)
  PROVE  Notified(c, p)' = Notified(c, p)
<1>1. \A i \in (c + 1)..p : events'[i] = events[i]
  BY DEF LogGrows
<1> QED BY <1>1 DEF Notified

LEMMA CommitGrows ==
  ASSUME IInv, DarCommits, NEW from, from = Len(events), NEW to, to = Len(events)'
  PROVE  /\ LogGrows
         /\ events' \in Seq(Records) /\ IsLog(events') /\ Len(events') <= MaxEvents
         /\ posted' = Append(posted, [error |-> FALSE, events |-> Notified(from, to)'])
<1> SUFFICES ASSUME NEW q \in 1..MaxBatch, NEW batch \in [1..q -> Record(lastTx + 1)],
                    events' = events \o batch, Len(events \o batch) <= MaxEvents, IsLog(events \o batch),
                    posted' = Append(posted, Notification(Len(events), events \o batch))
             PROVE  /\ LogGrows
                    /\ events' \in Seq(Records) /\ IsLog(events') /\ Len(events') <= MaxEvents
                    /\ posted' = Append(posted, [error |-> FALSE, events |-> Notified(from, to)'])
  BY DEF DarCommits
<1>0. events \in Seq(Records) /\ Len(events) \in Nat
  BY DEF IInv, Typed
<1>1. lastTx \in Nat /\ (Len(events) > 0 => lastTx = events[Len(events)].tx)
  <2>1. CASE events = <<>>
    BY <2>1 DEF lastTx
  <2>2. CASE events # <<>>
    <3>1. Len(events) \in 1..Len(events)
      BY <1>0, <2>2
    <3>2. events[Len(events)].tx \in Nat
      BY <1>0, <3>1, LogTypes
    <3> QED BY <2>2, <3>2 DEF lastTx
  <2> QED BY <2>1, <2>2
<1>2. Record(lastTx + 1) \subseteq Records /\ \A r \in Record(lastTx + 1) : r.tx = lastTx + 1
  BY <1>1 DEF Record, Records
<1>3. q \in Nat /\ q >= 1
  BY DarAssumption
<1>4. batch \in Seq(Records) /\ Len(batch) = q /\ batch[1].tx = lastTx + 1
  <2>1. batch \in [1..q -> Records]
    BY <1>2
  <2>2. 1 \in 1..q
    BY <1>3
  <2> QED BY <1>2, <1>3, <2>1, <2>2
<1>5. /\ events' \in Seq(Records) /\ Len(events') = Len(events) + q
      /\ \A i \in 1..Len(events) : events'[i] = events[i]
      /\ events'[Len(events) + 1] = batch[1]
  <2>1. /\ Len(events \o batch) = Len(events) + q
        /\ \A i \in 1..Len(events) + q : (events \o batch)[i] =
              IF i <= Len(events) THEN events[i] ELSE batch[i - Len(events)]
        /\ events \o batch \in Seq(Records)
    BY <1>0, <1>4, ConcatProperties
  <2>2. Len(events) + 1 \in 1..Len(events) + q /\ ~ (Len(events) + 1 <= Len(events))
    BY <1>0, <1>3
  <2>3. (Len(events) + 1) - Len(events) = 1
    BY <1>0
  <2>4. events'[Len(events) + 1] = batch[1]
    BY <2>1, <2>2, <2>3
  <2> QED BY <1>0, <1>3, <2>1, <2>4
<1>6. LogGrows
  <2>1. Len(events)' = Len(events') /\ Len(events) < Len(events')
    BY <1>0, <1>3, <1>5
  <2>2. Len(events) > 0 => events'[Len(events)] = events[Len(events)]
    BY <1>0, <1>5
  <2>3. Len(events) > 0 => events'[Len(events)].tx # events'[Len(events) + 1].tx
    BY <1>1, <1>4, <1>5, <2>2
  <2> QED BY <1>0, <1>3, <1>5, <2>1, <2>3 DEF LogGrows
<1>7. Notification(from, events') = [error |-> FALSE, events |-> Notified(from, to)']
  BY DEF Notification, Notified
<1> QED BY <1>5, <1>6, <1>7

LEMMA DarCommitsHolds ==
  ASSUME IInv, DarCommits
  PROVE  IInv'
<1> SUFFICES ASSUME NEW n, NEW b, State(n, b) PROVE IInv'
  BY DEF IInv
<1>1. UNCHANGED <<options, raw, phase, remoteEventIds, mustUpdateAll, socket, channel>>
  BY DEF DarCommits, loopVars
<1>2. PICK from : from = Len(events)
  OBVIOUS
<1>3. PICK to : to = Len(events)'
  OBVIOUS
<1>4. /\ LogGrows
      /\ events' \in Seq(Records) /\ IsLog(events') /\ Len(events') <= MaxEvents
      /\ posted' = Append(posted, [error |-> FALSE, events |-> Notified(from, to)'])
  BY <1>2, <1>3, CommitGrows
<1>5. from \in Nat /\ to \in Nat /\ from < to
  BY <1>2, <1>3, <1>4 DEF LogGrows
<1>6. Typed'
  <2>1. Notified(from, to)' \in SUBSET [entitet : Entities, eventid : Nat]
    <3>1. \A i \in (from + 1)..to : events'[i].entitet \in Entities
      <4> SUFFICES ASSUME NEW i \in (from + 1)..to PROVE events'[i].entitet \in Entities
        OBVIOUS
      <4>1. i \in 1..Len(events')
        BY <1>3, <1>5
      <4>2. events'[i] \in Records
        BY <1>4, <4>1
      <4> QED BY <4>2 DEF Records
    <3>2. (from + 1)..to \subseteq Nat
      BY <1>5
    <3> QED BY <3>1, <3>2 DEF Notified
  <2>2. [error |-> FALSE, events |-> Notified(from, to)'] \in Entries
    BY <2>1 DEF Entries
  <2>3. posted' \in Seq(Entries)
    BY <1>4, <2>2 DEF IInv, Typed
  <2>4. \A e \in DOMAIN remoteEventIds : remoteEventIds[e] \in 0..Len(events')
    BY <1>2, <1>3, <1>5 DEF IInv, Typed, TypeOK
  <2> QED BY <1>1, <1>4, <2>3, <2>4 DEF IInv, Typed, TypeOK
<1>7. Phases'
  BY <1>1 DEF IInv, Phases, rollsBack
<1>8. /\ b \in [1..Len(posted) + 1 -> 0..from]
      /\ b[Len(posted) + 1] = from
      /\ \A i \in 1..Len(posted) + 1 : EndsTransaction(b[i])
      /\ \A i \in 1..Len(posted) :
           b[i] < b[i + 1] /\ posted[i] = [error |-> FALSE, events |-> Notified(b[i], b[i + 1])]
  BY <1>2 DEF State, Queued
<1>9. /\ Len(posted) \in Nat /\ Len(posted') = Len(posted) + 1
      /\ \A i \in 1..Len(posted) : posted'[i] = posted[i]
      /\ posted'[Len(posted) + 1] = [error |-> FALSE, events |-> Notified(from, to)']
  BY <1>4 DEF IInv, Typed
<1>10. PICK d : d = [i \in 1..Len(posted) + 2 |-> IF i <= Len(posted) + 1 THEN b[i] ELSE to]
  OBVIOUS
<1>11. /\ \A i \in 1..Len(posted) + 1 : d[i] = b[i] /\ b[i] \in 0..from
       /\ d[Len(posted) + 2] = to
  <2>1. \A i \in 1..Len(posted) + 1 : i \in 1..Len(posted) + 2 /\ i <= Len(posted) + 1
    BY <1>9
  <2>2. Len(posted) + 2 \in 1..Len(posted) + 2 /\ ~ (Len(posted) + 2 <= Len(posted) + 1)
    BY <1>9
  <2> QED BY <1>8, <1>10, <2>1, <2>2
<1>12. Queued(d)'
  <2>1. d \in [1..Len(posted') + 1 -> 0..Len(events')] /\ d[Len(posted') + 1] = Len(events')
    <3>1. Len(posted') + 1 = Len(posted) + 2 /\ Len(events') = to
      BY <1>3, <1>9
    <3>2. \A i \in 1..Len(posted) + 2 : d[i] \in 0..to
      <4> SUFFICES ASSUME NEW i \in 1..Len(posted) + 2 PROVE d[i] \in 0..to
        OBVIOUS
      <4>1. i \in 1..Len(posted) + 1 \/ i = Len(posted) + 2
        BY <1>9
      <4> QED BY <1>5, <1>11, <4>1
    <3> QED BY <1>10, <1>11, <3>1, <3>2
  <2>2. ASSUME NEW i \in 1..Len(posted') + 1 PROVE EndsTransaction(d[i])'
    <3>1. CASE i \in 1..Len(posted) + 1
      BY <1>2, <1>4, <1>8, <1>11, <3>1, GrownTables
    <3>2. CASE i = Len(posted) + 2
      BY <1>3, <1>11, <3>2 DEF EndsTransaction
    <3> QED BY <1>9, <3>1, <3>2
  <2>3. ASSUME NEW i \in 1..Len(posted')
        PROVE  d[i] < d[i + 1] /\ posted'[i] = [error |-> FALSE, events |-> Notified(d[i], d[i + 1])']
    <3>1. CASE i \in 1..Len(posted)
      <4>1. i \in 1..Len(posted) + 1 /\ i + 1 \in 1..Len(posted) + 1
        BY <1>9, <3>1
      <4>2. d[i] = b[i] /\ d[i + 1] = b[i + 1] /\ d[i] \in 0..from /\ d[i + 1] \in 0..from
        BY <1>11, <4>1
      <4>3. Notified(d[i], d[i + 1])' = Notified(d[i], d[i + 1])
        BY <1>2, <1>4, <4>2, GrownNotified
      <4> QED BY <1>8, <1>9, <3>1, <4>2, <4>3
    <3>2. CASE i = Len(posted) + 1
      <4>1. i \in 1..Len(posted) + 1 /\ i + 1 = Len(posted) + 2
        BY <1>9, <3>2
      <4>2. d[i] = from /\ d[i + 1] = to
        BY <1>8, <1>11, <3>2, <4>1
      <4> QED BY <1>5, <1>9, <3>2, <4>2
    <3> QED BY <1>9, <3>1, <3>2
  <2> QED BY <2>1, <2>2, <2>3 DEF Queued
<1>13. d[1] = b[1] /\ b[1] \in 0..Len(events)
  BY <1>2, <1>9, <1>11
<1>14. n \in 0..Len(events)' /\ EndsTransaction(n)' /\ IsPrefix(n)'
  <2>1. n \in 0..Len(events) /\ EndsTransaction(n) /\ IsPrefix(n)
    BY DEF State
  <2>2. /\ n \in 0..Len(events)' /\ EndsTransaction(n)'
        /\ \A e, k : RowAt(n, e, k)' = RowAt(n, e, k)
    BY <1>4, <2>1, GrownTables
  <2> QED BY <1>1, <2>1, <2>2 DEF IsPrefix
<1>15. ASSUME NEW c, Received(c, b[1]) PROVE Received(c, b[1])'
  <2>1. c \in Nat /\ c \in 0..b[1]
    BY <1>13, <1>15 DEF Received
  <2>2. Notified(c, b[1])' = Notified(c, b[1])
    BY <1>4, <1>13, <2>1, GrownNotified
  <2>3. received' = received
    BY <1>1 DEF received
  <2> QED BY <1>1, <1>15, <2>2, <2>3 DEF Received
<1>16. ASSUME NEW m, Brings(n, m) PROVE Brings(n, m)'
  <2>1. m \in 0..Len(events) /\ EndsTransaction(m) /\ BringsUpTo(remoteEventIds, n, m)
    BY <1>16 DEF Brings
  <2>2. m \in 0..Len(events)' /\ EndsTransaction(m)'
    BY <1>4, <2>1, GrownTables
  <2>3. \A i \in (n + 1)..m : events'[i] = events[i]
    BY <1>4, <2>1 DEF LogGrows, State
  <2>4. BringsUpTo(remoteEventIds, n, m)'
    BY <1>1, <2>1, <2>3 DEF BringsUpTo
  <2> QED BY <2>2, <2>4 DEF Brings
<1>17. (phase = "importing" => Imports(n, b[1]))' /\ (phase = "waiting" => Waits(n, b[1]))'
  BY <1>1, <1>15, <1>16 DEF State, Imports, Waits
<1>18. State(n, d)'
  BY <1>12, <1>13, <1>14, <1>17 DEF State
<1> QED BY <1>6, <1>7, <1>18 DEF IInv

LEMMA StutterHolds ==
  ASSUME IInv, UNCHANGED vars
  PROVE  IInv'
<1> SUFFICES ASSUME NEW n, NEW b, State(n, b) PROVE IInv'
  BY DEF IInv
<1>1. UNCHANGED <<options, events, posted, raw, phase, remoteEventIds, mustUpdateAll, socket, channel>>
  BY DEF vars, darVars, loopVars
<1>2. Typed' /\ Phases'
  BY <1>1 DEF IInv, Typed, TypeOK, Phases, rollsBack
<1>3. (phase = "importing" => Imports(n, b[1]))'
  BY <1>1, SameImport, SameReceived DEF State, Imports
<1>4. (phase = "waiting" => Waits(n, b[1]))'
  BY <1>1, SameReceived DEF State, Waits
<1>5. State(n, b)'
  BY <1>1, <1>3, <1>4, SameTables, SameQueue DEF State
<1> QED BY <1>2, <1>5 DEF IInv

-----------------------------------------------------------------------------
\* The theorems

LEMMA StepHolds == IInv /\ [Next]_vars => IInv'
<1> SUFFICES ASSUME IInv, [Next]_vars PROVE IInv'
  OBVIOUS
<1>1. CASE DarCommits
  BY <1>1, DarCommitsHolds
<1>2. CASE HandleNotification
  BY <1>2, HandleNotificationHolds
<1>3. CASE GetStatus
  BY <1>3, GetStatusHolds
<1>4. CASE ImportIncrementally
  BY <1>4, ImportIncrementallyHolds
<1>5. CASE ImportFails \/ WakeUp \/ Crash
  BY <1>5, LeaveLoopHolds DEF ImportFails
<1>6. CASE TakeAvailable
  BY <1>6, TakeAvailableHolds
<1>7. CASE SocketOpens
  BY <1>7, SocketOpensHolds
<1>8. CASE SocketDies
  BY <1>8, SocketDiesHolds
<1>9. CASE Stopped \/ UNCHANGED vars
  BY <1>9, StutterHolds DEF Stopped
<1> QED BY <1>1, <1>2, <1>3, <1>4, <1>5, <1>6, <1>7, <1>8, <1>9 DEF Next

\* What the daemon is about to import, what it has received and what is still
\* posted always take up where the raw tables stand.
THEOREM InvHolds == Spec => []IInv
<1> QED BY StartHolds, StepHolds, PTL DEF Spec

\* The state of DAR, of the daemon and of the socket keeps its type.
THEOREM TypeCorrect == Spec => []TypeOK
<1>1. IInv => TypeOK
  BY DEF IInv, Typed
<1> QED BY <1>1, InvHolds, PTL

\* For any entities, rows, transactions, notifications and failures the raw
\* tables hold what DAR held after one of its transactions.
THEOREM PrefixAlways == Spec => []LocalIsPrefix
<1>1. IInv => LocalIsPrefix
  BY DEF IInv, State, LocalIsPrefix
<1> QED BY <1>1, InvHolds, PTL

\* No step takes back what was imported.
THEOREM NeverBack == Spec => MovesForward
<1> DEFINE A == \A n \in 0..Len(events) : IsPrefix(n) => \E m \in n..Len(events)' : IsPrefix(m)'
<1>1. ASSUME IInv, [Next]_vars PROVE [A]_vars
  <2> SUFFICES ASSUME NEW n \in 0..Len(events), IsPrefix(n)
               PROVE  \E m \in n..Len(events)' : IsPrefix(m)'
    OBVIOUS
  <2>0. events \in Seq(Records) /\ Len(events) \in Nat /\ n \in Nat
    BY <1>1 DEF IInv, Typed
  <2>1. CASE DarCommits
    <3>1. LogGrows
      BY <1>1, <2>1, CommitGrows
    <3>2. n \in 0..Len(events)' /\ \A e, k : RowAt(n, e, k)' = RowAt(n, e, k)
      BY <3>1, GrownTables
    <3>3. IsPrefix(n)'
      BY <2>1, <3>2 DEF IsPrefix, DarCommits
    <3> QED BY <3>2, <3>3
  <2>2. CASE ImportIncrementally
    <3>1. PICK s, b : State(s, b)
      BY <1>1 DEF IInv
    <3>2. s = n
      BY <2>0, <3>1, PrefixIsUnique DEF State
    <3>3. PICK m : Brings(n, m)
      BY <2>2, <3>1, <3>2 DEF State, Imports, ImportIncrementally
    <3>4. PICK r : /\ (rollsBack => r = n) /\ (~ rollsBack => r = Later(n, m))
                   /\ r \in 0..Len(events)' /\ EndsTransaction(r)' /\ IsPrefix(r)'
      BY <1>1, <2>2, <3>1, <3>2, <3>3, ImportStep
    <3>5. n <= r
      BY <2>0, <3>3, <3>4 DEF Later, Brings
    <3> QED BY <2>0, <3>4, <3>5
  <2>3. CASE UNCHANGED <<events, raw>>
    <3>1. IsPrefix(n)'
      BY <2>3 DEF IsPrefix, RowAt
    <3> QED BY <2>0, <2>3, <3>1
  <2>4. DarCommits \/ ImportIncrementally \/ UNCHANGED <<events, raw>>
    BY <1>1 DEF Next, HandleNotification, GetStatus, ImportFails, LeaveLoop, TakeAvailable, WakeUp,
                Crash, SocketOpens, SocketDies, Stopped, vars, darVars
  <2> QED BY <2>1, <2>2, <2>3, <2>4
<1> QED BY <1>1, InvHolds, PTL DEF Spec, MovesForward

(***************************************************************************)
(* ChangeColumns                                                           *)
(***************************************************************************)
\* What GeometryOf, Tells and SourceAt say of given objects and sources.
GeometryIn(objects, c) ==
  IF c.blobref = NoRef THEN c.geom
  ELSE IF \E o \in objects : o.ref = c.blobref
       THEN (CHOOSE o \in objects : o.ref = c.blobref).geom
       ELSE Lost

TellsIn(objects, c, row) ==
  /\ row # NoRow
  /\ c.attr = row.attr /\ SameGeometry(GeometryIn(objects, c), row.geom)

SourceIn(sources, t) == IF t = 0 THEN [k \in Keys |-> NoRow] ELSE sources[t]

TimeOf(c) == IF c.operation = "delete" THEN c.txid - 1 ELSE c.txid

HasObject(objects, c) == c.blobref = NoRef \/ \E o \in objects : o.ref = c.blobref

OneEach(objects) == \A o, p \in objects : o.ref = p.ref => o = p

-----------------------------------------------------------------------------
\* The inductive invariant

Geoms == Geometries \cup {NoGeometry}
Operations == {"insert", "update", "delete"}
ChangeRows ==
  [txid : Times, operation : Operations, key : Keys, attr : Attributes, geom : Geoms,
   blobref : Refs \cup {NoRef}, geo_version : Nat,
   geo_changed : Times \cup {NoTime}, changed : Times \cup {NoTime}]

ColumnTypes ==
  /\ table \in [Keys -> TableRows \cup {NoRow}]
  /\ changes \subseteq ChangeRows /\ pending \subseteq ChangeRows
  /\ s3 \subseteq [ref : Refs, geom : Geometries]
  /\ imported \in Seq([Keys -> Rows \cup {NoRow}])
  /\ Len(imported) <= MaxTxid /\ (pending # {} => Len(imported) < MaxTxid)
  /\ attempts \in 0..MaxAttempts
  /\ source \in [Keys -> Rows \cup {NoRow}]

\* Every reference names one object, that of the row it was made for.
ObjectsOK ==
  /\ OneEach(s3)
  /\ \A o \in s3 : o.ref[1] <= attempts
  /\ \A c \in ToUpload, o \in s3 : o.ref = c.blobref => o.geom = c.geom

\* The table has the geometry as well, but for how it is written.
RowOK(objects, row) ==
  /\ HasObject(objects, row)
  /\ SameGeometry(GeometryIn(objects, row), row.geom)

TableOK == \A k \in Keys : table[k] # NoRow => RowOK(s3, table[k])

ChangesOK == \A c \in changes : HasObject(s3, c) /\ c.txid <= Len(imported)

\* A reference of a change is new, or that of a row of the same shape.
RefOK(c, old) ==
  \/ c.blobref = NoRef
  \/ c.blobref = <<attempts, c.key>> /\ c.geom \in Large
  \/ /\ c.operation # "insert" /\ c.blobref = old.blobref
     /\ c.blobref[1] < attempts /\ ~IsDistinct(c.geom, old.geom)

\* A change that waits to be committed: of the row old to the row new.
ChangeOK(c, old, new) ==
  /\ c.txid = txid
  /\ c.operation = "insert" <=> old = NoRow
  /\ c.operation = "delete" <=> new = NoRow
  /\ c.operation # "delete" =>
       /\ c.attr = new.attr /\ c.geom = new.geom
       /\ c.geo_changed \in Times /\ c.changed \in Times
  /\ c.operation = "delete" => c.attr = old.attr /\ c.geom = old.geom
  /\ c.operation = "update" =>
       /\ c.geo_version = geoVersion("update", old, c)
       /\ c.geo_changed = geoChanged("update", old, c)
  /\ c.operation = "delete" => c.geo_version = old.geo_version
  /\ RefOK(c, old)

NoDifference(old, new) ==
  \/ old = NoRow /\ new = NoRow
  \/ old # NoRow /\ new # NoRow /\ ~IsUpdated(old, new)

PendingOK ==
  /\ \A c, d \in pending : c.key = d.key => c = d
  /\ \A c \in pending : ChangeOK(c, table[c.key], source[c.key])
  /\ pending # {} =>
       \A k \in Keys : (\A c \in pending : c.key # k) => NoDifference(table[k], source[k])

ColumnsInv ==
  /\ ColumnTypes /\ ObjectsOK /\ TableOK /\ ChangesOK /\ PendingOK
  /\ GeometryIsKept /\ VersionsFollowGeometry /\ TableIsNewest

-----------------------------------------------------------------------------
\* Geometries

LEMMA SameIsEquivalence ==
  ASSUME NEW f, NEW g, NEW h
  PROVE  /\ SameGeometry(f, f)
         /\ SameGeometry(f, g) => SameGeometry(g, f)
         /\ SameGeometry(f, g) /\ SameGeometry(g, h) => SameGeometry(f, h)
BY DEF SameGeometry

\* An update that is no difference to the database keeps the shape.
LEMMA NotDistinctIsSame ==
  ASSUME NEW g \in Geoms, NEW h \in Geoms, ~IsDistinct(g, h)
  PROVE  SameGeometry(g, h)
BY DEF Geoms, IsDistinct, SameGeometry

LEMMA NotStEqualsIsOther ==
  ASSUME NEW g \in Geoms, NEW h \in Geoms, NoGeometry \notin {g, h}
  PROVE  NotStEquals(g, h) <=> ~SameGeometry(g, h)
BY DEF Geoms, NotStEquals, SameGeometry

LEMMA SameIsNone ==
  ASSUME NEW g, NEW h, SameGeometry(g, h), g = NoGeometry
  PROVE  h = NoGeometry
BY ChangeColumnsAssumption DEF SameGeometry

-----------------------------------------------------------------------------
\* Objects in S3

LEMMA GeometryIs ==
  ASSUME NEW objects, OneEach(objects), NEW c, NEW o \in objects,
         o.ref = c.blobref, c.blobref # NoRef
  PROVE  GeometryIn(objects, c) = o.geom
<1>1. \E p \in objects : p.ref = c.blobref
  OBVIOUS
<1>2. (CHOOSE p \in objects : p.ref = c.blobref) = o
  <2>1. PICK q : q = CHOOSE p \in objects : p.ref = c.blobref
    OBVIOUS
  <2>2. q \in objects /\ q.ref = c.blobref
    BY <1>1, <2>1
  <2> QED BY <2>1, <2>2 DEF OneEach
<1> QED BY <1>1, <1>2 DEF GeometryIn

LEMMA GeometryStays ==
  ASSUME NEW objects, NEW more, objects \subseteq more, OneEach(more),
         NEW c, HasObject(objects, c)
  PROVE  /\ HasObject(more, c)
         /\ GeometryIn(more, c) = GeometryIn(objects, c)
<1>1. CASE c.blobref = NoRef
  BY <1>1 DEF HasObject, GeometryIn
<1>2. CASE c.blobref # NoRef
  <2>1. PICK o \in objects : o.ref = c.blobref
    BY <1>2 DEF HasObject
  <2>2. OneEach(objects) /\ o \in more
    BY DEF OneEach
  <2> QED BY <1>2, <2>1, <2>2, GeometryIs DEF HasObject
<1> QED BY <1>1, <1>2

\* Two rows of the change table that say the same, but for a geometry that
\* is in S3 and for the time.
Alike(c, d) ==
  /\ c.txid = d.txid /\ c.operation = d.operation /\ c.key = d.key /\ c.attr = d.attr
  /\ c.blobref = d.blobref /\ c.geo_version = d.geo_version /\ c.geo_changed = d.geo_changed
  /\ c.blobref = NoRef => c.geom = d.geom

LEMMA AlikeGeometry ==
  ASSUME NEW objects, NEW c, NEW d, Alike(c, d)
  PROVE  /\ GeometryIn(objects, c) = GeometryIn(objects, d)
         /\ HasObject(objects, c) <=> HasObject(objects, d)
BY DEF Alike, GeometryIn, HasObject

LEMMA SetChangedAlike ==
  ASSUME NEW c \in ChangeRows, txid \in Times
  PROVE  SetChanged(c) \in ChangeRows /\ Alike(c, SetChanged(c))
BY DEF SetChanged, ChangeRows, Alike

LEMMA OffloadedAlike ==
  ASSUME NEW c \in ChangeRows
  PROVE  Offloaded(c) \in ChangeRows /\ Alike(c, Offloaded(c))
BY DEF Offloaded, ChangeRows, Alike, Geoms

-----------------------------------------------------------------------------
\* The properties, of a given table and given changes, objects and sources

AllTell(rows, chs, objects, sources) ==
  /\ \A c \in chs : TellsIn(objects, c, SourceIn(sources, TimeOf(c))[c.key])
  /\ \A k \in Keys : rows[k] = NoRow
       \/ TellsIn(objects, rows[k], SourceIn(sources, Len(sources))[k])

FollowsIn(chs, c, d) ==
  /\ c.key = d.key /\ c.txid < d.txid
  /\ \A e \in chs : e.key = c.key => e.txid <= c.txid \/ d.txid <= e.txid

\* d counts the change of the geometry from g to h since c.
Counts(c, d, g, h) ==
  NoGeometry \notin {g, h} =>
    IF SameGeometry(g, h)
    THEN d.geo_version = c.geo_version /\ d.geo_changed = c.geo_changed
    ELSE d.geo_version = c.geo_version + 1 /\ d.geo_changed = d.txid

AllCount(chs, objects) ==
  \A c, d \in chs :
    FollowsIn(chs, c, d) /\ d.operation = "update" =>
      Counts(c, d, GeometryIn(objects, c), GeometryIn(objects, d))

NewestIn(chs, k, c) == c.key = k /\ \A d \in chs : d.key = k => d.txid <= c.txid

Agrees(objects, row, c) ==
  /\ row.attr = c.attr /\ SameGeometry(GeometryIn(objects, row), GeometryIn(objects, c))
  /\ row.geo_version = c.geo_version /\ row.geo_changed = c.geo_changed
  /\ row.blobref = c.blobref

AllAgree(rows, chs, objects) ==
  \A k \in Keys, c \in chs :
    NewestIn(chs, k, c) =>
      IF c.operation = "delete" THEN rows[k] = NoRow
      ELSE rows[k] # NoRow /\ Agrees(objects, rows[k], c)

LEMMA PropertiesAre ==
  /\ GeometryIsKept <=> AllTell(table, changes, s3, imported)
  /\ VersionsFollowGeometry <=> AllCount(changes, s3)
  /\ TableIsNewest <=> AllAgree(table, changes, s3)
<1>1. GeometryIsKept <=> AllTell(table, changes, s3, imported)
  BY DEF GeometryIsKept, AllTell, Tells, TellsIn, GeometryOf, GeometryIn, SourceAt, SourceIn, TimeOf
<1>2. VersionsFollowGeometry <=> AllCount(changes, s3)
  BY DEF VersionsFollowGeometry, AllCount, Follows, FollowsIn, Counts, GeometryOf, GeometryIn
<1>3. TableIsNewest <=> AllAgree(table, changes, s3)
  BY DEF TableIsNewest, AllAgree, Newest, NewestIn, AgreesWith, Agrees, GeometryOf, GeometryIn
<1> QED BY <1>1, <1>2, <1>3

LEMMA PropertiesAreThen ==
  /\ GeometryIsKept' <=> AllTell(table', changes', s3', imported')
  /\ VersionsFollowGeometry' <=> AllCount(changes', s3')
  /\ TableIsNewest' <=> AllAgree(table', changes', s3')
<1>1. GeometryIsKept' <=> AllTell(table', changes', s3', imported')
  BY DEF GeometryIsKept, AllTell, Tells, TellsIn, GeometryOf, GeometryIn, SourceAt, SourceIn, TimeOf
<1>2. VersionsFollowGeometry' <=> AllCount(changes', s3')
  BY DEF VersionsFollowGeometry, AllCount, Follows, FollowsIn, Counts, GeometryOf, GeometryIn
<1>3. TableIsNewest' <=> AllAgree(table', changes', s3')
  BY DEF TableIsNewest, AllAgree, Newest, NewestIn, AgreesWith, Agrees, GeometryOf, GeometryIn
<1> QED BY <1>1, <1>2, <1>3
-----------------------------------------------------------------------------
\* The steps

LEMMA TableTypes ==
  ASSUME ColumnTypes, NEW k \in Keys
  PROVE  /\ table[k] # NoRow => table[k] \in TableRows
         /\ source[k] # NoRow => source[k] \in Rows
BY DEF ColumnTypes

LEMMA ColumnsInitInv == ColumnsInit => ColumnsInv
<1> SUFFICES ASSUME ColumnsInit PROVE ColumnsInv
  OBVIOUS
<1> USE DEF ColumnsInit
<1>1. ColumnTypes
  BY ChangeColumnsAssumption DEF ColumnTypes
<1>2. ObjectsOK /\ TableOK /\ ChangesOK /\ PendingOK
  BY DEF ObjectsOK, OneEach, TableOK, ChangesOK, PendingOK, ToUpload
<1>3. GeometryIsKept /\ VersionsFollowGeometry /\ TableIsNewest
  BY DEF GeometryIsKept, VersionsFollowGeometry, TableIsNewest
<1> QED BY <1>1, <1>2, <1>3 DEF ColumnsInv

\* Nothing that the properties are about changes.
LEMMA PropertiesStay ==
  ASSUME ColumnsInv, UNCHANGED <<table, changes, s3, imported>>
  PROVE  GeometryIsKept' /\ VersionsFollowGeometry' /\ TableIsNewest'
BY PropertiesAre, PropertiesAreThen DEF ColumnsInv

LEMMA FailKeeps ==
  ASSUME ColumnsInv, Fail
  PROVE  ColumnsInv'
<1>1. pending' = {} /\ UNCHANGED <<table, changes, s3, imported, attempts, source>>
  BY DEF Fail
<1>2. ColumnTypes'
  BY <1>1 DEF ColumnsInv, ColumnTypes
<1>3. ObjectsOK' /\ PendingOK'
  BY <1>1 DEF ColumnsInv, ObjectsOK, ToUpload, PendingOK
<1>4. TableOK' /\ ChangesOK'
  BY <1>1 DEF ColumnsInv, TableOK, ChangesOK
<1>5. GeometryIsKept' /\ VersionsFollowGeometry' /\ TableIsNewest'
  BY <1>1, PropertiesStay
<1> QED BY <1>2, <1>3, <1>4, <1>5 DEF ColumnsInv

LEMMA NothingKeeps ==
  ASSUME ColumnsInv, UNCHANGED columnVars
  PROVE  ColumnsInv'
<1>1. UNCHANGED <<table, changes, s3, imported, attempts, source, pending>>
  BY DEF columnVars
<1>2. ColumnTypes'
  BY <1>1 DEF ColumnsInv, ColumnTypes
<1>3. ObjectsOK' /\ TableOK' /\ ChangesOK'
  BY <1>1 DEF ColumnsInv, ObjectsOK, ToUpload, TableOK, ChangesOK
<1>4. PendingOK'
  BY <1>1 DEF ColumnsInv, PendingOK, ChangeOK, RefOK, txid, geoChanged
<1>5. GeometryIsKept' /\ VersionsFollowGeometry' /\ TableIsNewest'
  BY <1>1, PropertiesStay
<1> QED BY <1>2, <1>3, <1>4, <1>5 DEF ColumnsInv

\* An upload adds an object that no row refers to but the one it is for.
LEMMA UploadKeeps ==
  ASSUME ColumnsInv, uploadToS3
  PROVE  ColumnsInv'
<1>1. PICK c \in NotUploaded : s3' = s3 \cup {[ref |-> c.blobref, geom |-> c.geom]}
  BY DEF uploadToS3
<1> DEFINE new == [ref |-> c.blobref, geom |-> c.geom]
<1>2. UNCHANGED <<table, changes, imported, attempts, source, pending>>
  BY DEF uploadToS3
<1>3. /\ c \in pending /\ c \in ToUpload /\ c \in ChangeRows /\ c.blobref \in Refs
      /\ c.blobref[1] = attempts /\ \A o \in s3 : o.ref # c.blobref
  BY <1>1 DEF NotUploaded, ToUpload, ColumnsInv, ColumnTypes, ChangeRows
<1>4. \A d \in ToUpload : d.blobref = <<attempts, d.key>> /\ d.geom \in Large
  <2> SUFFICES ASSUME NEW d \in ToUpload
               PROVE  d.blobref = <<attempts, d.key>> /\ d.geom \in Large
    OBVIOUS
  <2>1. d \in pending /\ d.blobref # NoRef /\ d.blobref[1] = attempts /\ attempts \in Nat
    BY DEF ToUpload, ColumnsInv, ColumnTypes
  <2>2. RefOK(d, table[d.key])
    BY <2>1 DEF ColumnsInv, PendingOK, ChangeOK
  <2> QED BY <2>1, <2>2 DEF RefOK
<1>5. new \in [ref : Refs, geom : Geometries] /\ new.ref = c.blobref /\ new.geom = c.geom
  BY <1>3, <1>4, ChangeColumnsAssumption
<1>6. ToUpload' = ToUpload
  BY <1>2 DEF ToUpload
<1> HIDE DEF new
<1>7. s3 \subseteq s3' /\ \A o \in s3' : o \in s3 \/ o = new
  BY <1>1 DEF new
<1>8. ColumnTypes'
  <2>1. s3' \subseteq [ref : Refs, geom : Geometries]
    BY <1>5, <1>7 DEF ColumnsInv, ColumnTypes
  <2> QED BY <1>2, <2>1 DEF ColumnsInv, ColumnTypes
<1>9. OneEach(s3')
  BY <1>3, <1>5, <1>7 DEF ColumnsInv, ObjectsOK, OneEach
<1>10. ObjectsOK'
  <2>1. \A o \in s3' : o.ref[1] <= attempts
    BY <1>3, <1>5, <1>7 DEF ColumnsInv, ObjectsOK, ColumnTypes
  <2>2. ASSUME NEW d \in ToUpload, NEW o \in s3', o.ref = d.blobref
        PROVE  o.geom = d.geom
    <3>1. CASE o \in s3
      BY <2>2, <3>1 DEF ColumnsInv, ObjectsOK
    <3>2. CASE o = new
      <4>1. d.blobref = c.blobref /\ d \in pending /\ d \in ChangeRows
        BY <2>2, <3>2, <1>5 DEF ToUpload, ColumnsInv, ColumnTypes
      <4>2. d.key = c.key
        BY <1>3, <1>4, <4>1
      <4>3. d = c
        BY <1>3, <4>1, <4>2 DEF ColumnsInv, PendingOK
      <4> QED BY <1>5, <3>2, <4>3
    <3> QED BY <1>7, <3>1, <3>2
  <2>3. OneEach(s3)'
    BY <1>9 DEF OneEach
  <2> QED BY <1>2, <1>6, <2>1, <2>2, <2>3 DEF ObjectsOK
<1>11. PendingOK'
  BY <1>2 DEF ColumnsInv, PendingOK, ChangeOK, RefOK, txid, geoChanged
<1>12. \A d : HasObject(s3, d) => HasObject(s3', d) /\ GeometryIn(s3', d) = GeometryIn(s3, d)
  BY <1>7, <1>9, GeometryStays
<1>13. TableOK' /\ ChangesOK'
  BY <1>2, <1>12 DEF ColumnsInv, TableOK, ChangesOK, RowOK
<1>14. GeometryIsKept'
  <2>1. AllTell(table, changes, s3, imported)
    BY PropertiesAre DEF ColumnsInv
  <2>2. AllTell(table, changes, s3', imported)
    BY <1>12, <2>1 DEF AllTell, TellsIn, ColumnsInv, TableOK, ChangesOK, RowOK
  <2> QED BY <1>2, <2>2, PropertiesAreThen
<1>15. VersionsFollowGeometry'
  <2>1. AllCount(changes, s3)
    BY PropertiesAre DEF ColumnsInv
  <2>2. AllCount(changes, s3')
    BY <1>12, <2>1 DEF AllCount, ColumnsInv, ChangesOK
  <2> QED BY <1>2, <2>2, PropertiesAreThen
<1>16. TableIsNewest'
  <2>1. AllAgree(table, changes, s3)
    BY PropertiesAre DEF ColumnsInv
  <2>2. AllAgree(table, changes, s3')
    BY <1>12, <2>1 DEF AllAgree, Agrees, ColumnsInv, TableOK, ChangesOK, RowOK
  <2> QED BY <1>2, <2>2, PropertiesAreThen
<1> QED BY <1>8, <1>10, <1>11, <1>13, <1>14, <1>15, <1>16 DEF ColumnsInv
-----------------------------------------------------------------------------
\* The change that an import computes for a key.
Difference(rows, k) ==
  IF table[k] = NoRow THEN NewChange("insert", k, NoRow, rows[k])
  ELSE IF rows[k] = NoRow THEN NewChange("delete", k, table[k], table[k])
  ELSE NewChange("update", k, table[k], rows[k])

LEMMA NewChangeFields ==
  ASSUME NEW operation, NEW k, NEW old, NEW new
  PROVE  LET c == NewChange(operation, k, old, new)
         IN  /\ c = [txid |-> txid, operation |-> operation, key |-> k,
                     attr |-> new.attr, geom |-> new.geom,
                     blobref |-> c.blobref, geo_version |-> c.geo_version,
                     geo_changed |-> c.geo_changed, changed |-> c.changed]
             /\ c.txid = txid /\ c.operation = operation /\ c.key = k
             /\ c.attr = new.attr /\ c.geom = new.geom
             /\ c.blobref = Blobref(operation, k, old, new)
             /\ c.geo_version = geoVersion(operation, old, new)
             /\ c.geo_changed = geoChanged(operation, old, new)
             /\ c.changed = Changed(operation)
BY DEF NewChange

LEMMA DifferencesAre ==
  ASSUME NEW rows
  PROVE  /\ \A c \in computeDifferences(rows) :
              /\ c.key \in Keys /\ c = Difference(rows, c.key)
              /\ ~ (table[c.key] = NoRow /\ rows[c.key] = NoRow)
         /\ \A k \in Keys :
              (\A c \in computeDifferences(rows) : c.key # k) => NoDifference(table[k], rows[k])
<1>1. ASSUME NEW c \in computeDifferences(rows)
      PROVE  /\ c.key \in Keys /\ c = Difference(rows, c.key)
             /\ ~ (table[c.key] = NoRow /\ rows[c.key] = NoRow)
  <2>1. CASE c \in Inserts(rows)
    <3>1. PICK k \in Keys : /\ c = NewChange("insert", k, NoRow, rows[k])
                            /\ rows[k] # NoRow /\ table[k] = NoRow
      BY <2>1 DEF Inserts
    <3>2. c.key = k
      BY <3>1, NewChangeFields
    <3> QED BY <3>1, <3>2 DEF Difference
  <2>2. CASE c \in Updates(rows)
    <3>1. PICK k \in Keys : /\ c = NewChange("update", k, table[k], rows[k])
                            /\ rows[k] # NoRow /\ table[k] # NoRow
      BY <2>2 DEF Updates
    <3>2. c.key = k
      BY <3>1, NewChangeFields
    <3> QED BY <3>1, <3>2 DEF Difference
  <2>3. CASE c \in Deletes(rows)
    <3>1. PICK k \in Keys : /\ c = NewChange("delete", k, table[k], table[k])
                            /\ rows[k] = NoRow /\ table[k] # NoRow
      BY <2>3 DEF Deletes
    <3>2. c.key = k
      BY <3>1, NewChangeFields
    <3> QED BY <3>1, <3>2 DEF Difference
  <2> QED BY <2>1, <2>2, <2>3 DEF computeDifferences
<1>2. ASSUME NEW k \in Keys, \A c \in computeDifferences(rows) : c.key # k
      PROVE  NoDifference(table[k], rows[k])
  <2>1. ~ (rows[k] # NoRow /\ table[k] = NoRow)
    <3> SUFFICES ASSUME rows[k] # NoRow, table[k] = NoRow PROVE FALSE
      OBVIOUS
    <3>1. NewChange("insert", k, NoRow, rows[k]) \in computeDifferences(rows)
      BY DEF computeDifferences, Inserts
    <3> QED BY <1>2, <3>1, NewChangeFields
  <2>2. ~ (rows[k] = NoRow /\ table[k] # NoRow)
    <3> SUFFICES ASSUME rows[k] = NoRow, table[k] # NoRow PROVE FALSE
      OBVIOUS
    <3>1. NewChange("delete", k, table[k], table[k]) \in computeDifferences(rows)
      BY DEF computeDifferences, Deletes
    <3> QED BY <1>2, <3>1, NewChangeFields
  <2>3. ~ (rows[k] # NoRow /\ table[k] # NoRow /\ IsUpdated(table[k], rows[k]))
    <3> SUFFICES ASSUME rows[k] # NoRow, table[k] # NoRow, IsUpdated(table[k], rows[k]) PROVE FALSE
      OBVIOUS
    <3>1. NewChange("update", k, table[k], rows[k]) \in computeDifferences(rows)
      BY DEF computeDifferences, Updates
    <3> QED BY <1>2, <3>1, NewChangeFields
  <2> QED BY <2>1, <2>2, <2>3 DEF NoDifference
<1> QED BY <1>1, <1>2

\* The references an import gives its rows are new; the others are older.
LEMMA ReferencesAre ==
  ASSUME ColumnsInv, attempts < MaxAttempts, attempts' = attempts + 1,
         NEW k \in Keys, NEW operation \in Operations, NEW new, new.geom \in Geoms,
         NEW old, operation # "insert" => old = table[k] /\ table[k] # NoRow,
         operation = "delete" => new = old,
         NEW c, c.operation = operation, c.key = k, c.geom = new.geom,
         c.blobref = Blobref(operation, k, old, new)
  PROVE  /\ c.blobref \in Refs \cup {NoRef}
         /\ RefOK(c, old)'
<1>1. <<attempts + 1, k>> \in Refs
  <2>1. attempts \in 0..MaxAttempts
    BY DEF ColumnsInv, ColumnTypes
  <2>2. attempts + 1 \in 1..MaxAttempts
    BY <2>1, ChangeColumnsAssumption
  <2> QED BY <2>2 DEF Refs
<1>2. CASE MustUpload(operation, old, new)
  <2>1. c.geom \in Large
    BY <1>2 DEF MustUpload
  <2>2. Blobref(operation, k, old, new) = <<attempts + 1, k>>
    <3>1. ~ (operation # "insert" /\ ~IsDistinct(new.geom, old.geom))
      BY <1>2 DEF MustUpload, IsDistinct
    <3> QED BY <1>2, <3>1 DEF Blobref
  <2>3. c.blobref = <<attempts + 1, k>>
    BY <2>2
  <2> QED BY <1>1, <2>1, <2>3 DEF RefOK
<1>3. CASE ~MustUpload(operation, old, new) /\ operation # "insert" /\ ~IsDistinct(new.geom, old.geom)
  <2>1. c.blobref = old.blobref
    BY <1>3 DEF Blobref
  <2>2. old.blobref \in Refs \cup {NoRef} /\ HasObject(s3, old)
    BY <1>3 DEF ColumnsInv, ColumnTypes, TableOK, RowOK, TableRows
  <2>3. CASE old.blobref = NoRef
    BY <2>1, <2>3 DEF RefOK
  <2>4. CASE old.blobref # NoRef
    <3>1. PICK o \in s3 : o.ref = old.blobref
      BY <2>2, <2>4 DEF HasObject
    <3>2. old.blobref[1] \in 1..MaxAttempts
      BY <2>2, <2>4 DEF Refs
    <3>3. old.blobref[1] <= attempts /\ attempts \in Nat
      BY <3>1 DEF ColumnsInv, ObjectsOK, ColumnTypes
    <3>4. old.blobref[1] < attempts'
      BY <3>2, <3>3
    <3> QED BY <1>3, <2>1, <2>2, <3>4 DEF RefOK
  <2> QED BY <2>3, <2>4
<1>4. CASE ~MustUpload(operation, old, new)
           /\ ~ (operation # "insert" /\ ~IsDistinct(new.geom, old.geom))
  BY <1>4 DEF Blobref, RefOK
<1> QED BY <1>2, <1>3, <1>4
LEMMA DifferenceOK ==
  ASSUME ColumnsInv, attempts < MaxAttempts, attempts' = attempts + 1,
         Len(imported) < MaxTxid, imported' = imported,
         NEW rows \in Sources, NEW k \in Keys, ~ (table[k] = NoRow /\ rows[k] = NoRow),
         NEW old, old = table[k], NEW new, new = rows[k],
         NEW c, c = Difference(rows, k)
  PROVE  c \in ChangeRows /\ c.key = k /\ ChangeOK(c, old, new)'
<1>1. /\ old # NoRow => old \in TableRows
      /\ new # NoRow => new \in Rows
  BY TableTypes, ChangeColumnsAssumption DEF ColumnsInv
<1>2. txid \in Times /\ txid' = txid
  BY ChangeColumnsAssumption DEF txid, Times, ColumnsInv, ColumnTypes
<1>3. CASE old = NoRow
  <2>1. new # NoRow /\ new.attr \in Attributes /\ new.geom \in Geoms
    BY <1>1, <1>3 DEF Rows, Geoms
  <2>2. c = NewChange("insert", k, old, new)
    BY <1>3 DEF Difference
  <2>3. /\ c.txid = txid /\ c.operation = "insert" /\ c.key = k
        /\ c.attr = new.attr /\ c.geom = new.geom
        /\ c.blobref = Blobref("insert", k, old, new)
        /\ c.geo_version = geoVersion("insert", old, new)
        /\ c.geo_changed = geoChanged("insert", old, new)
        /\ c.changed = Changed("insert")
    BY <2>2, NewChangeFields
  <2>4. c.geo_version = 1 /\ c.geo_changed = txid /\ c.changed = txid
    BY <2>3 DEF geoVersion, geoChanged, Changed
  <2>5. c.blobref \in Refs \cup {NoRef} /\ RefOK(c, old)'
    <3>1. /\ c.operation = "insert" /\ c.key = k /\ c.geom = new.geom /\ new.geom \in Geoms
          /\ c.blobref = Blobref("insert", k, old, new) /\ "insert" \in Operations
          /\ "insert" # "delete"
      BY <2>1, <2>3 DEF Operations
    <3> QED BY <3>1, ReferencesAre
  <2>6. c \in ChangeRows
    <3>1. c = [txid |-> c.txid, operation |-> c.operation, key |-> c.key, attr |-> c.attr,
               geom |-> c.geom, blobref |-> c.blobref, geo_version |-> c.geo_version,
               geo_changed |-> c.geo_changed, changed |-> c.changed]
      BY <2>2, NewChangeFields
    <3> QED BY <1>2, <2>1, <2>3, <2>4, <2>5, <3>1 DEF ChangeRows, Operations
  <2> QED BY <1>2, <1>3, <2>1, <2>3, <2>4, <2>5, <2>6 DEF ChangeOK
<1>4. CASE old # NoRow /\ new = NoRow
  <2>1. /\ old \in TableRows /\ old.attr \in Attributes /\ old.geom \in Geoms
        /\ old.geo_version \in Nat
    BY <1>1, <1>4 DEF TableRows, Geoms
  <2>2. c = NewChange("delete", k, old, old)
    BY <1>4 DEF Difference
  <2>3. /\ c.txid = txid /\ c.operation = "delete" /\ c.key = k
        /\ c.attr = old.attr /\ c.geom = old.geom
        /\ c.blobref = Blobref("delete", k, old, old)
        /\ c.geo_version = geoVersion("delete", old, old)
        /\ c.geo_changed = geoChanged("delete", old, old)
        /\ c.changed = Changed("delete")
    BY <2>2, NewChangeFields
  <2>4. c.geo_version = old.geo_version /\ c.geo_changed = NoTime /\ c.changed = NoTime
    BY <2>3 DEF geoVersion, geoChanged, Changed, Moved
  <2>5. c.blobref \in Refs \cup {NoRef} /\ RefOK(c, old)'
    BY <1>4, <2>1, <2>3, ReferencesAre DEF Operations
  <2>6. c \in ChangeRows
    <3>1. c = [txid |-> c.txid, operation |-> c.operation, key |-> c.key, attr |-> c.attr,
               geom |-> c.geom, blobref |-> c.blobref, geo_version |-> c.geo_version,
               geo_changed |-> c.geo_changed, changed |-> c.changed]
      BY <2>2, NewChangeFields
    <3> QED BY <1>2, <2>1, <2>3, <2>4, <2>5, <3>1 DEF ChangeRows, Operations
  <2> QED BY <1>2, <1>4, <2>1, <2>3, <2>4, <2>5, <2>6 DEF ChangeOK
<1>5. CASE old # NoRow /\ new # NoRow
  <2>1. /\ old \in TableRows /\ old.geom \in Geoms /\ old.geo_version \in Nat
        /\ old.geo_changed \in Times
        /\ new.attr \in Attributes /\ new.geom \in Geoms
    BY <1>1, <1>5 DEF TableRows, Rows, Geoms
  <2>2. c = NewChange("update", k, old, new)
    BY <1>5 DEF Difference
  <2>3. /\ c.txid = txid /\ c.operation = "update" /\ c.key = k
        /\ c.attr = new.attr /\ c.geom = new.geom
        /\ c.blobref = Blobref("update", k, old, new)
        /\ c.geo_version = geoVersion("update", old, new)
        /\ c.geo_changed = geoChanged("update", old, new)
        /\ c.changed = Changed("update")
    BY <2>2, NewChangeFields
  <2>4. /\ c.geo_version = geoVersion("update", old, c) /\ c.geo_version \in Nat
        /\ c.geo_changed = geoChanged("update", old, c) /\ c.geo_changed \in Times
        /\ c.changed = txid
    BY <1>2, <2>1, <2>3 DEF geoVersion, geoChanged, Changed, Moved
  <2>5. c.blobref \in Refs \cup {NoRef} /\ RefOK(c, old)'
    BY <1>5, <2>1, <2>3, ReferencesAre DEF Operations
  <2>6. c \in ChangeRows
    <3>1. c = [txid |-> c.txid, operation |-> c.operation, key |-> c.key, attr |-> c.attr,
               geom |-> c.geom, blobref |-> c.blobref, geo_version |-> c.geo_version,
               geo_changed |-> c.geo_changed, changed |-> c.changed]
      BY <2>2, NewChangeFields
    <3> QED BY <1>2, <2>1, <2>3, <2>4, <2>5, <3>1 DEF ChangeRows, Operations
  <2>7. geoChanged("update", old, c)' = geoChanged("update", old, c)
    BY <1>2 DEF geoChanged
  <2> QED BY <1>2, <1>5, <2>1, <2>3, <2>4, <2>5, <2>6, <2>7 DEF ChangeOK
<1> QED BY <1>3, <1>4, <1>5

LEMMA PrepareKeeps ==
  ASSUME ColumnsInv, NEW rows \in Sources, Prepare(rows)
  PROVE  ColumnsInv'
<1>1. /\ pending' = computeDifferences(rows) /\ source' = rows /\ attempts' = attempts + 1
      /\ attempts < MaxAttempts /\ Len(imported) < MaxTxid
      /\ UNCHANGED <<table, changes, s3, imported>>
  BY DEF Prepare
<1>2. \A c \in pending' :
        /\ c \in ChangeRows /\ c.key \in Keys /\ c = Difference(rows, c.key)
        /\ ChangeOK(c, table[c.key], rows[c.key])'
  <2> SUFFICES ASSUME NEW c \in pending'
               PROVE  /\ c \in ChangeRows /\ c.key \in Keys /\ c = Difference(rows, c.key)
                      /\ ChangeOK(c, table[c.key], rows[c.key])'
    OBVIOUS
  <2>1. c.key \in Keys /\ c = Difference(rows, c.key) /\ ~ (table[c.key] = NoRow /\ rows[c.key] = NoRow)
    BY <1>1, DifferencesAre
  <2>2. PICK old, new : old = table[c.key] /\ new = rows[c.key]
    OBVIOUS
  <2>3. c \in ChangeRows /\ ChangeOK(c, old, new)'
    BY <1>1, <2>1, <2>2, DifferenceOK
  <2> QED BY <1>1, <2>1, <2>2, <2>3
<1>3. attempts \in Nat /\ attempts' \in 0..MaxAttempts /\ attempts < attempts'
  BY <1>1, ChangeColumnsAssumption DEF ColumnsInv, ColumnTypes
<1>4. ColumnTypes'
  BY <1>1, <1>2, <1>3, ChangeColumnsAssumption DEF ColumnsInv, ColumnTypes
<1>5. \A o \in s3 : o.ref[1] \in Nat /\ o.ref[1] <= attempts
  BY DEF ColumnsInv, ColumnTypes, ObjectsOK, Refs
<1>6. ObjectsOK'
  <2>1. \A o \in s3 : o.ref[1] <= attempts' /\ o.ref[1] # attempts'
    BY <1>3, <1>5
  <2>2. \A c \in ToUpload' : c.blobref[1] = attempts'
    BY DEF ToUpload
  <2> QED BY <1>1, <2>1, <2>2 DEF ColumnsInv, ObjectsOK
<1>7. TableOK' /\ ChangesOK'
  BY <1>1 DEF ColumnsInv, TableOK, ChangesOK
<1>8. PendingOK'
  <2>1. \A c, d \in pending' : c.key = d.key => c = d
    BY <1>2
  <2>2. \A k \in Keys : (\A c \in pending' : c.key # k) => NoDifference(table'[k], source'[k])
    BY <1>1, DifferencesAre
  <2> QED BY <1>1, <1>2, <2>1, <2>2 DEF PendingOK
<1>9. GeometryIsKept' /\ VersionsFollowGeometry' /\ TableIsNewest'
  BY <1>1, PropertiesStay
<1> QED BY <1>4, <1>6, <1>7, <1>8, <1>9 DEF ColumnsInv
\* What is committed has its geometry where its reference says.
LEMMA PendingIsStored ==
  ASSUME ColumnsInv, Uploaded, NEW c \in pending
  PROVE  HasObject(s3, c) /\ SameGeometry(GeometryIn(s3, c), c.geom)
<1>1. c.key \in Keys /\ c.geom \in Geoms /\ RefOK(c, table[c.key])
  BY DEF ColumnsInv, ColumnTypes, PendingOK, ChangeOK, ChangeRows
<1>2. CASE c.blobref = NoRef
  BY <1>2, SameIsEquivalence DEF HasObject, GeometryIn
<1>3. CASE c.blobref # NoRef /\ c.blobref = <<attempts, c.key>>
  <2>1. c \in ToUpload
    BY <1>3 DEF ToUpload
  <2>2. PICK o \in s3 : o.ref = c.blobref
    BY <2>1 DEF Uploaded, NotUploaded
  <2>3. o.geom = c.geom /\ OneEach(s3)
    BY <2>1, <2>2 DEF ColumnsInv, ObjectsOK
  <2>4. GeometryIn(s3, c) = c.geom
    BY <1>3, <2>2, <2>3, GeometryIs
  <2> QED BY <2>2, <2>4, SameIsEquivalence DEF HasObject
<1>4. CASE c.blobref # NoRef /\ c.blobref # <<attempts, c.key>>
  <2> DEFINE old == table[c.key]
  <2>1. c.operation # "insert" /\ c.blobref = old.blobref /\ ~IsDistinct(c.geom, old.geom)
    BY <1>1, <1>4 DEF RefOK
  <2>2. old # NoRow
    BY <2>1 DEF ColumnsInv, PendingOK, ChangeOK
  <2>3. HasObject(s3, old) /\ SameGeometry(GeometryIn(s3, old), old.geom) /\ old.geom \in Geoms
    BY <1>1, <2>2, TableTypes DEF ColumnsInv, TableOK, RowOK, TableRows, Geoms
  <2>4. HasObject(s3, c) /\ GeometryIn(s3, c) = GeometryIn(s3, old)
    BY <1>4, <2>1, <2>3 DEF HasObject, GeometryIn
  <2>5. SameGeometry(c.geom, old.geom)
    BY <1>1, <2>1, <2>3, NotDistinctIsSame
  <2> HIDE DEF old
  <2> QED BY <2>3, <2>4, <2>5, SameIsEquivalence
<1> QED BY <1>1, <1>2, <1>3, <1>4

LEMMA RowOfFields ==
  ASSUME NEW c \in ChangeRows, c.geo_changed \in Times, c.changed \in Times, NEW objects
  PROVE  /\ RowOf(c) \in TableRows /\ RowOf(c) # NoRow
         /\ RowOf(c).attr = c.attr /\ RowOf(c).geom = c.geom /\ RowOf(c).blobref = c.blobref
         /\ RowOf(c).geo_version = c.geo_version /\ RowOf(c).geo_changed = c.geo_changed
         /\ GeometryIn(objects, RowOf(c)) = GeometryIn(objects, c)
         /\ HasObject(objects, RowOf(c)) <=> HasObject(objects, c)
<1>1. /\ RowOf(c) \in TableRows
      /\ RowOf(c).attr = c.attr /\ RowOf(c).geom = c.geom /\ RowOf(c).blobref = c.blobref
      /\ RowOf(c).geo_version = c.geo_version /\ RowOf(c).geo_changed = c.geo_changed
  BY DEF RowOf, ChangeRows, TableRows, Geoms
<1>2. RowOf(c) # NoRow
  BY <1>1, ChangeColumnsAssumption
<1> QED BY <1>1, <1>2 DEF GeometryIn, HasObject

\* The table after the changes.
LEMMA TableAfter ==
  ASSUME ColumnsInv, applyChanges
  PROVE  /\ \A c \in pending :
              /\ c.operation = "delete" => table'[c.key] = NoRow
              /\ c.operation # "delete" => table'[c.key] = RowOf(c) /\ RowOf(c) \in TableRows
         /\ \A k \in Keys : (\A c \in pending : c.key # k) => table'[k] = table[k]
         /\ table' \in [Keys -> TableRows \cup {NoRow}]
<1>1. table' = [k \in Keys |-> RowAfter(k)]
  BY DEF applyChanges
<1>2. ASSUME NEW c \in pending
      PROVE  /\ c.key \in Keys
             /\ c.operation = "delete" => RowAfter(c.key) = NoRow
             /\ c.operation # "delete" => RowAfter(c.key) = RowOf(c) /\ RowOf(c) \in TableRows
  <2>1. c \in ChangeRows /\ c.key \in Keys
    BY DEF ColumnsInv, ColumnTypes, ChangeRows
  <2>2. PICK d : d = CHOOSE e \in pending : e.key = c.key
    OBVIOUS
  <2>3. d \in pending /\ d.key = c.key
    BY <2>2
  <2>4. d = c
    BY <2>3 DEF ColumnsInv, PendingOK
  <2>5. RowAfter(c.key) = IF c.operation = "delete" THEN NoRow ELSE RowOf(c)
    BY <2>2, <2>4 DEF RowAfter
  <2>6. c.operation # "delete" => c.geo_changed \in Times /\ c.changed \in Times
    BY DEF ColumnsInv, PendingOK, ChangeOK
  <2>7. c.operation # "delete" => RowOf(c) \in TableRows
    BY <2>1, <2>6, RowOfFields
  <2> QED BY <2>1, <2>5, <2>7
<1>3. ASSUME NEW k \in Keys, \A c \in pending : c.key # k
      PROVE  RowAfter(k) = table[k]
  BY <1>3 DEF RowAfter
<1>4. ASSUME NEW k \in Keys
      PROVE  RowAfter(k) \in TableRows \cup {NoRow}
  <2>1. CASE \A c \in pending : c.key # k
    BY <1>3, <2>1 DEF ColumnsInv, ColumnTypes
  <2>2. CASE \E c \in pending : c.key = k
    BY <1>2, <2>2
  <2> QED BY <2>1, <2>2
<1> QED BY <1>1, <1>2, <1>3, <1>4

\* The change table after the changes.
LEMMA ChangesAfter ==
  ASSUME ColumnsInv, txid \in Times,
         changes' = {SetChanged(c) : c \in changes} \cup {Offloaded(c) : c \in pending}
  PROVE  /\ changes' \subseteq ChangeRows
         /\ \A d \in changes' : \E c \in changes \cup pending : Alike(c, d)
         /\ \A c \in changes \cup pending : \E d \in changes' : Alike(c, d)
<1>1. \A c \in changes : SetChanged(c) \in ChangeRows /\ Alike(c, SetChanged(c))
  BY SetChangedAlike DEF ColumnsInv, ColumnTypes
<1>2. \A c \in pending : Offloaded(c) \in ChangeRows /\ Alike(c, Offloaded(c))
  BY OffloadedAlike DEF ColumnsInv, ColumnTypes
<1>3. ASSUME NEW d \in changes'
      PROVE  d \in ChangeRows /\ \E c \in changes \cup pending : Alike(c, d)
  BY <1>1, <1>2
<1>4. ASSUME NEW c \in changes \cup pending
      PROVE  \E d \in changes' : Alike(c, d)
  <2>1. CASE c \in changes
    BY <1>1, <2>1
  <2>2. CASE c \in pending
    BY <1>2, <2>2
  <2> QED BY <2>1, <2>2
<1> QED BY <1>3, <1>4
\* What a commit leaves, and what the lemmas about it rest on.
Committed ==
  /\ ColumnsInv /\ Commit /\ Uploaded /\ applyChanges
  /\ txid \in Times /\ txid = Len(imported) + 1 /\ Len(imported) \in Nat
  /\ s3' = s3 /\ imported' = Append(imported, source) /\ pending' = {}
  /\ attempts' = attempts /\ source' = source

LEMMA CommitIs ==
  ASSUME ColumnsInv, Commit
  PROVE  /\ Committed
         /\ changes' \subseteq ChangeRows
         /\ \A d \in changes' : \E c \in changes \cup pending : Alike(c, d)
         /\ \A c \in changes \cup pending : \E d \in changes' : Alike(c, d)
<1>1. /\ pending # {} /\ Uploaded /\ applyChanges
      /\ changes' = {SetChanged(c) : c \in changes} \cup {Offloaded(c) : c \in pending}
      /\ imported' = Append(imported, source) /\ pending' = {}
      /\ UNCHANGED <<s3, attempts, source>>
  BY DEF Commit
<1>2. txid \in Times /\ txid = Len(imported) + 1 /\ Len(imported) \in Nat
  BY <1>1, ChangeColumnsAssumption DEF ColumnsInv, ColumnTypes, txid, Times
<1> QED BY <1>1, <1>2, ChangesAfter DEF Committed

LEMMA SourcesAfter ==
  ASSUME Committed
  PROVE  /\ imported' \in Seq([Keys -> Rows \cup {NoRow}])
         /\ Len(imported') = txid
         /\ SourceIn(imported', txid) = source
         /\ \A t \in 0..Len(imported) : SourceIn(imported', t) = SourceIn(imported, t)
<1>1. imported \in Seq([Keys -> Rows \cup {NoRow}]) /\ source \in [Keys -> Rows \cup {NoRow}]
  BY DEF Committed, ColumnsInv, ColumnTypes
<1>2. /\ imported' \in Seq([Keys -> Rows \cup {NoRow}]) /\ Len(imported') = Len(imported) + 1
      /\ imported'[Len(imported) + 1] = source
      /\ \A t \in 1..Len(imported) : imported'[t] = imported[t]
  BY <1>1 DEF Committed
<1> QED BY <1>2 DEF Committed, SourceIn

\* The transaction of what was changed before, and of what is changed now.
LEMMA TimesAre ==
  ASSUME Committed
  PROVE  /\ \A c \in changes : c.txid \in 1..Len(imported) /\ c.txid < txid
         /\ \A c \in pending : c.txid = txid
BY DEF Committed, ColumnsInv, ColumnTypes, ChangesOK, PendingOK, ChangeOK, ChangeRows, Times

LEMMA CommitTells ==
  ASSUME Committed, \A d \in changes' : \E c \in changes \cup pending : Alike(c, d)
  PROVE  AllTell(table', changes', s3', imported')
<1>0. AllTell(table, changes, s3, imported) /\ s3' = s3
  BY PropertiesAre DEF Committed, ColumnsInv
<1>1. ASSUME NEW c \in changes
      PROVE  TellsIn(s3, c, SourceIn(imported', TimeOf(c))[c.key])
  <2>1. TimeOf(c) \in 0..Len(imported)
    BY TimesAre DEF TimeOf, Committed
  <2>2. SourceIn(imported', TimeOf(c)) = SourceIn(imported, TimeOf(c))
    BY <2>1, SourcesAfter
  <2> QED BY <1>0, <2>2 DEF AllTell
<1>2. ASSUME NEW c \in pending
      PROVE  /\ c.operation # "delete" => TellsIn(s3, c, source[c.key])
             /\ c.operation = "delete" =>
                  TellsIn(s3, c, SourceIn(imported, Len(imported))[c.key])
  <2>1. SameGeometry(GeometryIn(s3, c), c.geom)
    BY PendingIsStored DEF Committed
  <2>2. c.key \in Keys /\ ChangeOK(c, table[c.key], source[c.key])
    BY DEF Committed, ColumnsInv, ColumnTypes, PendingOK, ChangeRows
  <2>3. CASE c.operation # "delete"
    BY <2>1, <2>2, <2>3 DEF ChangeOK, TellsIn
  <2>4. CASE c.operation = "delete"
    <3> DEFINE old == table[c.key]
               row == SourceIn(imported, Len(imported))[c.key]
    <3>1. old # NoRow /\ c.attr = old.attr /\ c.geom = old.geom
      BY <2>2, <2>4 DEF ChangeOK
    <3>2. TellsIn(s3, old, row)
      BY <1>0, <2>2, <3>1 DEF AllTell
    <3>3. SameGeometry(GeometryIn(s3, old), old.geom)
      BY <2>2, <3>1 DEF Committed, ColumnsInv, TableOK, RowOK
    <3> HIDE DEF old, row
    <3>4. SameGeometry(GeometryIn(s3, c), row.geom)
      BY <2>1, <3>1, <3>2, <3>3, SameIsEquivalence DEF TellsIn
    <3>5. TellsIn(s3, c, row)
      BY <3>1, <3>2, <3>4 DEF TellsIn
    <3> QED BY <2>4, <3>5 DEF row
  <2> QED BY <2>3, <2>4
<1>3. ASSUME NEW c \in pending
      PROVE  TellsIn(s3, c, SourceIn(imported', TimeOf(c))[c.key])
  <2>1. CASE c.operation # "delete"
    <3>1. SourceIn(imported', TimeOf(c)) = source
      BY <2>1, TimesAre, SourcesAfter DEF TimeOf
    <3> QED BY <1>2, <2>1, <3>1
  <2>2. CASE c.operation = "delete"
    <3>1. TimeOf(c) = Len(imported)
      BY <2>2, TimesAre DEF TimeOf, Committed
    <3>2. Len(imported) \in 0..Len(imported)
      BY DEF Committed
    <3>3. SourceIn(imported', TimeOf(c)) = SourceIn(imported, Len(imported))
      BY <3>1, <3>2, SourcesAfter
    <3> QED BY <1>2, <2>2, <3>3
  <2> QED BY <2>1, <2>2
<1>4. ASSUME NEW d \in changes'
      PROVE  TellsIn(s3', d, SourceIn(imported', TimeOf(d))[d.key])
  <2>1. PICK c \in changes \cup pending : Alike(c, d)
    OBVIOUS
  <2>2. TellsIn(s3, c, SourceIn(imported', TimeOf(c))[c.key])
    BY <1>1, <1>3
  <2>3. TimeOf(d) = TimeOf(c) /\ d.key = c.key /\ d.attr = c.attr
        /\ GeometryIn(s3, d) = GeometryIn(s3, c)
    BY <2>1, AlikeGeometry DEF Alike, TimeOf
  <2> QED BY <1>0, <2>2, <2>3 DEF TellsIn
<1>5. ASSUME NEW k \in Keys
      PROVE  table'[k] = NoRow \/ TellsIn(s3', table'[k], SourceIn(imported', Len(imported'))[k])
  <2>1. SourceIn(imported', Len(imported')) = source
    BY SourcesAfter
  <2>2. CASE \E c \in pending : c.key = k
    <3>1. PICK c \in pending : c.key = k
      BY <2>2
    <3>2. CASE c.operation = "delete"
      BY <3>1, <3>2, TableAfter DEF Committed
    <3>3. CASE c.operation # "delete"
      <4>1. table'[k] = RowOf(c)
        BY <3>1, <3>3, TableAfter DEF Committed
      <4>2. c \in ChangeRows /\ c.geo_changed \in Times /\ c.changed \in Times
        BY <3>3 DEF Committed, ColumnsInv, ColumnTypes, PendingOK, ChangeOK
      <4>3. RowOf(c).attr = c.attr /\ GeometryIn(s3, RowOf(c)) = GeometryIn(s3, c)
        BY <4>2, RowOfFields
      <4>4. TellsIn(s3, RowOf(c), source[k])
        BY <1>2, <3>1, <3>3, <4>3 DEF TellsIn
      <4> QED BY <1>0, <2>1, <4>1, <4>4
    <3> QED BY <3>2, <3>3
  <2>3. CASE \A c \in pending : c.key # k
    <3> DEFINE old == table[k]
               new == source[k]
    <3>1. table'[k] = old
      BY <2>3, TableAfter DEF Committed
    <3>2. NoDifference(old, new)
      BY <2>3 DEF Committed, ColumnsInv, PendingOK, Commit
    <3>3. CASE old # NoRow
      <4>1. new # NoRow /\ new.attr = old.attr /\ ~IsDistinct(old.geom, new.geom)
        BY <3>2, <3>3 DEF NoDifference, IsUpdated
      <4>2. old.geom \in Geoms /\ new.geom \in Geoms
        BY <3>3, <4>1, TableTypes DEF Committed, ColumnsInv, TableRows, Rows, Geoms
      <4>3. SameGeometry(GeometryIn(s3, old), old.geom)
        BY <3>3 DEF Committed, ColumnsInv, TableOK, RowOK
      <4> HIDE DEF old, new
      <4>4. SameGeometry(GeometryIn(s3, old), new.geom)
        BY <4>1, <4>2, <4>3, NotDistinctIsSame, SameIsEquivalence
      <4>5. TellsIn(s3, old, new)
        BY <4>1, <4>4 DEF TellsIn
      <4> QED BY <1>0, <2>1, <3>1, <4>5 DEF new
    <3> QED BY <3>1, <3>3
  <2> QED BY <2>2, <2>3
<1> QED BY <1>4, <1>5 DEF AllTell
\* The newest change of a key is that of the commit, or was the newest before.
LEMMA NewestAfter ==
  ASSUME Committed, NEW k \in Keys, NEW d \in changes', NewestIn(changes', k, d),
         \A c \in changes \cup pending : \E e \in changes' : Alike(c, e),
         NEW c \in changes \cup pending, Alike(c, d)
  PROVE  /\ c \in pending \/ (c \in changes /\ \A e \in pending : e.key # k)
         /\ c \in changes => NewestIn(changes, k, c)
<1>1. ASSUME NEW e \in changes \cup pending, e.key = k
      PROVE  e.txid <= c.txid
  <2>1. PICK f \in changes' : Alike(e, f)
    OBVIOUS
  <2>2. f.txid <= d.txid
    BY <1>1, <2>1 DEF NewestIn, Alike
  <2> QED BY <2>1, <2>2 DEF Alike
<1>2. c.key = k
  BY DEF NewestIn, Alike
<1>3. ASSUME c \in changes, NEW e \in pending, e.key = k PROVE FALSE
  <2>1. e.txid = txid /\ c.txid < txid /\ c.txid \in Nat /\ txid \in Nat
    BY <1>3, TimesAre DEF Committed
  <2> QED BY <1>1, <1>3, <2>1
<1> QED BY <1>1, <1>2, <1>3 DEF NewestIn

LEMMA CommitAgrees ==
  ASSUME Committed, \A d \in changes' : \E c \in changes \cup pending : Alike(c, d),
         \A c \in changes \cup pending : \E d \in changes' : Alike(c, d)
  PROVE  AllAgree(table', changes', s3')
<1>0. AllAgree(table, changes, s3) /\ s3' = s3
  BY PropertiesAre DEF Committed, ColumnsInv
<1> SUFFICES ASSUME NEW k \in Keys, NEW d \in changes', NewestIn(changes', k, d)
             PROVE  IF d.operation = "delete" THEN table'[k] = NoRow
                    ELSE table'[k] # NoRow /\ Agrees(s3, table'[k], d)
  BY <1>0 DEF AllAgree
<1>1. PICK c \in changes \cup pending : Alike(c, d)
  OBVIOUS
<1>2. c.key = k /\ c.operation = d.operation
      /\ \A row : Agrees(s3, row, c) => Agrees(s3, row, d)
  <2>1. GeometryIn(s3, c) = GeometryIn(s3, d)
    BY <1>1, AlikeGeometry
  <2> QED BY <1>1, <2>1 DEF Alike, NewestIn, Agrees
<1>3. CASE c \in pending
  <2>1. CASE c.operation = "delete"
    BY <1>2, <1>3, <2>1, TableAfter DEF Committed
  <2>2. CASE c.operation # "delete"
    <3>1. table'[k] = RowOf(c)
      BY <1>2, <1>3, <2>2, TableAfter DEF Committed
    <3>2. c \in ChangeRows /\ c.geo_changed \in Times /\ c.changed \in Times
      BY <1>3, <2>2 DEF Committed, ColumnsInv, ColumnTypes, PendingOK, ChangeOK
    <3>3. RowOf(c) # NoRow /\ Agrees(s3, RowOf(c), c)
      BY <3>2, RowOfFields, SameIsEquivalence DEF Agrees
    <3> QED BY <1>2, <2>2, <3>1, <3>3
  <2> QED BY <2>1, <2>2
<1>4. CASE c \notin pending
  <2>1. c \in changes /\ NewestIn(changes, k, c) /\ \A e \in pending : e.key # k
    BY <1>1, <1>4, NewestAfter
  <2>2. table'[k] = table[k]
    BY <2>1, TableAfter DEF Committed
  <2>3. IF c.operation = "delete" THEN table[k] = NoRow
        ELSE table[k] # NoRow /\ Agrees(s3, table[k], c)
    BY <1>0, <2>1 DEF AllAgree
  <2> QED BY <1>2, <2>2, <2>3
<1> QED BY <1>3, <1>4

\* An update counts the change of the geometry since the change before it.
LEMMA UpdateCounts ==
  ASSUME Committed, NEW p \in pending, p.operation = "update",
         NEW c \in changes, NewestIn(changes, p.key, c)
  PROVE  Counts(c, p, GeometryIn(s3, c), GeometryIn(s3, p))
<1> DEFINE old == table[p.key]
           g == GeometryIn(s3, c)
           h == GeometryIn(s3, p)
<1>1. p.key \in Keys /\ p.geom \in Geoms /\ ChangeOK(p, old, source[p.key]) /\ p.txid = txid
  BY TimesAre DEF Committed, ColumnsInv, ColumnTypes, PendingOK, ChangeRows
<1>2. /\ old # NoRow /\ p.geo_version = geoVersion("update", old, p)
      /\ p.geo_changed = geoChanged("update", old, p)
  BY <1>1 DEF ChangeOK
<1>3. /\ SameGeometry(GeometryIn(s3, old), old.geom) /\ old.geom \in Geoms
  BY <1>1, <1>2, TableTypes DEF Committed, ColumnsInv, TableOK, RowOK, TableRows, Geoms
<1>4. Agrees(s3, old, c)
  BY <1>1, <1>2, PropertiesAre DEF Committed, ColumnsInv, AllAgree
<1>5. SameGeometry(h, p.geom)
  BY PendingIsStored DEF Committed
<1>6. SameGeometry(old.geom, g)
  BY <1>3, <1>4, SameIsEquivalence DEF Agrees
<1> SUFFICES ASSUME NoGeometry \notin {g, h}
             PROVE  IF SameGeometry(g, h)
                    THEN p.geo_version = c.geo_version /\ p.geo_changed = c.geo_changed
                    ELSE p.geo_version = c.geo_version + 1 /\ p.geo_changed = p.txid
  BY DEF Counts
<1> HIDE DEF old, g, h
<1>7. old.geom # NoGeometry /\ p.geom # NoGeometry
  BY <1>5, <1>6, SameIsNone, SameIsEquivalence
<1>8. SameGeometry(g, h) <=> SameGeometry(old.geom, p.geom)
  BY <1>5, <1>6, SameIsEquivalence
<1>9. NotStEquals(old.geom, p.geom) <=> ~SameGeometry(g, h)
  BY <1>1, <1>3, <1>7, <1>8, NotStEqualsIsOther
<1>10. old.geo_version = c.geo_version /\ old.geo_changed = c.geo_changed
  BY <1>4 DEF Agrees
<1>11. CASE SameGeometry(g, h)
  <2>1. ~Moved("update", old, p)
    BY <1>9, <1>11 DEF Moved
  <2>2. p.geo_version = old.geo_version /\ p.geo_changed = old.geo_changed
    BY <1>2, <2>1 DEF geoVersion, geoChanged
  <2> QED BY <1>10, <1>11, <2>2
<1>12. CASE ~SameGeometry(g, h)
  <2>1. Moved("update", old, p)
    BY <1>9, <1>12 DEF Moved
  <2>2. p.geo_version = old.geo_version + 1 /\ p.geo_changed = txid
    BY <1>2, <2>1 DEF geoVersion, geoChanged
  <2> QED BY <1>1, <1>10, <1>12, <2>2
<1> QED BY <1>11, <1>12

LEMMA CommitCounts ==
  ASSUME Committed, \A d \in changes' : \E c \in changes \cup pending : Alike(c, d),
         \A c \in changes \cup pending : \E d \in changes' : Alike(c, d)
  PROVE  AllCount(changes', s3')
<1>0. AllCount(changes, s3) /\ s3' = s3
  BY PropertiesAre DEF Committed, ColumnsInv
<1> SUFFICES ASSUME NEW c1 \in changes', NEW d1 \in changes', FollowsIn(changes', c1, d1),
                    d1.operation = "update"
             PROVE  Counts(c1, d1, GeometryIn(s3, c1), GeometryIn(s3, d1))
  BY <1>0 DEF AllCount
<1>1. PICK c \in changes \cup pending : Alike(c, c1)
  OBVIOUS
<1>2. PICK d \in changes \cup pending : Alike(d, d1)
  OBVIOUS
<1>3. GeometryIn(s3, c1) = GeometryIn(s3, c) /\ GeometryIn(s3, d1) = GeometryIn(s3, d)
  BY <1>1, <1>2, AlikeGeometry
<1>4. /\ c.key = d.key /\ c.txid < d.txid /\ d.operation = "update"
      /\ \A e \in changes \cup pending : e.key = c.key => e.txid <= c.txid \/ d.txid <= e.txid
  <2>1. c.key = d.key /\ c.txid < d.txid /\ d.operation = "update"
    BY <1>1, <1>2 DEF Alike, FollowsIn
  <2>2. ASSUME NEW e \in changes \cup pending, e.key = c.key
        PROVE  e.txid <= c.txid \/ d.txid <= e.txid
    <3>1. PICK f \in changes' : Alike(e, f)
      OBVIOUS
    <3>2. f.key = c1.key => f.txid <= c1.txid \/ d1.txid <= f.txid
      BY DEF FollowsIn
    <3> QED BY <1>1, <1>2, <2>2, <3>1, <3>2 DEF Alike
  <2> QED BY <2>1, <2>2
<1>5. Counts(c, d, GeometryIn(s3, c), GeometryIn(s3, d))
  <2>1. c \in changes
    BY <1>4, TimesAre DEF Committed
  <2>2. CASE d \in changes
    <3>1. FollowsIn(changes, c, d)
      BY <1>4 DEF FollowsIn
    <3> QED BY <1>0, <1>4, <2>1, <2>2, <3>1 DEF AllCount
  <2>3. CASE d \in pending
    <3>1. ASSUME NEW e \in changes, e.key = d.key
          PROVE  e.txid <= c.txid
      <4>1. e.txid < d.txid /\ e.txid \in Nat /\ d.txid \in Nat
        BY <2>3, TimesAre DEF Committed
      <4> QED BY <1>4, <3>1, <4>1
    <3>2. NewestIn(changes, d.key, c)
      BY <1>4, <3>1 DEF NewestIn
    <3> QED BY <1>4, <2>1, <2>3, <3>2, UpdateCounts
  <2> QED BY <2>2, <2>3
<1> QED BY <1>1, <1>2, <1>3, <1>5 DEF Counts, Alike

LEMMA CommitKeeps ==
  ASSUME ColumnsInv, Commit
  PROVE  ColumnsInv'
<1>1. /\ Committed
      /\ changes' \subseteq ChangeRows
      /\ \A d \in changes' : \E c \in changes \cup pending : Alike(c, d)
      /\ \A c \in changes \cup pending : \E d \in changes' : Alike(c, d)
  BY CommitIs
<1>2. s3' = s3 /\ pending' = {} /\ attempts' = attempts /\ source' = source
      /\ Len(imported') = txid /\ txid \in Times /\ Len(imported) < txid
  BY <1>1, SourcesAfter DEF Committed
<1>3. ColumnTypes'
  BY <1>1, <1>2, SourcesAfter, TableAfter, ChangeColumnsAssumption
  DEF Committed, ColumnsInv, ColumnTypes, Times
<1>4. ObjectsOK' /\ PendingOK'
  BY <1>2 DEF ColumnsInv, ObjectsOK, ToUpload, PendingOK
<1>5. ChangesOK'
  <2> SUFFICES ASSUME NEW d \in changes'
               PROVE  HasObject(s3, d) /\ d.txid <= txid
    BY <1>2 DEF ChangesOK
  <2>1. PICK c \in changes \cup pending : Alike(c, d)
    BY <1>1
  <2>2. HasObject(s3, c)
    BY <1>1, PendingIsStored DEF Committed, ColumnsInv, ChangesOK
  <2>3. c.txid <= txid
    BY <1>1, TimesAre DEF Committed, Times
  <2> QED BY <2>1, <2>2, <2>3, AlikeGeometry DEF Alike
<1>6. TableOK'
  <2> SUFFICES ASSUME NEW k \in Keys, table'[k] # NoRow
               PROVE  RowOK(s3, table'[k])
    BY <1>2 DEF TableOK
  <2>1. CASE \E c \in pending : c.key = k
    <3>1. PICK c \in pending : c.key = k
      BY <2>1
    <3>2. c.operation # "delete" /\ table'[k] = RowOf(c)
      BY <1>1, <3>1, TableAfter DEF Committed
    <3>3. c \in ChangeRows /\ c.geo_changed \in Times /\ c.changed \in Times
      BY <3>2 DEF ColumnsInv, ColumnTypes, PendingOK, ChangeOK
    <3>4. HasObject(s3, c) /\ SameGeometry(GeometryIn(s3, c), c.geom)
      BY <1>1, PendingIsStored DEF Committed
    <3>5. RowOK(s3, RowOf(c))
      BY <3>3, <3>4, RowOfFields DEF RowOK
    <3> QED BY <3>2, <3>5
  <2>2. CASE \A c \in pending : c.key # k
    <3>1. table'[k] = table[k]
      BY <1>1, <2>2, TableAfter DEF Committed
    <3> QED BY <3>1 DEF ColumnsInv, TableOK
  <2> QED BY <2>1, <2>2
<1>7. GeometryIsKept' /\ VersionsFollowGeometry' /\ TableIsNewest'
  BY <1>1, CommitTells, CommitCounts, CommitAgrees, PropertiesAreThen
<1> QED BY <1>3, <1>4, <1>5, <1>6, <1>7 DEF ColumnsInv

-----------------------------------------------------------------------------
LEMMA ColumnsStepInv == ColumnsInv /\ [ColumnsNext]_columnVars => ColumnsInv'
<1> SUFFICES ASSUME ColumnsInv, [ColumnsNext]_columnVars PROVE ColumnsInv'
  OBVIOUS
<1>1. ASSUME NEW rows \in Sources, Prepare(rows) PROVE ColumnsInv'
  BY <1>1, PrepareKeeps
<1>2. CASE uploadToS3
  BY <1>2, UploadKeeps
<1>3. CASE Commit
  BY <1>3, CommitKeeps
<1>4. CASE Fail
  BY <1>4, FailKeeps
<1>5. CASE Done
  BY <1>5, NothingKeeps DEF Done
<1>6. CASE UNCHANGED columnVars
  BY <1>6, NothingKeeps
<1> QED BY <1>1, <1>2, <1>3, <1>4, <1>5, <1>6 DEF ColumnsNext

THEOREM ColumnsInvHolds == ColumnsSpec => []ColumnsInv
<1>1. ColumnsInit => ColumnsInv
  BY ColumnsInitInv
<1>2. ColumnsInv /\ [ColumnsNext]_columnVars => ColumnsInv'
  BY ColumnsStepInv
<1> QED BY <1>1, <1>2, PTL DEF ColumnsSpec

THEOREM GeometryStaysKept == ColumnsSpec => []GeometryIsKept
<1>1. ColumnsInv => GeometryIsKept
  BY DEF ColumnsInv
<1> QED BY <1>1, ColumnsInvHolds, PTL

THEOREM VersionsCountGeometry == ColumnsSpec => []VersionsFollowGeometry
<1>1. ColumnsInv => VersionsFollowGeometry
  BY DEF ColumnsInv
<1> QED BY <1>1, ColumnsInvHolds, PTL

THEOREM TableStaysNewest == ColumnsSpec => []TableIsNewest
<1>1. ColumnsInv => TableIsNewest
  BY DEF ColumnsInv
<1> QED BY <1>1, ColumnsInvHolds, PTL
==============================================================================
