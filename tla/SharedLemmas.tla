---------------------------- MODULE SharedLemmas -----------------------------
(***************************************************************************)
(* Lemmas about the operators that several components are built from: the  *)
(* list of tasks of both schedulers (TaskList), and the differences between*)
(* two tables and what applyChanges makes of them (ChangeTable). The two   *)
(* parts do not depend on each other.                                      *)
(***************************************************************************)
EXTENDS TaskList, ChangeTable, FiniteSetTheorems, WellFoundedInduction, TLAPS

-----------------------------------------------------------------------------
\* The list of tasks

\* Every non-empty set of naturals has a least element.
LEMMA LeastElement ==
  ASSUME NEW T, T \subseteq Nat, T # {}
  PROVE  \E x \in T : \A y \in T : x <= y
<1>1. \E x \in T : \A y \in T : <<y, x>> \notin OpToRel(<, Nat)
  BY NatLessThanWellFounded, WFMin
<1>2. \A x, y \in T : <<y, x>> \notin OpToRel(<, Nat) => x <= y
  BY DEF OpToRel
<1> QED BY <1>1, <1>2

\* oldest picks an element of S.
LEMMA OldestIn ==
  ASSUME NEW T, NEW tasks \in Seq(T), NEW S, S \subseteq Elements(tasks), S # {}
  PROVE  oldest(tasks, S) \in S
<1> DEFINE P == {i \in DOMAIN tasks : tasks[i] \in S}
<1>1. P \subseteq Nat /\ P # {}
  BY DEF Elements
<1>2. \E i \in P : \A j \in P : i <= j
  BY <1>1, LeastElement
<1>3. (CHOOSE i \in P : \A j \in P : i <= j) \in P
  BY <1>2
<1> QED BY <1>3 DEF oldest

\* Filtering out one id removes that task and nothing else.
LEMMA WithoutOne ==
  ASSUME NEW T, NEW tasks \in Seq(T), NEW k \in DOMAIN tasks,
         UniqueIdsIn(tasks)
  PROVE  LET rest == without(tasks, tasks[k].id)
         IN  /\ rest \in Seq(T)
             /\ Elements(rest) = Elements(tasks) \ {tasks[k]}
             /\ UniqueIdsIn(rest)
<1> DEFINE n == Len(tasks)
           rest == [i \in 1..(n - 1) |-> IF i < k THEN tasks[i] ELSE tasks[i + 1]]
<1>1. (CHOOSE i \in DOMAIN tasks : tasks[i].id = tasks[k].id) = k
  BY DEF UniqueIdsIn
<1>2. without(tasks, tasks[k].id) = rest
  BY <1>1 DEF without
<1>3. n \in Nat /\ k \in 1..n /\ DOMAIN tasks = 1..n
  OBVIOUS
<1>4. rest \in [1..(n - 1) -> T] /\ n - 1 \in Nat
  BY <1>3
<1>5. rest \in Seq(T) /\ DOMAIN rest = 1..(n - 1)
  BY <1>4
<1>6. \A i \in DOMAIN rest : \E j \in DOMAIN tasks : rest[i] = tasks[j] /\ j # k
  BY <1>3, <1>5
<1>7. \A j \in DOMAIN tasks : j # k => \E i \in DOMAIN rest : rest[i] = tasks[j]
  <2> SUFFICES ASSUME NEW j \in DOMAIN tasks, j # k
               PROVE  \E i \in DOMAIN rest : rest[i] = tasks[j]
    OBVIOUS
  <2>1. CASE j < k
    <3>1. j \in DOMAIN rest /\ rest[j] = tasks[j]
      BY <1>3, <1>5, <2>1
    <3> QED BY <3>1
  <2>2. CASE j > k
    <3>1. j - 1 \in DOMAIN rest /\ rest[j - 1] = tasks[j]
      BY <1>3, <1>5, <2>2
    <3> QED BY <3>1
  <2> QED BY <1>3, <2>1, <2>2
<1>8. \A j \in DOMAIN tasks : tasks[j] = tasks[k] => j = k
  BY DEF UniqueIdsIn
<1>9. Elements(rest) = Elements(tasks) \ {tasks[k]}
  <2>1. ASSUME NEW i \in DOMAIN rest
        PROVE  rest[i] \in Elements(tasks) \ {tasks[k]}
    BY <1>6, <1>8 DEF Elements
  <2>2. ASSUME NEW j \in DOMAIN tasks, tasks[j] # tasks[k]
        PROVE  tasks[j] \in Elements(rest)
    BY <1>7, <2>2 DEF Elements
  <2> HIDE DEF rest
  <2> QED BY <2>1, <2>2 DEF Elements
<1>10. ASSUME NEW i \in DOMAIN rest, NEW j \in DOMAIN rest, rest[i].id = rest[j].id
       PROVE  i = j
  <2> DEFINE at(x) == IF x < k THEN x ELSE x + 1
  <2>1. at(i) \in DOMAIN tasks /\ at(j) \in DOMAIN tasks
    BY <1>3, <1>5
  <2>2. rest[i] = tasks[at(i)] /\ rest[j] = tasks[at(j)]
    BY <1>5
  <2>3. at(i) = at(j)
    BY <1>10, <2>1, <2>2 DEF UniqueIdsIn
  <2> QED BY <2>3, <1>3, <1>5
<1> QED BY <1>2, <1>5, <1>9, <1>10 DEF UniqueIdsIn

\* The pairs of olderIn.
LEMMA OlderMembers ==
  ASSUME NEW tasks, NEW pair
  PROVE  pair \in olderIn(tasks)
           <=> \E i, j \in DOMAIN tasks : i < j /\ pair = <<tasks[i].id, tasks[j].id>>
BY DEF olderIn

\* oldest picks an element with nothing older in S.
LEMMA OldestHasNoOlder ==
  ASSUME NEW T, NEW tasks \in Seq(T), NEW S, S \subseteq Elements(tasks), S # {},
         UniqueIdsIn(tasks)
  PROVE  \A t \in S : <<t.id, oldest(tasks, S).id>> \notin olderIn(tasks)
<1> DEFINE P == {i \in DOMAIN tasks : tasks[i] \in S}
           least == CHOOSE i \in P : \A j \in P : i <= j
<1>1. P \subseteq Nat /\ P # {}
  BY DEF Elements
<1>2. \E i \in P : \A j \in P : i <= j
  BY <1>1, LeastElement
<1>3. least \in P /\ \A j \in P : least <= j
  BY <1>2
<1>4. oldest(tasks, S) = tasks[least]
  BY DEF oldest
<1> HIDE DEF least
<1> SUFFICES ASSUME NEW t \in S, <<t.id, oldest(tasks, S).id>> \in olderIn(tasks)
             PROVE  FALSE
  OBVIOUS
<1>5. \E i, j \in DOMAIN tasks :
         i < j /\ <<t.id, tasks[least].id>> = <<tasks[i].id, tasks[j].id>>
  BY <1>4, OlderMembers
<1>6. \E i, j \in DOMAIN tasks : i < j /\ t.id = tasks[i].id /\ tasks[least].id = tasks[j].id
  BY <1>5
<1>7. PICK k \in DOMAIN tasks : t = tasks[k]
  BY DEF Elements
<1>8. k < least
  BY <1>3, <1>6, <1>7 DEF UniqueIdsIn
<1>9. k \in P
  BY <1>7
<1> QED BY <1>1, <1>3, <1>8, <1>9

\* What is pushed is younger than everything there.
LEMMA OlderAfterPush ==
  ASSUME NEW T, NEW tasks \in Seq(T), NEW new
  PROVE  olderIn(Append(tasks, new))
           = olderIn(tasks) \cup ({t.id : t \in Elements(tasks)} \X {new.id})
<1> DEFINE n == Len(tasks)
           longer == Append(tasks, new)
           ids == {t.id : t \in Elements(tasks)}
<1>1. /\ n \in Nat /\ DOMAIN tasks = 1..n /\ DOMAIN longer = 1..(n + 1)
      /\ longer[n + 1] = new
      /\ \A i \in 1..n : longer[i] = tasks[i]
  OBVIOUS
<1> HIDE DEF longer, n
<1>2. ASSUME NEW pair \in olderIn(longer)
      PROVE  pair \in olderIn(tasks) \/ pair \in ids \X {new.id}
  <2>1. PICK i \in DOMAIN longer : \E j \in DOMAIN longer :
               i < j /\ pair = <<longer[i].id, longer[j].id>>
    BY OlderMembers
  <2>2. PICK j \in DOMAIN longer : i < j /\ pair = <<longer[i].id, longer[j].id>>
    BY <2>1
  <2>3. CASE j = n + 1
    <3>1. i \in DOMAIN tasks /\ pair = <<tasks[i].id, new.id>>
      BY <1>1, <2>2, <2>3
    <3>2. tasks[i].id \in ids
      BY <3>1 DEF Elements
    <3> QED BY <3>1, <3>2
  <2>4. CASE j # n + 1
    <3>1. i \in DOMAIN tasks /\ j \in DOMAIN tasks /\ pair = <<tasks[i].id, tasks[j].id>>
      BY <1>1, <2>2, <2>4
    <3> QED BY <2>2, <3>1, OlderMembers
  <2> QED BY <2>3, <2>4
<1>3. ASSUME NEW pair \in olderIn(tasks)
      PROVE  pair \in olderIn(longer)
  <2>1. PICK i \in DOMAIN tasks : \E j \in DOMAIN tasks :
               i < j /\ pair = <<tasks[i].id, tasks[j].id>>
    BY OlderMembers
  <2>2. PICK j \in DOMAIN tasks : i < j /\ pair = <<tasks[i].id, tasks[j].id>>
    BY <2>1
  <2>3. i \in DOMAIN longer /\ j \in DOMAIN longer /\ pair = <<longer[i].id, longer[j].id>>
    BY <1>1, <2>2
  <2> QED BY <2>2, <2>3, OlderMembers
<1>4. ASSUME NEW pair \in ids \X {new.id}
      PROVE  pair \in olderIn(longer)
  <2>1. PICK t \in Elements(tasks) : pair = <<t.id, new.id>>
    OBVIOUS
  <2>2. PICK i \in DOMAIN tasks : t = tasks[i]
    BY DEF Elements
  <2>3. /\ i \in DOMAIN longer /\ n + 1 \in DOMAIN longer /\ i < n + 1
        /\ pair = <<longer[i].id, longer[n + 1].id>>
    BY <1>1, <2>1, <2>2
  <2> QED BY <2>3, OlderMembers
<1> QED BY <1>2, <1>3, <1>4 DEF longer

\* Filtering out one id removes its pairs and no others.
LEMMA OlderAfterFilter ==
  ASSUME NEW T, NEW tasks \in Seq(T), NEW k \in DOMAIN tasks,
         UniqueIdsIn(tasks)
  PROVE  olderIn(without(tasks, tasks[k].id))
           = {pair \in olderIn(tasks) : tasks[k].id \notin {pair[1], pair[2]}}
<1> DEFINE n == Len(tasks)
           rest == [i \in 1..(n - 1) |-> IF i < k THEN tasks[i] ELSE tasks[i + 1]]
           at(i) == IF i < k THEN i ELSE i + 1
           back(i) == IF i < k THEN i ELSE i - 1
<1>1. (CHOOSE i \in DOMAIN tasks : tasks[i].id = tasks[k].id) = k
  BY DEF UniqueIdsIn
<1>2. without(tasks, tasks[k].id) = rest
  BY <1>1 DEF without
<1>3. n \in Nat /\ k \in 1..n /\ DOMAIN tasks = 1..n /\ DOMAIN rest = 1..(n - 1)
  OBVIOUS
<1>4. \A i \in DOMAIN rest : at(i) \in DOMAIN tasks /\ at(i) # k /\ rest[i] = tasks[at(i)]
  BY <1>3
<1>5. \A i \in DOMAIN tasks : i # k => back(i) \in DOMAIN rest /\ rest[back(i)] = tasks[i]
  BY <1>3
<1>6. \A i, j \in DOMAIN rest : i < j => at(i) < at(j)
  BY <1>3
<1>7. \A i, j \in DOMAIN tasks : i # k /\ j # k /\ i < j => back(i) < back(j)
  BY <1>3
<1> HIDE DEF rest, at, back
<1>8. ASSUME NEW pair \in olderIn(rest)
      PROVE  pair \in olderIn(tasks) /\ tasks[k].id \notin {pair[1], pair[2]}
  <2>1. PICK i \in DOMAIN rest : \E j \in DOMAIN rest :
               i < j /\ pair = <<rest[i].id, rest[j].id>>
    BY OlderMembers
  <2>2. PICK j \in DOMAIN rest : i < j /\ pair = <<rest[i].id, rest[j].id>>
    BY <2>1
  <2>3. /\ at(i) \in DOMAIN tasks /\ at(j) \in DOMAIN tasks /\ at(i) < at(j)
        /\ pair = <<tasks[at(i)].id, tasks[at(j)].id>>
    BY <1>4, <1>6, <2>2
  <2>4. pair \in olderIn(tasks)
    BY <2>3, OlderMembers
  <2>5. tasks[at(i)].id # tasks[k].id /\ tasks[at(j)].id # tasks[k].id
    BY <1>4 DEF UniqueIdsIn
  <2> QED BY <2>3, <2>4, <2>5
<1>9. ASSUME NEW pair \in olderIn(tasks), tasks[k].id \notin {pair[1], pair[2]}
      PROVE  pair \in olderIn(rest)
  <2>1. PICK i \in DOMAIN tasks : \E j \in DOMAIN tasks :
               i < j /\ pair = <<tasks[i].id, tasks[j].id>>
    BY OlderMembers
  <2>2. PICK j \in DOMAIN tasks : i < j /\ pair = <<tasks[i].id, tasks[j].id>>
    BY <2>1
  <2>3. i # k /\ j # k
    BY <1>9, <2>2
  <2>4. /\ back(i) \in DOMAIN rest /\ back(j) \in DOMAIN rest /\ back(i) < back(j)
        /\ pair = <<rest[back(i)].id, rest[back(j)].id>>
    BY <1>5, <1>7, <2>2, <2>3
  <2> QED BY <2>4, OlderMembers
<1> QED BY <1>2, <1>8, <1>9

-----------------------------------------------------------------------------
\* The tasks of a source seen as ids

\* A task that is added adds its id, for its source alone.
LEMMA IdsAfterAdding ==
  ASSUME NEW S, NEW t, NEW s
  PROVE  idsOf(S \cup {t}, s)
           = IF s = t.source THEN idsOf(S, s) \cup {t.id} ELSE idsOf(S, s)
BY DEF idsOf

\* A task that leaves takes its id away, for its source alone.
LEMMA IdsAfterRemoving ==
  ASSUME NEW S, NEW t, NEW s, \A u \in S : u.id = t.id => u = t
  PROVE  idsOf(S \ {t}, s)
           = IF s = t.source THEN idsOf(S, s) \ {t.id} ELSE idsOf(S, s)
BY DEF idsOf

\* A finite set of tasks has no more ids than tasks.
LEMMA IdsCount ==
  ASSUME NEW S, IsFiniteSet(S)
  PROVE  /\ IsFiniteSet({t.id : t \in S})
         /\ Cardinality({t.id : t \in S}) <= Cardinality(S)
         /\ Cardinality({t.id : t \in S}) \in Nat
<1> DEFINE ids == {t.id : t \in S}
           f == [t \in S |-> t.id]
<1>1. f \in [S -> ids] /\ \A x \in ids : \E t \in S : f[t] = x
  OBVIOUS
<1>2. f \in Surjection(S, ids)
  BY <1>1 DEF Surjection
<1> HIDE DEF f, ids
<1>3. IsFiniteSet(ids) /\ Cardinality(ids) <= Cardinality(S)
  BY <1>2, FS_Surjection
<1> QED BY <1>3, FS_CardinalityType DEF ids

\* The ids of all sources together are the ids of the set.
LEMMA IdsOfAllSources ==
  ASSUME NEW Sources, NEW S, \A t \in S : t.source \in Sources
  PROVE  UNION {idsOf(S, s) : s \in Sources} = {t.id : t \in S}
<1>1. ASSUME NEW x \in UNION {idsOf(S, s) : s \in Sources}
      PROVE  x \in {t.id : t \in S}
  BY DEF idsOf
<1>2. ASSUME NEW t \in S
      PROVE  t.id \in UNION {idsOf(S, s) : s \in Sources}
  <2>1. t.id \in idsOf(S, t.source)
    BY DEF idsOf
  <2> QED BY <2>1
<1> QED BY <1>1, <1>2

-----------------------------------------------------------------------------
\* The differences between two tables

\* What the rest of the code relies on: per key that differs there is exactly
\* one change, with the operation that fits and the row that goes with it.
\* What setPublic and the numbering do to public and changeid is left open.
Fit(D, txid, source, table) ==
  /\ \A k \in Keys : source[k] # table[k] => \E c \in D : c.key = k
  /\ \A c, d \in D : c.key = d.key => c = d
  /\ \A c \in D :
       /\ c.txid = txid
       /\ c.key \in Keys
       /\ source[c.key] # table[c.key]
       /\ c.operation = IF table[c.key] = NoRow THEN "insert"
                        ELSE IF source[c.key] = NoRow THEN "delete" ELSE "update"
       /\ c.row = IF source[c.key] = NoRow THEN table[c.key] ELSE source[c.key]

\* computeDifferences: inserts, updates and deletes together fit.
LEMMA DifferencesFit ==
  ASSUME NEW txid, NEW source, NEW table
  PROVE  Fit(computeDifferences(txid, source, table), txid, source, table)
<1> DEFINE D == computeDifferences(txid, source, table)
<1>1. ASSUME NEW k \in Keys, source[k] # table[k]
      PROVE  \E c \in D : c.key = k
  <2>1. CASE table[k] = NoRow
    <3>1. NewChange(txid, "insert", k, source[k]) \in D
      BY <1>1, <2>1 DEF computeDifferences, computeInserts, Present
    <3> QED BY <3>1 DEF NewChange
  <2>2. CASE table[k] # NoRow /\ source[k] # NoRow
    <3>1. NewChange(txid, "update", k, source[k]) \in D
      BY <1>1, <2>2 DEF computeDifferences, computeUpdates, Present
    <3> QED BY <3>1 DEF NewChange
  <2>3. CASE source[k] = NoRow
    <3>1. NewChange(txid, "delete", k, table[k]) \in D
      BY <1>1, <2>3 DEF computeDifferences, computeDeletes, Present
    <3> QED BY <3>1 DEF NewChange
  <2> QED BY <2>1, <2>2, <2>3
<1>2. \A c \in D : c = NewChange(txid, c.operation, c.key, c.row)
  BY DEF computeDifferences, computeInserts, computeUpdates, computeDeletes, NewChange
<1>3. \A c \in D :
       /\ c.txid = txid
       /\ c.key \in Keys
       /\ source[c.key] # table[c.key]
       /\ c.operation = IF table[c.key] = NoRow THEN "insert"
                        ELSE IF source[c.key] = NoRow THEN "delete" ELSE "update"
       /\ c.row = IF source[c.key] = NoRow THEN table[c.key] ELSE source[c.key]
  BY DEF computeDifferences, computeInserts, computeUpdates, computeDeletes, NewChange, Present
<1>4. \A c, d \in D : c.key = d.key => c = d
  BY <1>2, <1>3
<1> QED BY <1>1, <1>3, <1>4 DEF Fit

\* There are only finitely many: at most one per key.
LEMMA DifferencesFinite ==
  ASSUME NEW D, NEW txid, NEW source, NEW table, IsFiniteSet(Keys), Fit(D, txid, source, table)
  PROVE  IsFiniteSet(D)
<1> DEFINE f == [c \in D |-> c.key]
<1>1. f \in Injection(D, Keys)
  BY DEF Fit, Injection, IsInjective
<1> QED BY <1>1, FS_Injection

\* The change of a key that has one.
LEMMA TheChange ==
  ASSUME NEW D, NEW txid, NEW source, NEW table, Fit(D, txid, source, table),
         NEW c \in D
  PROVE  /\ HasChange(D, c.key)
         /\ RowIn(D, c.key) = c.row
         /\ \A operation : HasChange(WithOperation(D, operation), c.key) <=> operation = c.operation
         /\ RowIn(WithOperation(D, c.operation), c.key) = c.row
<1>1. \A d \in D : d.key = c.key => d = c
  BY DEF Fit
<1> QED BY <1>1 DEF HasChange, RowIn, WithOperation

\* applyChanges: deletes, updates and inserts that fit turn the table into
\* the source, although the updates do not look at the operation.
THEOREM ChangesLeadToSource ==
  ASSUME NEW D, NEW txid, NEW S, NEW source \in [Keys -> S], NEW table \in [Keys -> S],
         Fit(D, txid, source, table)
  PROVE  applyChanges(table, D) = source
<1> DEFINE deleted == applyDeletes(table, D)
           updated == applyUpdates(deleted, D)
           inserted == applyInserts(updated, D)
<1>1. ASSUME NEW k \in Keys PROVE inserted[k] = source[k]
  <2>1. CASE \E c \in D : c.key = k
    <3>1. PICK c \in D : c.key = k
      BY <2>1
    <3>2. /\ HasChange(D, k) /\ RowIn(D, k) = c.row
          /\ \A operation : HasChange(WithOperation(D, operation), k) <=> operation = c.operation
          /\ RowIn(WithOperation(D, c.operation), k) = c.row
      BY <3>1, TheChange
    <3>3. /\ source[k] # table[k]
          /\ c.operation = IF table[k] = NoRow THEN "insert"
                           ELSE IF source[k] = NoRow THEN "delete" ELSE "update"
          /\ c.row = IF source[k] = NoRow THEN table[k] ELSE source[k]
      BY <3>1 DEF Fit
    <3>4. deleted[k] = IF c.operation = "delete" THEN NoRow ELSE table[k]
      BY <3>2 DEF applyDeletes
    <3>5. updated[k] = IF deleted[k] # NoRow THEN c.row ELSE deleted[k]
      BY <3>2 DEF applyUpdates
    <3>6. inserted[k] = IF c.operation = "insert" THEN c.row ELSE updated[k]
      BY <3>2 DEF applyInserts
    <3> QED BY <3>3, <3>4, <3>5, <3>6
  <2>2. CASE ~ \E c \in D : c.key = k
    <3>1. source[k] = table[k]
      BY <2>2 DEF Fit
    <3> QED BY <2>2, <3>1
         DEF applyDeletes, applyUpdates, applyInserts, HasChange, WithOperation
  <2> QED BY <2>1, <2>2
<1>2. inserted \in [Keys -> {inserted[k] : k \in Keys}]
  BY DEF applyInserts
<1> QED BY <1>1, <1>2 DEF applyChanges
==============================================================================
