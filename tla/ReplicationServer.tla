-------------------------- MODULE ReplicationServer --------------------------
(***************************************************************************)
(* The replicated tables of the server: import transactions write them and *)
(* their change tables, the replication API reads snapshots and events     *)
(* from the change tables.                                                 *)
(*                                                                         *)
(* An import transaction is one step: it is a database transaction, other  *)
(* writers wait for its advisory lock, readers see it committed or not at  *)
(* all, and one that fails leaves nothing behind. A request of the API is  *)
(* one SELECT, so a state function here.                                   *)
(*                                                                         *)
(* A row here has the columns that no import writes again. The column      *)
(* ændret of the change rows, which a hook writes again in rows of earlier *)
(* transactions, is the variable changed.                                  *)
(***************************************************************************)
EXTENDS ChangeTable, Sequences

CONSTANTS Entities,      \* the tables
          Position,      \* of a table in orderedTableModels, from 1
          References,    \* immutable foreign keys: [entity, key, parent, parentKey]
          Publics,       \* values of the public columns
          Hiddens,       \* values of the private columns
          TimedTables,   \* the sets of tables with the column ændret that are looked at
          MaxTxid        \* bound on the number of transactions

Rows == [public : Publics, hidden : Hiddens]

Operations == {"insert", "update", "delete"}

ASSUME ServerAssumption ==
  /\ IsFiniteSet(Entities) /\ IsFiniteSet(Keys)
  /\ NoRow \notin Rows \cup Publics
  /\ MaxTxid \in Nat \ {0}
  /\ Position \in [Entities -> 1..Cardinality(Entities)]
  /\ \A e, f \in Entities : Position[e] = Position[f] => e = f
  /\ TimedTables \subseteq SUBSET Entities
  /\ References \subseteq [entity : Entities, key : Keys, parent : Entities, parentKey : Keys]
  /\ \A r \in References : Position[r.parent] < Position[r.entity]

VARIABLES timed,          \* the tables of this schema with the column ændret of common-columns.js
          tables,         \* of each entity, its table
          changes,        \* of each entity, its change table
          changed,        \* of each entity, ændret of its change rows by txid and key;
                          \* NOW() is named by the txid, 0 is NULL
          history,        \* transaction_history
          transactions    \* transactions: [fra, til] by txid; [0, 0] for NULLs

serverVars == <<timed, tables, changes, changed, history, transactions>>

Tables == [Keys -> Rows \cup {NoRow}]

lastTxid == Len(transactions)

\* Foreign keys hold in a set of present keys per entity.
Consistent(present) ==
  \A r \in References : r.key \in present[r.entity] => r.parentKey \in present[r.parent]

Sources == {s \in [Entities -> Tables] : Consistent([e \in Entities |-> Present(s[e])])}

\* initializeFromScratch: public and changeid stay NULL.
initializeFromScratch(txid, source) == {NewChange(txid, "insert", k, source[k]) : k \in Present(source)}

Places == (1..MaxTxid) \X Keys

placesOf(rows) == {<<c.txid, c.key>> : c \in rows}

\* Slip: of the updates, too, those of earlier transactions get a new time.
setChanged_Updates(times, txid, rows) ==
  [p \in Places |-> IF p \in placesOf({c \in rows : c.operation # "delete"})
                    THEN txid ELSE times[p]]

\* The hook of the column ændret, which an import of the table runs over its
\* change table: WHERE operation = 'insert' OR operation = 'update' and
\* txid = ... AND binds stronger, so the inserts of all transactions get NOW().
setChanged(times, txid, rows) ==
  [p \in Places |-> IF p \in placesOf({c \in rows : \/ c.operation = "insert"
                                                    \/ c.operation = "update" /\ c.txid = txid})
                    THEN txid ELSE times[p]]

\* The first transaction loads the tables.
ServerInit ==
  /\ timed \in TimedTables
  /\ tables \in Sources
  /\ changes = [e \in Entities |-> initializeFromScratch(1, tables[e])]
  /\ changed = [e \in Entities |->
                  IF e \in timed THEN setChanged([p \in Places |-> 0], 1, changes[e])
                  ELSE [p \in Places |-> 0]]
  /\ history = {}
  /\ transactions = <<[fra |-> 0, til |-> 0]>>

-----------------------------------------------------------------------------
\* The end of an import transaction

\* Slip: only inserts and deletes are public.
setPublic_NoUpdates(e, differences, table) ==
  {[c EXCEPT !.public = c.operation # "update"] : c \in differences}

\* Inserts and deletes are public, updates only when a public column differs
\* from the table, which does not have the changes yet. ændret is one, it has
\* its new time by now, and so every update of its table is public.
setPublic(e, differences, table) ==
  {[c EXCEPT !.public = \/ c.operation # "update"
                        \/ e \in timed
                        \/ c.row.public # table[c.key].public] : c \in differences}

\* Slip: deletes in the order of the tables, too.
Batch_DeletesInOrder(e, operation) ==
  IF operation = "delete" THEN Position[e]
  ELSE Cardinality(Entities) + 2 * Position[e] - (IF operation = "insert" THEN 1 ELSE 0)

\* The calls of assignSequenceNumbers, in order: the deletes of the tables in
\* reverse, then inserts and updates of each table.
Batch(e, operation) ==
  IF operation = "delete" THEN Cardinality(Entities) + 1 - Position[e]
  ELSE Cardinality(Entities) + 2 * Position[e] - (IF operation = "insert" THEN 1 ELSE 0)

\* Is the change d of f numbered before the change c of e? Inside a batch the
\* order is row_number() over (): anything, here a ranking of the keys.
Precedes(f, d, e, c, ranking) ==
  \/ Batch(f, d.operation) < Batch(e, c.operation)
  \/ e = f /\ d.operation = c.operation /\ ranking[d.key] <= ranking[c.key]

numbersOf(rows) == {h.sequence_number : h \in rows}

leastNumber(rows) == CHOOSE n \in numbersOf(rows) : \A m \in numbersOf(rows) : n <= m

largestNumber(rows) == CHOOSE n \in numbersOf(rows) : \A m \in numbersOf(rows) : n >= m

\* Slip: numbers start again in every transaction.
lastSequenceNumber_PerTransaction == 0

\* coalesce(max(sequence_number), 0)
lastSequenceNumber == IF history = {} THEN 0 ELSE largestNumber(history)

Numbered(differences) ==
  UNION {{<<e, c>> : c \in {d \in differences[e] : d.public}} : e \in Entities}

sequenceNumber(differences, e, c, ranking) ==
  lastSequenceNumber
    + Cardinality({p \in Numbered(differences) : Precedes(p[1], p[2], e, c, ranking)})

assignSequenceNumbers(differences, ranking) ==
  [e \in Entities |->
     {[c EXCEPT !.changeid = IF <<e, c>> \in Numbered(differences)
                             THEN sequenceNumber(differences, e, c, ranking) ELSE 0] :
        c \in differences[e]}]

\* transaction_history of the transaction.
HistoryOf(differences) ==
  UNION {{[sequence_number |-> c.changeid, entity |-> e, operation |-> c.operation,
           txid |-> c.txid] : c \in {d \in differences[e] : d.changeid # 0}} : e \in Entities}

\* The row of transactions: least and largest sequence number, or NULLs.
Interval(rows) ==
  IF rows = {} THEN [fra |-> 0, til |-> 0]
  ELSE [fra |-> leastNumber(rows), til |-> largestNumber(rows)]

nextTxid == lastTxid + 1

Rankings == {r \in [Keys -> 1..Cardinality(Keys)] :
               \A j, k \in Keys : r[j] = r[k] => j = k}

\* withImportTransaction around importers that compute the differences to
\* their sources and apply them; then numbers, history and the interval. Of
\* the tables with ændret the importers of compared run: their hook does its
\* work also when their source is as before.
Import(source, ranking, compared) ==
  LET differences == [e \in Entities |->
                        setPublic(e, computeDifferences(nextTxid, source[e], tables[e]), tables[e])]
      numbered    == assignSequenceNumbers(differences, ranking)
  IN  /\ lastTxid < MaxTxid
      /\ \A e \in timed \ compared : source[e] = tables[e]
      /\ tables' = [e \in Entities |-> applyChanges(tables[e], differences[e])]
      /\ changes' = [e \in Entities |-> changes[e] \cup numbered[e]]
      /\ changed' = [e \in Entities |->
                       IF e \in compared
                       THEN setChanged(changed[e], nextTxid, changes[e] \cup differences[e])
                       ELSE changed[e]]
      /\ history' = history \cup HistoryOf(numbered)
      /\ transactions' = Append(transactions, Interval(HistoryOf(numbered)))
      /\ UNCHANGED timed

\* The bound is reached; in the code the importers go on.
ServerStops == lastTxid = MaxTxid /\ UNCHANGED serverVars

ServerNext ==
  \/ \E source \in Sources, ranking \in Rankings, compared \in SUBSET timed :
       Import(source, ranking, compared)
  \/ ServerStops

ServerSpec == ServerInit /\ [][ServerNext]_serverVars

-----------------------------------------------------------------------------
\* The replication API

\* Slip: the first change instead of the last.
Newest_Oldest(cs) == CHOOSE c \in cs : \A d \in cs : d.txid >= c.txid

\* ORDER BY txid DESC, changeid DESC NULLS LAST, row_num = 1.
Newest(cs) ==
  CHOOSE c \in cs :
    \A d \in cs : c.txid > d.txid \/ (c.txid = d.txid /\ c.changeid >= d.changeid)

\* The public columns after the change, NoRow after a delete.
PublicRow(c) == IF c.operation = "delete" THEN NoRow ELSE c.row.public

SnapshotOf(cs) ==
  [k \in Keys |-> LET mine == {c \in cs : c.key = k}
                  IN  IF mine = {} THEN NoRow ELSE PublicRow(Newest(mine))]

\* GET /replikering/udtraek?entitet=e&txid=t, without the column ændret
udtraek(e, t) == SnapshotOf({c \in changes[e] : c.txid <= t})

\* The change that decides the row of an object in a snapshot.
Deciding(e, t, k) == Newest({c \in changes[e] : c.txid <= t /\ c.key = k})

\* The column ændret of that snapshot, 0 where it has no row.
udtraekChanged(e, t) ==
  [k \in Keys |-> IF udtraek(e, t)[k] = NoRow THEN 0
                  ELSE changed[e][<<Deciding(e, t, k).txid, k>>]]

\* GET /replikering/haendelser?entitet=e&txidfra=from&txidtil=to
haendelser(e, from, to) ==
  {c \in changes[e] : /\ c.public
                      /\ from <= c.txid /\ c.txid <= to
                      /\ \E h \in history : /\ h.sequence_number = c.changeid
                                            /\ h.entity = e /\ h.txid = c.txid}

\* GET /replikering/haendelser?entitet=e&sekvensnummertil=n
haendelserUpTo(e, n) ==
  {c \in changes[e] : /\ c.public
                      /\ \E h \in history : /\ h.sequence_number = c.changeid
                                            /\ h.entity = e /\ h.sequence_number <= n}

\* GET /replikering/senestetransaktion
senesteTransaktion == lastTxid

-----------------------------------------------------------------------------
\* What a consumer does with events: the last one of each key decides.
Replay(snapshot, events) ==
  [k \in Keys |-> LET mine == {c \in events : c.key = k}
                  IN  IF mine = {} THEN snapshot[k]
                      ELSE PublicRow(CHOOSE c \in mine : \A d \in mine : c.changeid >= d.changeid)]

Published(table) == [k \in Keys |-> IF table[k] = NoRow THEN NoRow ELSE table[k].public]

\* Types.
Change == [txid : 1..MaxTxid, operation : Operations, key : Keys, row : Rows,
           public : BOOLEAN, changeid : Nat]

ServerTypeOK ==
  /\ timed \in TimedTables
  /\ tables \in [Entities -> Tables]
  /\ changes \in [Entities -> SUBSET Change]
  /\ changed \in [Entities -> [Places -> 0..MaxTxid]]
  /\ history \subseteq [sequence_number : Nat \ {0}, entity : Entities,
                        operation : Operations, txid : 1..MaxTxid]
  /\ transactions \in Seq([fra : Nat, til : Nat])
  /\ lastTxid \in 1..MaxTxid

\* A snapshot is the data right after its transaction: the snapshot of the
\* last transaction is the public part of the tables. (In the columns that no
\* hook rewrites: the ændret a snapshot shows of an object may be later than
\* that of the table, see PastStaysButTimes.)
SnapshotIsCurrent == \A e \in Entities : udtraek(e, lastTxid) = Published(tables[e])

\* A past time moves to that of the import under way, only in a table with
\* ændret, and only where the snapshot shows an insert.
MayMove(e, t, k) ==
  /\ e \in timed /\ Deciding(e, t, k).operation = "insert"
  /\ udtraekChanged(e, t)'[k] = lastTxid'

\* The documented meaning of a snapshot: it holds the changes of its own and
\* earlier transactions and nothing later, so it is the same whenever it is
\* asked for, and so are the events between two past transactions. Imports
\* keep this for every column but ændret, which is not kept: of an object
\* that was inserted and not updated since, every later import of its table
\* gives past snapshots a new time. (ejerlav publishes this column; that the
\* code should not do so is PastIsKept of ChangeColumns. Patches and
\* migrations that rewrite change tables by hand are not imports.)
PastStaysButTimes ==
  [][\A e \in Entities, t \in 1..lastTxid :
       /\ udtraek(e, t)' = udtraek(e, t)
       /\ \A s \in 1..t : haendelser(e, s, t)' = haendelser(e, s, t)
       /\ \A k \in Keys :
            udtraekChanged(e, t)'[k] # udtraekChanged(e, t)[k] => MayMove(e, t, k)]_serverVars

\* Snapshot and events agree: a copy made at one transaction and brought up
\* to date with the events since is the snapshot of the later transaction.
\* It fails as soon as a change that shows in a snapshot is not published as
\* an event, or the other way round.
EventsLeadToSnapshot ==
  \A e \in Entities : \A s, t \in 1..lastTxid :
    s <= t => Replay(udtraek(e, s), haendelser(e, s + 1, t)) = udtraek(e, t)

\* Sequence numbers are given once, without gaps, in the order of the
\* transactions, and the intervals in transactions are exactly theirs.
SequenceNumbersExact ==
  /\ numbersOf(history) = 1..Cardinality(history)
  /\ \A t \in 1..lastTxid :
       LET interval == transactions[t]
       IN  numbersOf({h \in history : h.txid = t}) =
             IF interval.til = 0 THEN {} ELSE interval.fra..interval.til
  /\ \A g, h \in history : g.txid < h.txid => g.sequence_number < h.sequence_number

\* The comment on assignSequenceNumbersToDependentTables: the numbers respect
\* the foreign keys. Whoever applies the events of all tables one by one in
\* the order of their numbers never has a row without the row it refers to.
PrefixesConsistent ==
  \A n \in 0..Cardinality(history) :
    Consistent([e \in Entities |->
                  Present(Replay(udtraek(e, 1), haendelserUpTo(e, n)))])
==============================================================================
