---------------------------- MODULE CurrentTables ----------------------------
(***************************************************************************)
(* The tables derived from a bitemporal one (import-util): the history,    *)
(* with adjacent periods of equal rows merged, and the current table, with *)
(* the rows that are valid at the virkning time. The virkning time is kept *)
(* in the database; each import moves it on, and so rows may enter and     *)
(* leave the current table without any change in the register.             *)
(*                                                                         *)
(* A slice is [value, from, to]: what the register holds of an object for  *)
(* a period of valid time, from included and to not. Only slices with an   *)
(* open registration matter.                                               *)
(*                                                                         *)
(* Times are counted in half milliseconds: the database has a finer clock  *)
(* than the timestamps of JavaScript.                                      *)
(***************************************************************************)
EXTENDS Integers, FiniteSets, Functions

CONSTANTS Ids,
          NoRow,
          Timelines,    \* sets of slices the register may hold of an object
          MaxTime,      \* bound of the clock
          Tolerance,    \* 2 minutes
          MaxRowkey,    \* bound of rowkey_sequence
          Registered,   \* registration times an import may bring
          Importers,    \* processes that import
          Polling,      \* the daemons among them that run without a notification_url
          NotBegun

Times == 0..MaxTime
Forever == MaxTime + 1

Values == {s.value : s \in UNION Timelines}
Slices == [value : Values, from : Times, to : 1..Forever]

Disjoint(slices) ==
  \A s, t \in slices : s # t => s.to <= t.from \/ t.to <= s.from

\* The mapper of the register drops empty periods (postgresMapper.js:79-85).
ASSUME CurrentTablesAssumption ==
  /\ MaxTime \in Nat /\ Tolerance \in Nat /\ MaxRowkey \in Nat
  /\ NotBegun \notin Times /\ Registered \subseteq Times
  /\ {} \in Timelines
  /\ \A slices \in Timelines :
       /\ slices \subseteq Slices /\ IsFiniteSet(slices) /\ Disjoint(slices)
       /\ \A s \in slices : s.from < s.to
  /\ NoRow \notin Values /\ IsFiniteSet(Ids)
  /\ Polling \subseteq Importers

VARIABLES clock,
          began,        \* NOW() of the transaction of each process, while it waits for the lock or imports
          raw,          \* the slices of each object
          history,      \* rows [rowkey, id, value, from, to]
          nextRowkey,   \* rowkey_sequence
          current,      \* the value of each id, or NoRow
          virkning      \* prev_virkning is only read by the import that writes it

NoRows == [id \in Ids |-> NoRow]

tables == <<raw, history, current, virkning>>
vars == <<clock, began, nextRowkey, tables>>

-----------------------------------------------------------------------------
\* The virkning time.
Millis(t) == t - (t % 2)
Latest(t, u) == IF t > u THEN t ELSE u

\* now is NOW(), registered the greatest registration time among the changes
\* of the transaction, or 0. Too late a registration time is ignored.
getNextVirkningTime(now, registered) ==
  LET virkningTimeDb == Millis(Latest(virkning, now))
      changesTime == Millis(registered)
  IN  IF virkningTimeDb + Tolerance > changesTime
      THEN Latest(virkningTimeDb, changesTime) ELSE virkningTimeDb

\* It cannot move back.
MayBeSet(newVirkning) == Millis(virkning) <= newVirkning

-----------------------------------------------------------------------------
\* The history.
IsHead(s, slices) == \A p \in slices : p.value = s.value => p.to # s.from

\* Slip: rows of another value end a period.
IsTail_AnyValue(s, slices) == \A n \in slices : n.value # s.value => n.from # s.to

IsTail(s, slices) == \A n \in slices : n.value = s.value => n.from # s.to

\* Every head with the end of the first tail from there on.
mergeValidTime(slices) ==
  LET tails(h) == {s \in slices : IsTail(s, slices) /\ s.from >= h.from}
      first(h) == CHOOSE s \in tails(h) : \A t \in tails(h) : s.from <= t.from
  IN  {[h EXCEPT !.to = first(h).to] : h \in {s \in slices : IsHead(s, slices)}}

\* The rows the history should have of the objects, without their keys.
Desired(ids, slicesOf) ==
  UNION {{[id |-> id, slice |-> s] : s \in mergeValidTime(slicesOf[id])} : id \in ids}

\* Slip: a period keeps its key only as long as nothing of it changes.
OldRows_Same(row) ==
  {r \in history : r.id = row.id /\ r.from = row.slice.from
                     /\ r.to = row.slice.to /\ r.value = row.slice.value}

\* A period that starts when it used to keeps its key.
OldRows(row) == {r \in history : r.id = row.id /\ r.from = row.slice.from}

\* The rows with their keys; the sequence numbers those that have none.
WithRowkeys(rows, numbers) ==
  {[rowkey |-> IF row \in DOMAIN numbers THEN numbers[row]
               ELSE (CHOOSE r \in OldRows(row) : TRUE).rowkey,
    id |-> row.id, value |-> row.slice.value, from |-> row.slice.from, to |-> row.slice.to] :
     row \in rows}

HistoryOf(ids) == {r \in history : r.id \in ids}

\* The rows of the change table that lead from rows to desired ones with the
\* same keys: inserts and updates have the new row, deletes the old one.
HistoryChanges(desired, rows) ==
  (desired \ rows) \cup {r \in rows : \A d \in desired : d.rowkey # r.rowkey}

-----------------------------------------------------------------------------
\* The current table.
ValidRows(table, id, time) ==
  {r \in table : r.id = id /\ r.from <= time /\ time < r.to}

\* The view of the materialization.
View(table, time) ==
  [id \in Ids |-> IF ValidRows(table, id, time) = {} THEN NoRow
                  ELSE (CHOOSE r \in ValidRows(table, id, time) : TRUE).value]

\* Slip: the new virkning time itself is left to the next import.
Passed_Later(time, from, to) == from < time /\ time < to

\* time has come between two virkning times.
Passed(time, from, to) == from < time /\ time <= to

ChangedByVirkning(table, from, to) ==
  {id \in Ids : \E r \in table :
     r.id = id /\ (Passed(r.from, from, to) \/ Passed(r.to, from, to))}

computeDirty(changes, view) ==
  {id \in Ids : (\E c \in changes : c.id = id) /\ (current[id] # NoRow \/ view[id] # NoRow)}

\* The objects that are renewed after changes that lead to the history table,
\* when the virkning time goes from one value to another.
Dirty(changes, table, from, to) ==
  LET passed == ChangedByVirkning(table, from, to)
  IN  IF current = NoRows THEN Ids
      ELSE IF changes = {} /\ passed = {} THEN {}
      ELSE computeDirty(changes, View(table, to)) \cup passed

Renewed(dirty, view) == [id \in Ids |-> IF id \in dirty THEN view[id] ELSE current[id]]

-----------------------------------------------------------------------------
Init ==
  /\ clock \in Times
  /\ began = [p \in Importers |-> NotBegun]
  /\ raw = [id \in Ids |-> {}]
  /\ history = {}
  /\ nextRowkey = 1
  /\ current = NoRows
  /\ virkning = clock

Tick ==
  /\ clock < MaxTime
  /\ clock' = clock + 1
  /\ UNCHANGED <<began, nextRowkey, tables>>

\* BEGIN; the lock may be granted much later.
Begin(p) ==
  /\ began[p] = NotBegun
  /\ began' = [began EXCEPT ![p] = clock]
  /\ UNCHANGED <<clock, nextRowkey, tables>>

\* Slip: only what the register sent counts.
HasModified_Register(touched, elsewhere, historyChanges, newCurrent) ==
  touched # {} \/ elsewhere

\* Some table has changes; elsewhere: only ones that are not looked at here.
HasModified(touched, elsewhere, historyChanges, newCurrent) ==
  touched # {} \/ elsewhere \/ historyChanges # {} \/ newCurrent # current

RawAfter(touched) == {[id \in Ids |-> IF id \in touched THEN slicesOf[id] ELSE raw[id]] :
                        slicesOf \in [touched -> Timelines]}

\* What an import makes of the changes it found, and nothing if no table has
\* any. The sequence keeps what it gave.
ImportOf(p, touched, newRaw, elsewhere, registered) ==
  LET newVirkning == getNextVirkningTime(began[p], registered)
      ids == IF history = {} THEN Ids ELSE touched
      rows == Desired(ids, newRaw)
      new == {row \in rows : OldRows(row) = {}}
      last == nextRowkey + Cardinality(new) - 1
  IN  /\ MayBeSet(newVirkning)
      /\ last <= MaxRowkey
      /\ nextRowkey' = last + 1
      /\ \E numbers \in Injection(new, nextRowkey..last) :
           LET desired == WithRowkeys(rows, numbers)
               changes == HistoryChanges(desired, HistoryOf(ids))
               newHistory == (history \ HistoryOf(ids)) \cup desired
               dirty == Dirty(changes, newHistory, virkning, newVirkning)
               newCurrent == Renewed(dirty, View(newHistory, newVirkning))
           IN  IF HasModified(touched, elsewhere, changes, newCurrent)
               THEN /\ raw' = newRaw
                    /\ history' = newHistory
                    /\ current' = newCurrent
                    /\ virkning' = newVirkning
               ELSE UNCHANGED tables

\* The import: the bitemporal rows, the virkning time, the history and the
\* current table, in one transaction. touched: the objects with changes, in
\* slices or in what is not seen here; elsewhere: other tables have changes.
Import(p) ==
  /\ began[p] # NotBegun
  /\ \E touched \in SUBSET Ids : \E newRaw \in RawAfter(touched),
        elsewhere \in IF touched = {} THEN BOOLEAN ELSE {FALSE} :
      \E registered \in {0} \cup IF touched = {} /\ ~ elsewhere THEN {} ELSE Registered :
        ImportOf(p, touched, newRaw, elsewhere, registered)
  /\ began' = [began EXCEPT ![p] = NotBegun]
  /\ UNCHANGED clock

\* The transaction fails; the sequence does not go back.
Fail(p) ==
  /\ began[p] # NotBegun
  /\ began' = [began EXCEPT ![p] = NotBegun]
  /\ nextRowkey' \in {k \in {nextRowkey, nextRowkey + 1} : k <= MaxRowkey + 1}
  /\ UNCHANGED <<clock, tables>>

Next ==
  \/ Tick
  \/ \E p \in Importers : Begin(p) \/ Import(p) \/ Fail(p)

Spec == Init /\ [][Next]_vars

\* A daemon without a notification_url asks DAR for its status every
\* poll_interval and imports, also when the answer is as before; DAR answers
\* and an import succeeds now and then. A daemon with a notification_url (the
\* default) imports once and then waits, without a timeout, for a notification
\* or for its websocket to close, and other importers are commands: nothing
\* makes them begin.
FairSpec == Spec /\ \A p \in Polling : WF_vars(Begin(p)) /\ SF_vars(Import(p))

-----------------------------------------------------------------------------
HistoryRows == [rowkey : 1..MaxRowkey, id : Ids, value : Values, from : Times, to : 1..Forever]

TypeOK ==
  /\ clock \in Times
  /\ began \in [Importers -> Times \cup {NotBegun}]
  /\ raw \in [Ids -> Timelines]
  /\ history \subseteq HistoryRows
  /\ nextRowkey \in 1..MaxRowkey + 1
  /\ current \in [Ids -> Values \cup {NoRow}]
  /\ virkning \in Times

\* The current table has exactly the rows of the history that are valid at the
\* virkning time, although an import only renews the objects with changes and
\* those with a limit between the old and the new time.
CurrentIsValidNow == current = View(history, virkning)

ValuesAt(periods, t) == {r.value : r \in {s \in periods : s.from <= t /\ t < s.to}}

\* At any time history and register agree on every object, and a period of
\* the history goes as far as the value stays the same.
HistoryIsMerged ==
  \A id \in Ids :
    /\ Disjoint(HistoryOf({id}))
    /\ \A t \in Times : ValuesAt(HistoryOf({id}), t) = ValuesAt(raw[id], t)
    /\ \A r, s \in HistoryOf({id}) : r.to = s.from => r.value # s.value

\* Rows with the same key are the same period of the same object, and a
\* period that is kept keeps its key: consumers follow it by the key.
RowkeysAreKept ==
  [][\A r \in history, s \in history' : r.rowkey = s.rowkey <=> r.id = s.id /\ r.from = s.from]_vars

\* As long as a daemon polls, what begins or ends by a time t is seen in the
\* current table some time after t, also when the register sends nothing: an
\* import that finds no changes there still looks at what time has passed.
\* (In the default mode, with a notification_url, nothing takes effect while
\* the register is silent: no import begins. The virkning time is a full
\* millisecond, so times between two of them take effect with the later one.)
EverythingTakesEffect ==
  \A t \in {u \in Times : Millis(u) = u} :
    (clock >= t) ~> \E v \in t..MaxTime : current = View(history, v)
==============================================================================
