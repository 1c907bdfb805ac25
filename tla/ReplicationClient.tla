-------------------------- MODULE ReplicationClient --------------------------
(***************************************************************************)
(* The replication client (replication-client-impl.js) keeping a copy of   *)
(* the tables of ReplicationServer in a database of its own.               *)
(*                                                                         *)
(* A run is one "replicate" command. It asks the server for its last       *)
(* transaction and then brings every entity to that transaction, in one    *)
(* database transaction or in one per entity. Database transactions are    *)
(* single steps: they take the advisory lock of withTransaction. What they *)
(* ask the server lies in the past of the server and is stable             *)
(* (PastStaysButTimes), so it does not matter when during the step it is   *)
(* asked.                                                                  *)
(*                                                                         *)
(* The attributes of an entity that are copied are chosen in the           *)
(* configuration of the client. Here ændret is not among them, the one     *)
(* column that does not stay as it was.                                    *)
(***************************************************************************)
EXTENDS ReplicationServer

CONSTANTS Runs,             \* replicate commands that may be under way at once
          ForceDownloads,   \* values of --force-download
          Failures,         \* may a request fail, or the process be killed?
          MaxLocalTxid      \* bound: no command starts after so many local transactions

ASSUME ClientAssumption ==
  /\ ForceDownloads \subseteq BOOLEAN
  /\ Failures \in BOOLEAN
  /\ MaxLocalTxid \in Nat

VARIABLES copy,                 \* the local tables
          sourceTransactions,   \* source_txid values per entity; primary key
                                \* (source_txid, entity)
          localTxid,            \* the last txid of the local transactions table
          localChanges,         \* the local change tables
          run                   \* the runs

clientVars == <<copy, sourceTransactions, localTxid, localChanges, run>>
vars == <<serverVars, clientVars>>

Copies == [Keys -> Publics \cup {NoRow}]

IdleRun == [state |-> "idle", remoteTxid |-> 0, force |-> FALSE, multiple |-> FALSE, todo |-> {}]

ClientInit ==
  /\ copy = [e \in Entities |-> [k \in Keys |-> NoRow]]
  /\ sourceTransactions = [e \in Entities |-> {}]
  /\ localTxid = 0
  /\ localChanges = [e \in Entities |-> {}]
  /\ run = [r \in Runs |-> IdleRun]

Init == ServerInit /\ ClientInit

-----------------------------------------------------------------------------
\* updateEntity: what happens to one entity in one local transaction

\* max(source_txid). An entity with rows always has one.
lastRemoteTxid(e) == CHOOSE t \in sourceTransactions[e] : \A s \in sourceTransactions[e] : t >= s

\* Slip: the first event of each object wins.
lastOperations_First(events) ==
  {c \in events : \A d \in events : d.key = c.key => c.txid <= d.txid}

\* ROW_NUMBER() OVER (PARTITION BY key ORDER BY txid DESC) = 1
lastOperations(events) ==
  {c \in events : \A d \in events : d.key = c.key => c.txid >= d.txid}

\* Slip: the operation is believed.
localOperation_Believed(c, table) == c.operation

\* An update of an object that is not there is an insert, an insert of one
\* that is there an update.
localOperation(c, table) ==
  IF c.operation = "delete" THEN "delete"
  ELSE IF table[c.key] = NoRow THEN "insert" ELSE "update"

\* The temporary change table. Deletes of objects that are not there are left
\* out.
eventChanges(txid, events, table) ==
  {NewChange(txid, localOperation(c, table), c.key, c.row.public) :
     c \in {d \in lastOperations(events) : d.operation # "delete" \/ table[d.key] # NoRow}}

\* Only rows of the public part arrive here.
Downloaded(e, remoteTxid) == udtraek(e, remoteTxid)

\* Slip: the events from the last transaction on, which has been loaded.
newEvents_From(e, remoteTxid) == haendelser(e, lastRemoteTxid(e), remoteTxid - 1)

newEvents(e, remoteTxid) == haendelser(e, lastRemoteTxid(e) + 1, remoteTxid)

hasContent(e) == Present(copy[e]) # {}

\* The branch updateEntity takes.
Method(e, remoteTxid, force) ==
  IF ~hasContent(e) THEN "initialize"
  ELSE IF force THEN "download"
  ELSE IF newEvents(e, remoteTxid) = {} THEN "nothing"
  ELSE "events"

\* The rows that go into the change table of the entity, if there is one. An
\* initial download leaves none.
entityChanges(txid, e, remoteTxid, force) ==
  CASE Method(e, remoteTxid, force) = "download" ->
         computeDifferences(txid, Downloaded(e, remoteTxid), copy[e])
    [] Method(e, remoteTxid, force) = "events" ->
         eventChanges(txid, newEvents(e, remoteTxid), copy[e])
    [] OTHER -> {}

updatedCopy(txid, e, remoteTxid, force) ==
  IF Method(e, remoteTxid, force) = "initialize" THEN Downloaded(e, remoteTxid)
  ELSE applyChanges(copy[e], entityChanges(txid, e, remoteTxid, force))

\* Slip: the transaction is always recorded.
Recorded_Always(e, remoteTxid, force) == {remoteTxid}

\* Without events the transaction is not recorded.
Recorded(e, remoteTxid, force) ==
  IF Method(e, remoteTxid, force) = "nothing" THEN {} ELSE {remoteTxid}

\* INSERT INTO source_transactions fails for a transaction that is there.
Succeeds(e, remoteTxid, force) ==
  Recorded(e, remoteTxid, force) \cap sourceTransactions[e] = {}

\* A committed local transaction over some entities.
Replicate(entities, remoteTxid, force) ==
  LET txid == localTxid + 1
  IN  /\ localTxid' = txid
      /\ copy' = [e \in Entities |-> IF e \in entities
                    THEN updatedCopy(txid, e, remoteTxid, force) ELSE copy[e]]
      /\ sourceTransactions' = [e \in Entities |-> IF e \in entities
                    THEN sourceTransactions[e] \cup Recorded(e, remoteTxid, force)
                    ELSE sourceTransactions[e]]
      /\ localChanges' = [e \in Entities |-> IF e \in entities
                    THEN localChanges[e] \cup entityChanges(txid, e, remoteTxid, force)
                    ELSE localChanges[e]]

-----------------------------------------------------------------------------
\* update()

\* lastTransaction() is asked before any local transaction, so outside the
\* lock. entities is the --entities option.
Start(r, force, multiple, entities) ==
  /\ run[r].state # "updating"
  /\ localTxid < MaxLocalTxid
  /\ run' = [run EXCEPT ![r] = [state |-> "updating", remoteTxid |-> senesteTransaktion,
                                force |-> force, multiple |-> multiple, todo |-> entities]]
  /\ UNCHANGED <<serverVars, copy, sourceTransactions, localTxid, localChanges>>

\* One transaction for all entities. An entity that fails rolls all back and
\* ends the command.
UpdateSingleTx(r) ==
  /\ run[r].state = "updating" /\ ~run[r].multiple
  /\ IF \A e \in run[r].todo : Succeeds(e, run[r].remoteTxid, run[r].force)
     THEN /\ Replicate(run[r].todo, run[r].remoteTxid, run[r].force)
          /\ run' = [run EXCEPT ![r].state = "done"]
     ELSE /\ run' = [run EXCEPT ![r].state = "failed"]
          /\ UNCHANGED <<copy, sourceTransactions, localTxid, localChanges>>
  /\ UNCHANGED serverVars

\* One transaction per entity, in any order here. One that fails is tried
\* again after 10 seconds, with the same remoteTxid: no step.
UpdateMultipleTx(r, e) ==
  /\ run[r].state = "updating" /\ run[r].multiple
  /\ e \in run[r].todo
  /\ Succeeds(e, run[r].remoteTxid, run[r].force)
  /\ Replicate({e}, run[r].remoteTxid, run[r].force)
  /\ run' = [run EXCEPT ![r].todo = run[r].todo \ {e},
                        ![r].state = IF run[r].todo = {e} THEN "done" ELSE "updating"]
  /\ UNCHANGED serverVars

\* The process is killed, or a request of the single transaction fails: the
\* transaction under way is rolled back, earlier ones stay.
Fail(r) ==
  /\ Failures
  /\ run[r].state = "updating"
  /\ run' = [run EXCEPT ![r].state = "failed"]
  /\ UNCHANGED <<serverVars, copy, sourceTransactions, localTxid, localChanges>>

ServerStep == ServerNext /\ UNCHANGED clientVars

Next ==
  \/ ServerStep
  \/ \E r \in Runs, force \in ForceDownloads, multiple \in BOOLEAN,
        entities \in (SUBSET Entities) \ {{}} : Start(r, force, multiple, entities)
  \/ \E r \in Runs : UpdateSingleTx(r)
  \/ \E r \in Runs, e \in Entities : UpdateMultipleTx(r, e)
  \/ \E r \in Runs : Fail(r)

Spec == Init /\ [][Next]_vars

\* A command that has been started is carried on: the process runs, and the
\* requests of one of its attempts succeed.
Fairness ==
  /\ \A r \in Runs : WF_vars(UpdateSingleTx(r))
  /\ \A r \in Runs, e \in Entities : WF_vars(UpdateMultipleTx(r, e))

FairSpec == Spec /\ Fairness

-----------------------------------------------------------------------------
\* The copy of an entity is what the server had right after the last
\* transaction recorded for it (also when later transactions without events
\* for the entity went unrecorded, or a command was killed half way). This is
\* about the columns that no hook of the server rewrites: a copy of
\* ejerlav.ændret falls behind, as no event tells that a past time moved.
CopyIsSnapshot ==
  \A e \in Entities :
    copy[e] = IF sourceTransactions[e] = {} THEN [k \in Keys |-> NoRow]
              ELSE udtraek(e, lastRemoteTxid(e))

\* The step that ends the work of a command on an entity brings the entity to
\* the transaction of the command.
ReachesTransaction(r, e) ==
  /\ run[r].state = "updating" /\ e \in run[r].todo
  /\ e \notin run'[r].todo \/ run'[r].state = "done"
  => copy'[e] = udtraek(e, run[r].remoteTxid)

\* An entity that a command is through with is at the transaction of the
\* command, whichever way it was updated, in all columns but ændret (see
\* CopyIsSnapshot). A command in one transaction brings all its entities
\* there at once.
RunsReachTheirTransaction ==
  [][\A r \in Runs, e \in Entities : ReachesTransaction(r, e)]_vars

\* The changes a step adds for an entity say what it does to the copy. (The
\* row of a delete is left out: it is what the server had last.)
NewChangesFit(e) ==
  LET new == localChanges'[e] \ localChanges[e]
  IN  /\ \A c, d \in new : c.key = d.key => c = d
      /\ \A c \in new : /\ c.txid = localTxid'
                        /\ c.operation = "insert" <=> copy[e][c.key] = NoRow
                        /\ c.operation = "delete" <=> copy'[e][c.key] = NoRow
                        /\ c.operation # "delete" => c.row = copy'[e][c.key]
      /\ IF hasContent(e)
         THEN \A k \in Keys : copy'[e][k] # copy[e][k] => HasChange(new, k)
         ELSE new = {}

\* The local change tables can be relied on: in every transaction an object
\* has at most one change, inserts are of objects that were not there, updates
\* and deletes of objects that were, and inserts and updates have the row that
\* is there afterwards. Nothing changes without a change row, except when the
\* table was empty: an initial download leaves no change rows.
LocalChangesFit == [][\A e \in Entities : NewChangesFit(e)]_vars

\* A download of a transaction that has been recorded already: the primary
\* key of source_transactions makes every attempt fail.
Stuck(r) ==
  /\ run[r].multiple
  /\ \E e \in run[r].todo : /\ run[r].remoteTxid \in sourceTransactions[e]
                            /\ run[r].force \/ ~hasContent(e)

\* A command ends, or it works in several transactions and is stuck with a
\* download of a transaction it has. Without --force-download that is only an
\* empty table. Nothing else is retried for ever.
RunsEnd == \A r \in Runs : run[r].state = "updating" ~> (run[r].state # "updating" \/ Stuck(r))
==============================================================================
