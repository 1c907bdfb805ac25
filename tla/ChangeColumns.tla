---------------------------- MODULE ChangeColumns ----------------------------
(***************************************************************************)
(* The columns of a table with geometries that the database keeps itself   *)
(* (import-util, common-columns.js), and how large geometries are moved to *)
(* S3 (s3-offload.js). An import computes the rows of the change table,    *)
(* lets every column set its part of them, among these the references to   *)
(* S3, where the geometries are uploaded one by one, and only then changes *)
(* the table and commits. An import that fails leaves what it uploaded.    *)
(*                                                                         *)
(* NULL is NoGeometry, NoRef or NoTime. NOW() is the same throughout a     *)
(* transaction, and is named by the txid.                                  *)
(***************************************************************************)
EXTENDS Naturals, FiniteSets, Sequences

CONSTANTS Keys, Attributes, NoRow,
          Geometries, NoGeometry,
          Shape,          \* ST_Equals(g, h) iff Shape[g] = Shape[h]
          Large,          \* geometries above the threshold of the offload
          Sources,        \* what a register may hold: a row or NoRow by key
          NoRef, NoTime,
          MaxTxid,        \* bound of the committed imports
          MaxAttempts     \* bound of the imports, those that fail among them

Refs == (1..MaxAttempts) \X Keys
Times == 1..MaxTxid

\* A row of the register and a row of the table.
Rows == [attr : Attributes, geom : Geometries \cup {NoGeometry}]
TableRows ==
  [attr : Attributes, geom : Geometries \cup {NoGeometry}, blobref : Refs \cup {NoRef},
   geo_version : Nat, geo_changed : Times, changed : Times]

ASSUME ChangeColumnsAssumption ==
  /\ MaxTxid \in Nat /\ MaxAttempts \in Nat
  /\ NoGeometry \notin Geometries /\ Large \subseteq Geometries
  /\ NoTime \notin Times /\ NoRef \notin Refs /\ NoRow \notin Rows \cup TableRows
  /\ Shape \in [Geometries -> Geometries]
  /\ Sources \subseteq [Keys -> Rows \cup {NoRow}]

VARIABLES table,      \* the row of each key, or NoRow
          changes,    \* rows of the change table
          s3,         \* records [ref, geom]
          imported,   \* the sources of the committed imports, in order: only for the properties
          attempts,   \* imports begun, which names the references of each (uuid)
          source,     \* what the running import reads
          pending     \* its rows of the change table; {} when none runs

columnVars == <<table, changes, s3, imported, attempts, source, pending>>

txid == Len(imported) + 1

-----------------------------------------------------------------------------
\* The comparison of geometries. Of a NULL ST_Equals gives NULL, which an
\* UPDATE ... WHERE takes for false.
IsDistinct(g, h) ==
  /\ g # h
  /\ NoGeometry \in {g, h} \/ Shape[g] # Shape[h]

NotStEquals(g, h) == NoGeometry \notin {g, h} /\ Shape[g] # Shape[h]

\* Slip: every update counts as a change of the geometry.
Moved_EveryUpdate(operation, old, new) == operation = "update"

Moved(operation, old, new) == operation = "update" /\ NotStEquals(old.geom, new.geom)

-----------------------------------------------------------------------------
\* What the hooks put into the columns of a new change row.
geoVersion(operation, old, new) ==
  CASE operation = "insert" -> 1
    [] operation # "insert" /\ Moved(operation, old, new) -> old.geo_version + 1
    [] OTHER -> old.geo_version

geoChanged(operation, old, new) ==
  CASE operation = "insert" -> txid
    [] operation = "update" /\ Moved(operation, old, new) -> txid
    [] operation = "update" /\ ~Moved(operation, old, new) -> old.geo_changed
    [] OTHER -> NoTime

MustUpload(operation, old, new) ==
  /\ operation = "insert" \/ IsDistinct(old.geom, new.geom)
  /\ new.geom \in Large

\* Slip: every row that was there keeps its reference.
Blobref_Old(operation, k, old, new) ==
  CASE operation # "insert" -> old.blobref
    [] operation = "insert" /\ MustUpload(operation, old, new) -> <<attempts + 1, k>>
    [] OTHER -> NoRef

\* An unchanged geometry keeps its reference.
Blobref(operation, k, old, new) ==
  CASE MustUpload(operation, old, new) -> <<attempts + 1, k>>
    [] operation # "insert" /\ ~IsDistinct(new.geom, old.geom) -> old.blobref
    [] OTHER -> NoRef

Changed(operation) == IF operation = "delete" THEN NoTime ELSE txid

NewChange(operation, k, old, new) ==
  [txid |-> txid, operation |-> operation, key |-> k,
   attr |-> new.attr, geom |-> new.geom,
   blobref |-> Blobref(operation, k, old, new),
   geo_version |-> geoVersion(operation, old, new),
   geo_changed |-> geoChanged(operation, old, new),
   changed |-> Changed(operation)]

-----------------------------------------------------------------------------
\* The differences between what the register holds and the table.
Inserts(rows) ==
  {NewChange("insert", k, NoRow, rows[k]) :
     k \in {j \in Keys : rows[j] # NoRow /\ table[j] = NoRow}}

IsUpdated(old, new) == old.attr # new.attr \/ IsDistinct(old.geom, new.geom)

Updates(rows) ==
  {NewChange("update", k, table[k], rows[k]) :
     k \in {j \in Keys : rows[j] # NoRow /\ table[j] # NoRow /\ IsUpdated(table[j], rows[j])}}

Deletes(rows) ==
  {NewChange("delete", k, table[k], table[k]) :
     k \in {j \in Keys : rows[j] = NoRow /\ table[j] # NoRow}}

computeDifferences(rows) == Inserts(rows) \cup Updates(rows) \cup Deletes(rows)

-----------------------------------------------------------------------------
ColumnsInit ==
  /\ table = [k \in Keys |-> NoRow]
  /\ changes = {} /\ s3 = {} /\ imported = <<>> /\ attempts = 0
  /\ source = [k \in Keys |-> NoRow] /\ pending = {}

\* A transaction in which nothing changes is of no interest here.
Prepare(rows) ==
  /\ pending = {} /\ computeDifferences(rows) # {}
  /\ Len(imported) < MaxTxid /\ attempts < MaxAttempts
  /\ attempts' = attempts + 1
  /\ source' = rows
  /\ pending' = computeDifferences(rows)
  /\ UNCHANGED <<table, changes, s3, imported>>

\* The rows whose reference is of this import.
ToUpload == {c \in pending : c.blobref # NoRef /\ c.blobref[1] = attempts}

NotUploaded == {c \in ToUpload : \A object \in s3 : object.ref # c.blobref}

Uploaded == NotUploaded = {}

uploadToS3 ==
  /\ \E c \in NotUploaded : s3' = s3 \cup {[ref |-> c.blobref, geom |-> c.geom]}
  /\ UNCHANGED <<table, changes, imported, attempts, source, pending>>

\* Slip: the references are only set when the table has its changes.
RowOf_BeforeOffload(c) ==
  [attr |-> c.attr, geom |-> c.geom, blobref |-> NoRef,
   geo_version |-> c.geo_version, geo_changed |-> c.geo_changed, changed |-> c.changed]

RowOf(c) ==
  [attr |-> c.attr, geom |-> c.geom, blobref |-> c.blobref,
   geo_version |-> c.geo_version, geo_changed |-> c.geo_changed, changed |-> c.changed]

RowAfter(k) ==
  IF \E c \in pending : c.key = k
  THEN LET c == CHOOSE c \in pending : c.key = k
       IN  IF c.operation = "delete" THEN NoRow ELSE RowOf(c)
  ELSE table[k]

\* A row in the change table does without a geometry that is in S3.
Offloaded(c) == IF c.blobref = NoRef THEN c ELSE [c EXCEPT !.geom = NoGeometry]

\* AND binds stronger than OR in SQL: of the updates only those of this
\* transaction get a new time, of the inserts all.
SetChanged(c) ==
  IF c.operation = "insert" THEN [c EXCEPT !.changed = txid] ELSE c

applyChanges == table' = [k \in Keys |-> RowAfter(k)]

Commit ==
  /\ pending # {} /\ Uploaded
  /\ applyChanges
  /\ changes' = {SetChanged(c) : c \in changes} \cup {Offloaded(c) : c \in pending}
  /\ imported' = Append(imported, source)
  /\ pending' = {}
  /\ UNCHANGED <<s3, attempts, source>>

\* The upload, a statement or the process fails.
Fail ==
  /\ pending # {} /\ pending' = {}
  /\ UNCHANGED <<table, changes, s3, imported, attempts, source>>

Done == pending = {} /\ UNCHANGED columnVars

ColumnsNext ==
  \/ \E rows \in Sources : Prepare(rows)
  \/ uploadToS3 \/ Commit \/ Fail \/ Done

ColumnsSpec == ColumnsInit /\ [][ColumnsNext]_columnVars

-----------------------------------------------------------------------------
\* What a reader of a row or of a change gets for the geometry.
Lost == "lost"

GeometryOf(c) ==
  IF c.blobref = NoRef THEN c.geom
  ELSE IF \E object \in s3 : object.ref = c.blobref
       THEN (CHOOSE object \in s3 : object.ref = c.blobref).geom
       ELSE Lost

SameGeometry(g, h) == g = h \/ (g \in Geometries /\ h \in Geometries /\ Shape[g] = Shape[h])

\* The rows as the register had them after transaction t.
SourceAt(t) == IF t = 0 THEN [k \in Keys |-> NoRow] ELSE imported[t]

\* A row the register had, and the row of the change table or of the table
\* that must tell of it.
Tells(c, row) ==
  /\ row # NoRow
  /\ c.attr = row.attr /\ SameGeometry(GeometryOf(c), row.geom)

\* Every change tells, in the database or in S3, the attributes and the
\* geometry the register had in the transaction of the change (before it,
\* if it is a delete), however many imports failed before and after their
\* uploads, and however the geometry changes between small, large and none.
GeometryIsKept ==
  /\ \A c \in changes :
       Tells(c, SourceAt(IF c.operation = "delete" THEN c.txid - 1 ELSE c.txid)[c.key])
  /\ \A k \in Keys :
       table[k] = NoRow \/ Tells(table[k], SourceAt(Len(imported))[k])

\* The changes of a key, one after the other.
Follows(c, d) ==
  /\ c.key = d.key /\ c.txid < d.txid
  /\ \A e \in changes : e.key = c.key => e.txid <= c.txid \/ d.txid <= e.txid

\* geo_version and geo_ændret tell of every change of the geometry and of
\* nothing else: an update that keeps the shape, although the geometry is
\* written differently, counts for none. (From or to NULL is no change to
\* them.)
VersionsFollowGeometry ==
  \A c, d \in changes :
    Follows(c, d) /\ d.operation = "update"
      /\ NoGeometry \notin {GeometryOf(c), GeometryOf(d)} =>
        IF SameGeometry(GeometryOf(c), GeometryOf(d))
        THEN d.geo_version = c.geo_version /\ d.geo_changed = c.geo_changed
        ELSE d.geo_version = c.geo_version + 1 /\ d.geo_changed = d.txid

Newest(k, c) == c.key = k /\ \A d \in changes : d.key = k => d.txid <= c.txid

AgreesWith(row, c) ==
  /\ row.attr = c.attr /\ SameGeometry(GeometryOf(row), GeometryOf(c))
  /\ row.geo_version = c.geo_version /\ row.geo_changed = c.geo_changed
  /\ row.blobref = c.blobref

\* A replica that applies the changes ends with the table: the newest change
\* of each key tells what the table has of it, with the same version and
\* the same reference. (Only the time of the change may differ, see
\* PastIsKept.)
TableIsNewest ==
  \A k \in Keys, c \in changes :
    Newest(k, c) =>
      IF c.operation = "delete" THEN table[k] = NoRow
      ELSE table[k] # NoRow /\ AgreesWith(table[k], c)

\* A change stays as it was committed: what a client gets of an earlier
\* transaction does not depend on the imports after it. (The code does not
\* keep this.)
PastIsKept == [][\A c \in changes : c \in changes']_changes
==============================================================================
