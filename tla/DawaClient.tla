------------------------------ MODULE DawaClient ------------------------------
(***************************************************************************)
(* The database client of the API workers: a request gets a connection     *)
(* slot, then a connection of the pool, then a query slot for each query   *)
(* (or one for a series of queries), all of which it must give back.       *)
(*                                                                         *)
(* An abort (the HTTP client left, or another process of the request       *)
(* failed) is a signal. It does not interrupt a query or the wait for a    *)
(* slot: queryWithTiming looks at it when the slot has come, and the other *)
(* processes where they wait for a channel.                                *)
(*                                                                         *)
(* The slots are those of the distributed scheduler, and here only limited *)
(* in number; every wait for one has a timeout, and so has the wait for a  *)
(* connection.                                                             *)
(***************************************************************************)
EXTENDS Naturals, FiniteSets

CONSTANTS Requests,
          Connections,       \* of the pool
          NoConnection,
          ConnectionSlots, QuerySlots

ASSUME DawaClientAssumption ==
  /\ NoConnection \notin Connections
  /\ {ConnectionSlots, QuerySlots} \subseteq Nat \ {0}

VARIABLES at,           \* where the process is that queries the database
          aborted,      \* requests with a raised abort signal
          admitted,     \* requests with a connection slot
          held,         \* the connection each has borrowed
          querySlot,    \* "none", "queued" or "held"
          connection    \* the server's side of each connection

clientVars == <<at, aborted, admitted, held, querySlot, connection>>

\* tx: the transaction of the session.
ConnectionStates == [tx : {"none", "open", "failed"}, cursor : BOOLEAN, lost : BOOLEAN]

Fresh == [tx |-> "none", cursor |-> FALSE, lost |-> FALSE]
Lost  == [tx |-> "none", cursor |-> FALSE, lost |-> TRUE]

-----------------------------------------------------------------------------
\* The server.

\* What a statement that succeeds makes of a session. Cursors live as long as
\* the transaction.
AfterStatement(session, statement) ==
  CASE statement = "BEGIN"    -> [session EXCEPT !.tx = "open"]
    [] statement = "DECLARE"  -> [session EXCEPT !.cursor = TRUE]
    [] statement = "CLOSE"    -> [session EXCEPT !.cursor = FALSE]
    [] statement = "ROLLBACK" -> Fresh
    [] OTHER                  -> session

Allowed(session, statement) ==
  /\ ~ session.lost
  /\ session.tx = "failed" => statement = "ROLLBACK"
  /\ statement \in {"FETCH", "CLOSE"} => session.cursor
  /\ statement = "DECLARE" => session.tx = "open" /\ ~ session.cursor

\* A statement may fail, for its timeout or else, and the connection may get lost.
Failed(session) ==
  IF session.lost THEN {session}
  ELSE {Lost, [tx |-> IF session.tx = "none" THEN "none" ELSE "failed",
               cursor |-> session.cursor /\ session.tx = "none",
               lost |-> FALSE]}

Results(session, statement) ==
  {<<after, FALSE>> : after \in Failed(session)}
    \cup IF Allowed(session, statement) THEN {<<AfterStatement(session, statement), TRUE>>} ELSE {}

-----------------------------------------------------------------------------
\* The client.

Goto(r, place) == at' = [at EXCEPT ![r] = place]

\* client.query once it may run: the request goes on at ok or at failed.
Execute(r, statement, ok, failed) ==
  \E result \in Results(connection[held[r]], statement) :
    /\ connection' = [connection EXCEPT ![held[r]] = result[1]]
    /\ Goto(r, IF result[2] THEN ok ELSE failed)

\* Waiting for a query slot: withReservedSlot. The task may find that the
\* request was aborted in the meantime.
Enqueue(r) ==
  /\ querySlot[r] = "none"
  /\ querySlot' = [querySlot EXCEPT ![r] = "queued"]
  /\ UNCHANGED <<at, aborted, admitted, held, connection>>

Grant(r) ==
  /\ querySlot[r] = "queued"
  /\ Cardinality({q \in Requests : querySlot[q] = "held"}) < QuerySlots
  /\ querySlot' = [querySlot EXCEPT ![r] = "held"]
  /\ UNCHANGED <<at, aborted, admitted, held, connection>>

\* QuerySlotTimeout
SlotTimeout(r, failed) ==
  /\ querySlot[r] = "queued"
  /\ querySlot' = [querySlot EXCEPT ![r] = "none"]
  /\ Goto(r, failed)
  /\ UNCHANGED <<aborted, admitted, held, connection>>

\* Slip: the slot of a FETCH is kept for the next one.
SlotAfter_Kept(statement) == IF statement = "FETCH" THEN "held" ELSE "none"

\* The slot comes back when the task has ended, whatever the result.
SlotAfter(statement) == "none"

\* A query in its own slot.
RunInSlot(r, statement, ok, failed, abort) ==
  /\ querySlot[r] = "held"
  /\ IF r \in aborted THEN /\ Goto(r, abort)
                           /\ UNCHANGED connection
     ELSE Execute(r, statement, ok, failed)
  /\ querySlot' = [querySlot EXCEPT ![r] = SlotAfter(statement)]
  /\ UNCHANGED <<aborted, admitted, held>>

\* A statement that skips the queue, in a process that is not aborted.
Run(r, statement, ok, failed) ==
  /\ Execute(r, statement, ok, failed)
  /\ UNCHANGED <<aborted, admitted, held, querySlot>>

-----------------------------------------------------------------------------
\* withConnection

\* ConnectionSlotTimeout, or the slot; READY also comes to a request that was
\* aborted, and it goes on to the next place where the signal is looked at.
Admit(r) ==
  /\ at[r] = "connect"
  /\ \/ /\ Cardinality(admitted) < ConnectionSlots
        /\ admitted' = admitted \cup {r}
        /\ Goto(r, "acquire")
     \/ /\ Goto(r, "threw")
        /\ UNCHANGED admitted
  /\ UNCHANGED <<aborted, held, querySlot, connection>>

Free == {c \in Connections : \A r \in Requests : held[r] # c}

\* testOnBorrow: select 1 must succeed, or the pool takes a new connection.
Validated(session) ==
  IF session.lost \/ session.tx = "failed" THEN Fresh ELSE session

\* Borrows a connection, or the pool has none in time.
Acquire(r, next) ==
  /\ at[r] = "acquire"
  /\ \/ \E c \in Free :
          /\ held' = [held EXCEPT ![r] = c]
          /\ connection' = [connection EXCEPT ![c] = Validated(@)]
          /\ Goto(r, next)
     \/ /\ Goto(r, "threw")
        /\ UNCHANGED <<held, connection>>
  /\ UNCHANGED <<aborted, admitted, querySlot>>

\* What is left of a request when all its processes have ended.
GiveBack(r) ==
  /\ held' = [held EXCEPT ![r] = NoConnection]
  /\ admitted' = admitted \ {r}

-----------------------------------------------------------------------------
\* withTransaction READ_ONLY

\* BEGIN is outside of the try. It looks at the signal like any query.
Begin(r, next) ==
  /\ at[r] = "begin"
  /\ IF r \in aborted THEN /\ Goto(r, "threw")
                           /\ UNCHANGED connection
     ELSE Execute(r, "BEGIN", next, "threw")
  /\ UNCHANGED <<aborted, admitted, held, querySlot>>

\* The end of READ_ONLY is ROLLBACK; if it fails it is repeated.
End(r) ==
  /\ at[r] = "end"
  /\ Run(r, "ROLLBACK", "done", "undo")

\* Slip: only an error of the database is followed by ROLLBACK.
CatchAbort_Rethrows == "threw"

\* Where withTransaction catches an abort.
CatchAbort == "undo"

\* The catch; errors of ROLLBACK are ignored.
Undo(r) ==
  /\ at[r] = "undo"
  /\ Run(r, "ROLLBACK", "threw", "threw")

-----------------------------------------------------------------------------
ClientInit ==
  /\ at = [r \in Requests |-> "idle"]
  /\ aborted = {}
  /\ admitted = {}
  /\ held = [r \in Requests |-> NoConnection]
  /\ querySlot = [r \in Requests |-> "none"]
  /\ connection = [c \in Connections |-> Fresh]

\* A connection that goes back to the pool is not in a transaction, unless it
\* is one that the next borrower will not get.
CleanInPool == \A c \in Free : Validated(connection[c]) = Fresh
==============================================================================
