---------------------------- MODULE ResponseStream ----------------------------
(***************************************************************************)
(* A request to the API, from the first wait for a connection until all of *)
(* it is given back. A streaming request opens a cursor in a transaction,  *)
(* and three processes run side by side: cursorChannel puts the rows it    *)
(* fetches into a buffer, pipe takes them on, and pipeToStream writes them *)
(* to the HTTP response. Other requests (autocomplete) have their result   *)
(* before the response begins, by queries in one reserved slot.            *)
(*                                                                         *)
(* A row is its number. One row is one chunk of the response.              *)
(***************************************************************************)
EXTENDS DawaClient, Sequences, SequencesExt

CONSTANTS Streaming,      \* requests whose result is streamed
          MaxRows,        \* bound of the rows of a result
          FetchSize,      \* 200
          BufferSize,     \* 400
          BatchSize,      \* 200
          HighWaterMark,  \* chunks the socket takes before it wants a pause
          MaxQueries      \* bound of the queries in a reserved slot

ASSUME ResponseStreamAssumption ==
  /\ Streaming \subseteq Requests /\ MaxRows \in Nat \ {0}
  /\ {FetchSize, BufferSize, BatchSize, HighWaterMark, MaxQueries} \subseteq Nat \ {0}

VARIABLES rows,       \* how many rows the result has
          fetched,    \* how many of them the cursor has delivered
          pending,    \* rows cursorChannel waits to put into the buffer
          buffer,     \* bufferChannel
          inHand,     \* rows pipe waits to put into httpResponseChannel
          closed,     \* which of the two channels are closed: "buffer", "http"
          pipeAt,     \* "off", "take", "put", "done" or "threw"
          writerAt,   \* "off", "take", "drain", "finish", "done" or "threw"
          sent,       \* chunks written to the response
          unread,     \* how many of them the HTTP client has not taken yet
          outcome,    \* "none"; "ended": res.end() after the rows; "error", "destroyed"
          gone        \* requests whose HTTP client left

streamVars == <<rows, fetched, pending, buffer, inHand, closed, pipeAt, writerAt, sent, unread,
                outcome, gone>>
allVars == <<clientVars, streamVars>>

\* What only the query process touches.
queryVars == <<fetched, pending, buffer, closed>>
\* What it does not.
httpVars == <<rows, inHand, pipeAt, writerAt, sent, unread, outcome, gone>>

-----------------------------------------------------------------------------
\* cursorChannel

\* DECLARE; an abort or an error leaves the transaction.
Declare(r) ==
  /\ at[r] = "declare"
  /\ \/ Enqueue(r) \/ Grant(r) \/ SlotTimeout(r, "undo")
     \/ RunInSlot(r, "DECLARE", "fetch", "undo", CatchAbort)
  /\ UNCHANGED streamVars

\* The rows the next FETCH returns.
NextBatch(r) ==
  LET to == IF fetched[r] + FetchSize < rows[r] THEN fetched[r] + FetchSize ELSE rows[r]
  IN  [i \in 1..to - fetched[r] |-> fetched[r] + i]

\* Slip: a full batch may be the last one.
IsLastBatch_OrFull(batch) == Len(batch) <= FetchSize

IsLastBatch(batch) == Len(batch) < FetchSize

Fetch(r) ==
  /\ at[r] = "fetch"
  /\ \/ /\ Enqueue(r) \/ Grant(r) \/ SlotTimeout(r, "undo")
        /\ UNCHANGED streamVars
     \/ LET batch == NextBatch(r)
            next == IF IsLastBatch(batch) THEN "putLast" ELSE "put"
        IN  /\ RunInSlot(r, "FETCH", next, "undo", "closeAborted")
            /\ IF at'[r] = next
               THEN /\ pending' = [pending EXCEPT ![r] = batch]
                    /\ fetched' = [fetched EXCEPT ![r] = @ + Len(batch)]
               ELSE UNCHANGED <<pending, fetched>>
            /\ UNCHANGED <<buffer, closed, httpVars>>

Room(r) == BufferSize - Len(buffer[r])

\* PUT_MANY: the buffer takes what it has room for.
Put(r) ==
  /\ at[r] \in {"put", "putLast"}
  /\ pending[r] # <<>>
  /\ Room(r) > 0
  /\ LET n == IF Room(r) < Len(pending[r]) THEN Room(r) ELSE Len(pending[r])
     IN  /\ buffer' = [buffer EXCEPT ![r] = @ \o SubSeq(pending[r], 1, n)]
         /\ pending' = [pending EXCEPT ![r] = SubSeq(@, n + 1, Len(@))]
  /\ UNCHANGED <<clientVars, fetched, closed, httpVars>>

\* Slip: yield instead of selectOrAbort, as for results that are not streamed.
PutIsInterrupted_Never(r) == FALSE

\* An abort ends the wait for room.
PutIsInterrupted(r) == r \in aborted

PutAborted(r) ==
  /\ at[r] \in {"put", "putLast"}
  /\ pending[r] # <<>>
  /\ PutIsInterrupted(r)
  /\ pending' = [pending EXCEPT ![r] = <<>>]
  /\ Goto(r, "closeAborted")
  /\ UNCHANGED <<aborted, admitted, held, querySlot, connection, fetched, buffer, closed, httpVars>>

\* After the last batch the channel is closed, before the cursor is.
BatchPut(r) ==
  /\ at[r] \in {"put", "putLast"}
  /\ pending[r] = <<>>
  /\ IF at[r] = "putLast" THEN /\ closed' = [closed EXCEPT ![r] = @ \cup {"buffer"}]
                               /\ Goto(r, "close")
     ELSE /\ Goto(r, "fetch")
          /\ UNCHANGED closed
  /\ UNCHANGED <<aborted, admitted, held, querySlot, connection, fetched, pending, buffer, httpVars>>

\* CLOSE in the catch of an abort leaves the transaction as an abort, or with
\* its own error.
Close(r) ==
  /\ \/ at[r] = "close" /\ Run(r, "CLOSE", "end", "undo")
     \/ at[r] = "closeAborted" /\ Run(r, "CLOSE", CatchAbort, "undo")
  /\ UNCHANGED streamVars

-----------------------------------------------------------------------------
\* Requests that are not streamed: one or more queries in a reserved slot, and
\* then the result is put into the buffer, which has room for it.

Reserve(r) ==
  /\ at[r] = "reserve"
  /\ \/ Enqueue(r) \/ SlotTimeout(r, "threw")
     \/ Grant(r)
  /\ UNCHANGED streamVars

\* A query in the slot that is held already; fetched counts the queries.
QueryInSlot(r) ==
  /\ at[r] = "reserve"
  /\ querySlot[r] = "held"
  /\ IF r \in aborted THEN /\ Goto(r, "threw")
                           /\ UNCHANGED connection
     ELSE \E next \in {"reserve", "answer"} :
            /\ next = "reserve" => fetched[r] + 1 < MaxQueries
            /\ Execute(r, "SELECT", next, "threw")
  /\ fetched' = [fetched EXCEPT ![r] = IF at'[r] = "reserve" THEN @ + 1 ELSE 0]
  /\ querySlot' = [querySlot EXCEPT ![r] = IF at'[r] = "reserve" THEN @ ELSE "none"]
  /\ UNCHANGED <<aborted, admitted, held, pending, buffer, closed, httpVars>>

Answer(r) ==
  /\ at[r] = "answer"
  /\ buffer' = [buffer EXCEPT ![r] = [i \in 1..rows[r] |-> i]]
  /\ closed' = [closed EXCEPT ![r] = @ \cup {"buffer"}]
  /\ pipeAt' = [pipeAt EXCEPT ![r] = "take"]
  /\ writerAt' = [writerAt EXCEPT ![r] = "take"]
  /\ Goto(r, "done")
  /\ UNCHANGED <<aborted, admitted, held, querySlot, connection, fetched, pending, rows, inHand,
                 sent, unread, outcome, gone>>

-----------------------------------------------------------------------------
\* pipe and pipeToStream

Shorter(n, m) == IF n < m THEN n ELSE m

\* pipe takes rows from the buffer; the end of the channel comes by itself here.
PipeTakes(r) ==
  /\ pipeAt[r] = "take"
  /\ \/ /\ buffer[r] # <<>>
        /\ LET n == Shorter(BatchSize, Len(buffer[r]))
           IN  /\ inHand' = [inHand EXCEPT ![r] = SubSeq(buffer[r], 1, n)]
               /\ buffer' = [buffer EXCEPT ![r] = SubSeq(@, n + 1, Len(@))]
        /\ pipeAt' = [pipeAt EXCEPT ![r] = "put"]
        /\ UNCHANGED closed
     \/ /\ buffer[r] = <<>> /\ "buffer" \in closed[r]
        /\ closed' = [closed EXCEPT ![r] = @ \cup {"http"}]
        /\ pipeAt' = [pipeAt EXCEPT ![r] = "done"]
        /\ UNCHANGED <<inHand, buffer>>
  /\ UNCHANGED <<clientVars, rows, fetched, pending, writerAt, sent, unread, outcome, gone>>

\* httpResponseChannel has no buffer: pipe gives what pipeToStream takes. The
\* writer goes on when the socket wants more.
WriterTakes(r) ==
  /\ writerAt[r] = "take" /\ pipeAt[r] = "put"
  /\ LET n == Shorter(BatchSize, Len(inHand[r]))
     IN  /\ inHand' = [inHand EXCEPT ![r] = SubSeq(@, n + 1, Len(@))]
         /\ sent' = [sent EXCEPT ![r] = @ \o SubSeq(inHand[r], 1, n)]
         /\ unread' = [unread EXCEPT ![r] = @ + n]
         /\ pipeAt' = [pipeAt EXCEPT ![r] = IF n = Len(inHand[r]) THEN "take" ELSE "put"]
  /\ writerAt' = [writerAt EXCEPT ![r] = IF unread'[r] < HighWaterMark THEN "take" ELSE "drain"]
  /\ UNCHANGED <<clientVars, rows, fetched, pending, buffer, closed, outcome, gone>>

\* The end of the channel, the drain event, and the finish event.
WriterGoesOn(r) ==
  /\ \/ /\ writerAt[r] = "take" /\ "http" \in closed[r]
        /\ outcome' = [outcome EXCEPT ![r] = "ended"]
        /\ writerAt' = [writerAt EXCEPT ![r] = "finish"]
     \/ /\ writerAt[r] \in {"drain", "finish"} /\ unread[r] = 0
        /\ writerAt' = [writerAt EXCEPT ![r] = IF @ = "drain" THEN "take" ELSE "done"]
        /\ UNCHANGED outcome
  /\ UNCHANGED <<clientVars, rows, fetched, pending, buffer, inHand, closed, pipeAt, sent, unread, gone>>

\* Both end at an abort, wherever they wait.
PipeAborted(r) ==
  /\ r \in aborted /\ pipeAt[r] \in {"take", "put"}
  /\ pipeAt' = [pipeAt EXCEPT ![r] = "threw"]
  /\ inHand' = [inHand EXCEPT ![r] = <<>>]
  /\ UNCHANGED <<clientVars, queryVars, rows, writerAt, sent, unread, outcome, gone>>

WriterAborted(r) ==
  /\ r \in aborted /\ writerAt[r] \in {"take", "drain", "finish"}
  /\ writerAt' = [writerAt EXCEPT ![r] = "threw"]
  /\ UNCHANGED <<clientVars, queryVars, rows, inHand, pipeAt, sent, unread, outcome, gone>>

-----------------------------------------------------------------------------
\* The request: createExpressHandler, serveResponse

Arrive(r) ==
  /\ at[r] = "idle"
  /\ Goto(r, "connect")
  /\ \E n \in IF r \in Streaming THEN 0..MaxRows ELSE {1} : rows' = [rows EXCEPT ![r] = n]
  /\ sent' = [sent EXCEPT ![r] = <<>>]
  /\ outcome' = [outcome EXCEPT ![r] = "none"]
  /\ UNCHANGED <<aborted, admitted, held, querySlot, connection, queryVars, inHand, pipeAt,
                 writerAt, unread, gone>>

\* A slot for the connection and the connection. A streaming request starts
\* its three processes then.
Connect(r) ==
  \/ Admit(r) /\ UNCHANGED streamVars
  \/ /\ Acquire(r, IF r \in Streaming THEN "begin" ELSE "reserve")
     /\ LET begin == IF at'[r] = "begin" THEN "take" ELSE "off"
        IN  /\ pipeAt' = [pipeAt EXCEPT ![r] = begin]
            /\ writerAt' = [writerAt EXCEPT ![r] = begin]
     /\ UNCHANGED <<queryVars, rows, inHand, sent, unread, outcome, gone>>

Transaction(r) ==
  /\ Begin(r, "declare") \/ End(r) \/ Undo(r)
  /\ UNCHANGED streamVars

Threw(r) == "threw" \in {at[r], pipeAt[r], writerAt[r]}

\* When one of the processes has failed the others are aborted (parallel).
AbortOthers(r) ==
  /\ pipeAt[r] # "off" /\ Threw(r) /\ r \notin aborted
  /\ aborted' = aborted \cup {r}
  /\ UNCHANGED <<at, admitted, held, querySlot, connection, streamVars>>

\* The HTTP client takes what has been written, or leaves.
Read(r) ==
  /\ unread[r] > 0 /\ r \notin gone
  /\ unread' = [unread EXCEPT ![r] = 0]
  /\ UNCHANGED <<clientVars, queryVars, rows, inHand, pipeAt, writerAt, sent, outcome, gone>>

Leave(r) ==
  /\ at[r] # "idle" /\ r \notin gone
  /\ gone' = gone \cup {r}
  /\ aborted' = aborted \cup {r}
  /\ UNCHANGED <<at, admitted, held, querySlot, connection, queryVars, rows, inHand, pipeAt,
                 writerAt, sent, unread, outcome>>

\* An error response can only be sent before the headers.
OutcomeOfFailure(r) ==
  IF r \notin gone /\ sent[r] = <<>> /\ outcome[r] = "none" THEN "error" ELSE "destroyed"

\* All processes have ended; the request is logged, and everything is given back.
FinishRequest(r) ==
  /\ at[r] \in {"done", "threw"}
  /\ {pipeAt[r], writerAt[r]} \subseteq {"off", "done", "threw"}
  /\ Goto(r, "idle")
  /\ GiveBack(r)
  /\ outcome' = [outcome EXCEPT ![r] = IF Threw(r) THEN OutcomeOfFailure(r) ELSE @]
  /\ aborted' = aborted \ {r}
  /\ gone' = gone \ {r}
  /\ fetched' = [fetched EXCEPT ![r] = 0]
  /\ pending' = [pending EXCEPT ![r] = <<>>]
  /\ buffer' = [buffer EXCEPT ![r] = <<>>]
  /\ closed' = [closed EXCEPT ![r] = {}]
  /\ pipeAt' = [pipeAt EXCEPT ![r] = "off"]
  /\ writerAt' = [writerAt EXCEPT ![r] = "off"]
  /\ unread' = [unread EXCEPT ![r] = 0]
  /\ UNCHANGED <<querySlot, connection, rows, inHand, sent>>

-----------------------------------------------------------------------------
StreamInit ==
  /\ ClientInit
  /\ rows = [r \in Requests |-> 0]
  /\ fetched = [r \in Requests |-> 0]
  /\ pending = [r \in Requests |-> <<>>]
  /\ buffer = [r \in Requests |-> <<>>]
  /\ inHand = [r \in Requests |-> <<>>]
  /\ closed = [r \in Requests |-> {}]
  /\ pipeAt = [r \in Requests |-> "off"]
  /\ writerAt = [r \in Requests |-> "off"]
  /\ sent = [r \in Requests |-> <<>>]
  /\ unread = [r \in Requests |-> 0]
  /\ outcome = [r \in Requests |-> "none"]
  /\ gone = {}

QueryProcess(r) ==
  \/ Connect(r) \/ Transaction(r)
  \/ Declare(r) \/ Fetch(r) \/ Put(r) \/ PutAborted(r) \/ BatchPut(r) \/ Close(r)
  \/ Reserve(r) \/ QueryInSlot(r) \/ Answer(r)

StreamNext ==
  \E r \in Requests :
    \/ Arrive(r) \/ QueryProcess(r)
    \/ PipeTakes(r) \/ PipeAborted(r)
    \/ WriterTakes(r) \/ WriterGoesOn(r) \/ WriterAborted(r)
    \/ AbortOthers(r) \/ Read(r) \/ Leave(r) \/ FinishRequest(r)

StreamSpec == StreamInit /\ [][StreamNext]_allVars

\* Statements end (statement_timeout), and waits for slots and connections end
\* with a timeout at the latest. The HTTP client reads or leaves in the end.
FairStreamSpec ==
  /\ StreamSpec
  /\ \A r \in Requests :
       /\ WF_allVars(QueryProcess(r))
       /\ WF_allVars(PipeTakes(r) \/ PipeAborted(r))
       /\ WF_allVars(WriterTakes(r) \/ WriterGoesOn(r) \/ WriterAborted(r))
       /\ WF_allVars(AbortOthers(r)) /\ WF_allVars(Read(r)) /\ WF_allVars(FinishRequest(r))

-----------------------------------------------------------------------------
\* A request that holds a query slot can use it at once: it does not wait for
\* the HTTP client, who may be slow, nor for a connection.
SlotsAreUsed ==
  \A r \in Requests : querySlot[r] = "held" =>
    held[r] # NoConnection /\ at[r] \in {"declare", "fetch", "reserve"}

InMemory(r) == Len(pending[r]) + Len(buffer[r]) + Len(inHand[r])

\* What the HTTP client gets, and what the server keeps for it: a fetched
\* batch, a full channel and the batch the pipe has in hand, no more.
Transferred ==
  INSTANCE Transfer WITH
    status <- outcome, kept <- [r \in Requests |-> InMemory(r)],
    Capacity <- FetchSize + BufferSize + BatchSize

\* The stream implements Transfer: whatever fails and whoever leaves, a
\* response that ends properly has every row once and in order, nothing
\* follows an error, and the rows in memory stay bounded.
ImplementsTransfer == Transferred!Spec

\* Every request comes to an end, and has given back its slots and connection.
EveryRequestEnds ==
  \A r \in Requests : at[r] = "connect" ~>
    at[r] = "idle" /\ r \notin admitted /\ held[r] = NoConnection /\ querySlot[r] = "none"
==============================================================================
