------------------------------ MODULE DarImport ------------------------------
(***************************************************************************)
(* The import of the address register DAR: the daemon that fetches DAR's   *)
(* events into the raw tables, the notification server that tells it about *)
(* new ones, and its websocket client.                                     *)
(*                                                                         *)
(* DAR itself is external: a log of events, numbered by their position. An *)
(* event creates a row ("opret") or closes one ("opdater"). The events of  *)
(* one of its transactions appear together, and one notification lists     *)
(* them. Of a row only the numbers of its two events are kept here.        *)
(*                                                                         *)
(* The channel of notifications has room for 100 in the code (new Channel  *)
(* (100)) and for any number here: what putSync does to a full channel is  *)
(* left out.                                                               *)
(***************************************************************************)
EXTENDS Naturals, Sequences, FiniteSets

CONSTANTS Entities,     \* of DAR
          Rowkeys,      \* of the rows of an entity
          MaxEvents,    \* bound on the length of DAR's log
          MaxBatch,     \* bound on the events of a transaction of DAR
          Options       \* the ways to start the daemon that are looked at

ASSUME DarAssumption ==
  /\ IsFiniteSet(Entities) /\ IsFiniteSet(Rowkeys)
  /\ MaxEvents \in Nat \ {0} /\ MaxBatch \in Nat \ {0}
  /\ Options \subseteq [pretend : BOOLEAN, noDaemon : BOOLEAN, notificationUrl : BOOLEAN]

VARIABLES options,          \* of this installation
          events,           \* DAR's log
          posted,           \* notifications on their way to the listeners
          raw,              \* the raw tables dar1_<entity>, in the database
          phase,            \* where the daemon is
          remoteEventIds,   \* what the import under way goes up to, per entity
          socket,           \* of the websocket client
          channel,          \* notificationChan
          mustUpdateAll

darVars == <<events, posted>>
loopVars == <<phase, remoteEventIds, mustUpdateAll>>
vars == <<options, darVars, raw, loopVars, socket, channel>>

Row == [eventopret : 0..MaxEvents, eventopdater : 0..MaxEvents]   \* 0 is NULL

NullRow == [eventopret |-> 0, eventopdater |-> 0]   \* no row at all

greatest(S) == IF S = {} THEN 0 ELSE CHOOSE n \in S : \A m \in S : n >= m

-----------------------------------------------------------------------------
\* DAR and the notification server

Record(tx) == [tx : {tx}, entitet : Entities, rowkey : Rowkeys, operation : {"opret", "opdater"}]

\* Every row is created once and closed at most once, later.
IsLog(log) ==
  \A i \in 1..Len(log) :
    LET same(operation) == {j \in 1..(i - 1) : /\ log[j].entitet = log[i].entitet
                                               /\ log[j].rowkey = log[i].rowkey
                                               /\ log[j].operation = operation}
    IN  /\ same(log[i].operation) = {}
        /\ log[i].operation = "opdater" => same("opret") # {}

lastTx == IF events = <<>> THEN 0 ELSE events[Len(events)].tx

\* One entry of the channel: the events of a notification, or the error that
\* ends it (CLOSED follows, with the same effect).
Notification(from, log) ==
  [error |-> FALSE,
   events |-> {[entitet |-> log[i].entitet, eventid |-> i] : i \in (from + 1)..Len(log)}]

Failure == [error |-> TRUE, events |-> {}]

DarCommits ==
  \E n \in 1..MaxBatch : \E batch \in [1..n -> Record(lastTx + 1)] :
    LET log == events \o batch
    IN  /\ Len(log) <= MaxEvents
        /\ IsLog(log)
        /\ events' = log
        /\ posted' = Append(posted, Notification(Len(events), log))
        /\ UNCHANGED <<options, raw, loopVars, socket, channel>>

\* handleNotification: it goes to those who listen now; others never see it.
HandleNotification ==
  /\ posted # <<>>
  /\ posted' = Tail(posted)
  /\ channel' = IF socket = "open" THEN Append(channel, Head(posted)) ELSE channel
  /\ UNCHANGED <<options, events, raw, loopVars, socket>>

\* GET /Status: the last event of each entity.
getEventStatus == [e \in Entities |-> greatest({i \in 1..Len(events) : events[i].entitet = e})]

\* GET /Records, all pages: each record as a row with one event number.
getRecordsForEntity(eventStart, eventSlut, e) ==
  {[rowkey |-> events[i].rowkey,
    eventopret |-> IF events[i].operation = "opret" THEN i ELSE 0,
    eventopdater |-> IF events[i].operation = "opdater" THEN i ELSE 0] :
     i \in {j \in 1..Len(events) : eventStart <= j /\ j <= eventSlut /\ events[j].entitet = e}}

-----------------------------------------------------------------------------
\* The importer (components/importers/dar-api.js)

\* MAX(GREATEST(eventopret, eventopdater))
getCurrentEventId(e) ==
  greatest({raw[e][k].eventopret : k \in Rowkeys} \cup {raw[e][k].eventopdater : k \in Rowkeys})

RowsOf(rows, k) == {r \in rows : r.rowkey = k}

\* Slip: one of the two rows decides.
mergeOpretUpdateRows_Closing(rows, k) ==
  LET mine == RowsOf(rows, k)
  IN  [eventopret |-> IF \E r \in mine : r.eventopdater # 0 THEN 0
                      ELSE greatest({r.eventopret : r \in mine}),
       eventopdater |-> greatest({r.eventopdater : r \in mine})]

\* A row created and closed in the range comes twice.
mergeOpretUpdateRows(rows, k) ==
  LET mine == RowsOf(rows, k)
  IN  [eventopret |-> greatest({r.eventopret : r \in mine}),
       eventopdater |-> greatest({r.eventopdater : r \in mine})]

\* Slip: the fetched row replaces the old one.
copyEventIds_Fetched(fetched, row) == fetched

\* COALESCE(fetched, stored), column by column.
copyEventIds(fetched, row) ==
  [eventopret   |-> IF fetched.eventopret # 0 THEN fetched.eventopret ELSE row.eventopret,
   eventopdater |-> IF fetched.eventopdater # 0 THEN fetched.eventopdater ELSE row.eventopdater]

\* The rows of one entity after the changeset; computeDifferencesSubset and
\* applyChanges make the rows that were fetched equal to the fetched ones.
importChangeset(rows, table) ==
  [k \in Rowkeys |-> IF RowsOf(rows, k) = {} THEN table[k]
                     ELSE copyEventIds(mergeOpretUpdateRows(rows, k), table[k])]

\* The raw tables after an import up to the given events of some entities.
fetchAndImport(eventIds) ==
  [e \in Entities |->
     IF e \in DOMAIN eventIds /\ eventIds[e] # getCurrentEventId(e)
     THEN importChangeset(getRecordsForEntity(getCurrentEventId(e) + 1, eventIds[e], e), raw[e])
     ELSE raw[e]]

-----------------------------------------------------------------------------
\* The daemon (importFromApiImpl.js). It is in one of these phases:
\*   status     about to ask for the status
\*   importing  with remoteEventIds known, before the transaction commits
\*   waiting    for notifications
\*   sleeping   for the poll interval
\*   stopped    ended

Init ==
  /\ options \in Options
  /\ events = <<>> /\ posted = <<>>
  /\ raw = [e \in Entities |-> [k \in Rowkeys |-> NullRow]]
  /\ phase = "status"
  /\ remoteEventIds = <<>>
  /\ socket = "none" /\ channel = <<>>
  /\ mustUpdateAll = FALSE

\* importUsingStatus, up to the answer.
GetStatus ==
  /\ phase = "status"
  /\ remoteEventIds' = getEventStatus
  /\ phase' = "importing"
  /\ UNCHANGED <<options, darVars, raw, mustUpdateAll, socket, channel>>

\* Only the import by status of the daemon has the parameter.
rollsBack == options.pretend /\ ~ options.noDaemon

\* Slip: the first notification is trusted to name everything new.
UpdatesAllAtFirst_Never == FALSE

UpdatesAllAtFirst == TRUE

\* After an import by status: stop, sleep, or start to listen.
AfterStatus ==
  IF options.noDaemon \/ rollsBack
  THEN phase' = "stopped" /\ UNCHANGED <<socket, channel, mustUpdateAll>>
  ELSE IF ~ options.notificationUrl
  THEN phase' = "sleeping" /\ UNCHANGED <<socket, channel, mustUpdateAll>>
  ELSE /\ phase' = "waiting"
       /\ socket' = "opening" /\ channel' = <<>>
       /\ mustUpdateAll' = UpdatesAllAtFirst

AfterNotifications ==
  /\ phase' = "waiting"
  /\ mustUpdateAll' = FALSE
  /\ UNCHANGED <<socket, channel>>

\* importIncrementally: one database transaction.
ImportIncrementally ==
  /\ phase = "importing"
  /\ raw' = IF rollsBack THEN raw ELSE fetchAndImport(remoteEventIds)
  /\ remoteEventIds' = <<>>
  /\ IF socket = "none" THEN AfterStatus ELSE AfterNotifications
  /\ UNCHANGED <<options, darVars>>

\* The listening part of runImportLoop ends: the socket is closed.
LeaveLoop ==
  /\ phase' = IF options.noDaemon THEN "stopped" ELSE "sleeping"
  /\ remoteEventIds' = <<>>
  /\ socket' = "none" /\ channel' = <<>>
  /\ UNCHANGED <<options, darVars, raw, mustUpdateAll>>

\* A request to DAR or the transaction fails.
ImportFails == phase \in {"status", "importing"} /\ LeaveLoop

received == UNION {channel[i].events : i \in DOMAIN channel}

\* Slip: the number of the first event of each entity.
notifiedEventIds_First ==
  [e \in {n.entitet : n \in received} |->
     CHOOSE i \in {n.eventid : n \in {m \in received : m.entitet = e}} :
       \A m \in received : m.entitet = e => i <= m.eventid]

notifiedEventIds ==
  [e \in {n.entitet : n \in received} |->
     greatest({n.eventid : n \in {m \in received : m.entitet = e}})]

allUpToLast == [e \in Entities |-> greatest({n.eventid : n \in received})]

\* takeAvailable, and importNotifications up to the import.
TakeAvailable ==
  /\ phase = "waiting"
  /\ channel # <<>>
  /\ IF \E i \in DOMAIN channel : channel[i].error
     THEN LeaveLoop
     ELSE /\ phase' = "importing"
          /\ remoteEventIds' = IF mustUpdateAll THEN allUpToLast ELSE notifiedEventIds
          /\ channel' = <<>>
          /\ UNCHANGED <<options, darVars, raw, mustUpdateAll, socket>>

\* The poll interval is over.
WakeUp ==
  /\ phase = "sleeping"
  /\ phase' = "status"
  /\ UNCHANGED <<options, darVars, raw, remoteEventIds, mustUpdateAll, socket, channel>>

\* The process is killed, and started again unless it runs one import only.
Crash ==
  /\ phase # "stopped"
  /\ phase' = IF options.noDaemon THEN "stopped" ELSE "status"
  /\ remoteEventIds' = <<>>
  /\ socket' = "none" /\ channel' = <<>>
  /\ mustUpdateAll' = FALSE
  /\ UNCHANGED <<options, darVars, raw>>

\* The websocket client (dar-notification-client)

SocketOpens ==
  /\ socket = "opening"
  /\ socket' = "open"
  /\ UNCHANGED <<options, darVars, raw, loopVars, channel>>

\* die: an error, a close from the other side or no heartbeat.
SocketDies ==
  /\ socket \in {"opening", "open"}
  /\ socket' = "dead"
  /\ channel' = Append(channel, Failure)
  /\ UNCHANGED <<options, darVars, raw, loopVars>>

\* A daemon that has ended stays so.
Stopped == phase = "stopped" /\ UNCHANGED vars

Next ==
  \/ DarCommits \/ HandleNotification
  \/ GetStatus \/ ImportIncrementally \/ ImportFails
  \/ TakeAvailable \/ WakeUp
  \/ Crash \/ SocketOpens \/ SocketDies
  \/ Stopped

Spec == Init /\ [][Next]_vars

\* The daemon goes on while it can, and DAR and the database do not fail for
\* ever: what is tried again and again succeeds again and again.
Fairness ==
  /\ WF_vars(TakeAvailable) /\ WF_vars(WakeUp)
  /\ SF_vars(GetStatus) /\ SF_vars(ImportIncrementally)

FairSpec == Spec /\ Fairness

-----------------------------------------------------------------------------
TypeOK ==
  /\ options \in Options
  /\ IsLog(events) /\ Len(events) <= MaxEvents
  /\ raw \in [Entities -> [Rowkeys -> Row]]
  /\ phase \in {"status", "importing", "waiting", "sleeping", "stopped"}
  /\ DOMAIN remoteEventIds \subseteq Entities
  /\ \A e \in DOMAIN remoteEventIds : remoteEventIds[e] \in 0..Len(events)
  /\ socket \in {"none", "opening", "open", "dead"}
  /\ phase = "waiting" => socket # "none"
  /\ mustUpdateAll \in BOOLEAN

\* What the first n events make of a row.
RowAt(n, e, k) ==
  LET event(operation) == greatest({i \in 1..n : /\ events[i].entitet = e
                                                 /\ events[i].rowkey = k
                                                 /\ events[i].operation = operation})
  IN  [eventopret |-> event("opret"), eventopdater |-> event("opdater")]

IsPrefix(n) == \A e \in Entities, k \in Rowkeys : raw[e][k] = RowAt(n, e, k)

\* No transaction of DAR ends between n and n + 1.
EndsTransaction(n) == n \in {0, Len(events)} \/ events[n].tx # events[n + 1].tx

\* The raw tables are always what DAR held after one of its transactions:
\* although every entity is fetched by its own event numbers, notifications
\* are lost while nobody listens, and imports fail, no entity runs ahead of
\* another and no transaction is there by half.
LocalIsPrefix == \E n \in 0..Len(events) : EndsTransaction(n) /\ IsPrefix(n)

\* Imports never take back what was imported, whichever way they learn of
\* events: notifications that come late name events that are there already.
MovesForward ==
  [][\A n \in 0..Len(events) : IsPrefix(n) => \E m \in n..Len(events)' : IsPrefix(m)']_vars

\* At least the first n events have been imported.
Imported(n) == \E m \in n..Len(events) : IsPrefix(m)

\* A notification that reaches the daemon leads to the import of its events
\* and of all before them, also if the import fails, the socket dies or the
\* process is killed meanwhile. Without notifications polling finds them all.
EventsAreImported ==
  \A n \in 1..MaxEvents :
    \/ \E r \in received : r.eventid = n
    \/ ~ options.notificationUrl /\ n <= Len(events)
    ~> Imported(n) \/ phase = "stopped"
=============================================================================
