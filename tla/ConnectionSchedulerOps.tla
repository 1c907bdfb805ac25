------------------------ MODULE ConnectionSchedulerOps -----------------------
(***************************************************************************)
(* The class ConnectionScheduler (dist-scheduler/connectionScheduler.js):  *)
(* its object as a record, its methods as operators on that record.        *)
(*                                                                         *)
(*   tasks       this.scheduledTasks, in the order they were pushed        *)
(*   started     the tasks whose startedTimestamp is not null              *)
(***************************************************************************)
EXTENDS Integers, Sequences, FiniteSets, TaskList

CONSTANTS Slots,           \* connection_scheduler.slots
          SlotsPerSource   \* connection_scheduler.slots_per_source

ASSUME ConnectionOptionsAssumption ==
  /\ Slots \in Nat \ {0}
  /\ SlotsPerSource \in Nat \ {0}

NewScheduler == [tasks |-> <<>>, started |-> {}]

TasksOf(c) == Elements(c.tasks)

pendingTasks(c) == TasksOf(c) \ c.started

runningTasksOf(c, source) == {t \in c.started : t.source = source}

containsTask(c, id) == \E t \in TasksOf(c) : t.id = id

\* Slip: > for >=.
exceedsQueueLimit_OneMore(c, source) ==
  Cardinality({t \in TasksOf(c) : t.source = source}) > SlotsPerSource

exceedsQueueLimit(c, source) ==
  Cardinality({t \in TasksOf(c) : t.source = source}) >= SlotsPerSource

scheduleTask(c, source, id) ==
  [c EXCEPT !.tasks = Append(@, [id |-> id, source |-> source])]

runningCount(c, source) == Cardinality(runningTasksOf(c, source))

\* The queued tasks of sources that may have one more connection.
eligibleTasks(c) ==
  {t \in pendingTasks(c) : runningCount(c, t.source) < SlotsPerSource}

fewestRunning(c) ==
  {t \in eligibleTasks(c) :
     \A u \in eligibleTasks(c) : runningCount(c, t.source) <= runningCount(c, u.source)}

slotsTaken(c) == Cardinality(c.started) >= Slots

\* The tasks runTask may start: none when the slots are taken, otherwise the
\* first queued task of a source with the fewest running tasks. The keys of
\* pendingTasksBySource are in the order of each source's first queued task,
\* so among equal sources that is the task pushed first.
runnableTasks(c) ==
  IF slotsTaken(c) \/ eligibleTasks(c) = {} THEN {}
                                            ELSE {oldest(c.tasks, fewestRunning(c))}

canRunTask(c) == runnableTasks(c) # {}

runTask(c, task) == [c EXCEPT !.started = @ \cup {task}]

\* An unknown id is ignored; the time of completion is not used.
completeTaskThrows(c, id) == FALSE

completeTask(c, id, duration) ==
  IF containsTask(c, id)
  THEN [c EXCEPT !.tasks   = without(@, id),
                 !.started = {t \in @ : t.id # id}]
  ELSE c
==============================================================================
