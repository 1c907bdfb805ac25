------------------------- MODULE ConnectionScheduler -------------------------
(***************************************************************************)
(* A ConnectionScheduler object and the calls its owner, the loop of       *)
(* DistScheduler, makes on it: a task is scheduled unless its source       *)
(* exceeds the queue limit, then completed or given up; runTask is called  *)
(* whenever canRunTask holds.                                              *)
(***************************************************************************)
EXTENDS ConnectionSchedulerOps

CONSTANTS TaskIds,   \* uuid.v4() values; each is drawn once
          Sources    \* client ids

VARIABLES scheduler,   \* the object
          drawn        \* ids of the tasks presented so far

vars == <<scheduler, drawn>>

Tasks == [id : TaskIds, source : Sources]

Init ==
  /\ scheduler = NewScheduler
  /\ drawn = {}

ScheduleTask(source, id) ==
  /\ id \notin drawn
  /\ ~exceedsQueueLimit(scheduler, source)
  /\ scheduler' = scheduleTask(scheduler, source, id)
  /\ drawn' = drawn \cup {id}

\* The owner sends REJECT: the object does not see the task.
RejectTask(source, id) ==
  /\ id \notin drawn
  /\ exceedsQueueLimit(scheduler, source)
  /\ drawn' = drawn \cup {id}
  /\ UNCHANGED scheduler

RunTask(task) ==
  /\ task \in runnableTasks(scheduler)
  /\ scheduler' = runTask(scheduler, task)
  /\ UNCHANGED drawn

CompleteTask(task) ==
  /\ task \in TasksOf(scheduler)
  /\ scheduler' = completeTask(scheduler, task.id, 0)
  /\ UNCHANGED drawn

\* Every id has been used and every task is gone.
Idle ==
  /\ drawn = TaskIds
  /\ scheduler.tasks = <<>>
  /\ UNCHANGED vars

Next ==
  \/ \E source \in Sources, id \in TaskIds : ScheduleTask(source, id)
  \/ \E source \in Sources, id \in TaskIds : RejectTask(source, id)
  \/ \E task \in TasksOf(scheduler) : RunTask(task)
  \/ \E task \in TasksOf(scheduler) : CompleteTask(task)
  \/ Idle

Spec == Init /\ [][Next]_vars

-----------------------------------------------------------------------------
\* Types of the object.
TypeOK ==
  /\ scheduler \in [tasks : Seq(Tasks), started : SUBSET Tasks]
  /\ scheduler.started \subseteq TasksOf(scheduler)
  /\ drawn \subseteq TaskIds

\* No two tasks share an id: completeTask removes exactly one task.
UniqueIds == UniqueIdsIn(scheduler.tasks)

\* Never more running tasks than connection_scheduler.slots.
SlotLimit == Cardinality(scheduler.started) <= Slots

\* A client never holds more than slots_per_source places, running and
\* queued together: the queue limit is the running limit.
QueueLimit ==
  \A s \in Sources :
    Cardinality({t \in TasksOf(scheduler) : t.source = s}) <= SlotsPerSource

\* A free slot is never left empty while a task is queued: the queue limit
\* makes the limit per source unable to block a task that was let in.
WorkConserving ==
  (pendingTasks(scheduler) # {} /\ Cardinality(scheduler.started) < Slots)
    => canRunTask(scheduler)

\* The tasks of each source that wait, and those that run.
Waiting == [s \in Sources |-> idsOf(pendingTasks(scheduler), s)]

Running == [s \in Sources |-> idsOf(scheduler.started, s)]

Promise == INSTANCE TaskScheduler WITH
  waiting <- Waiting,
  running <- Running,
  older   <- olderIn(scheduler.tasks)

\* The class keeps the promise of TaskScheduler: the order within a source
\* and both limits, at every start, whatever left before.
KeepsPromise == Promise!Spec
==============================================================================
