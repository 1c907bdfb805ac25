--------------------------- MODULE QueryScheduler ----------------------------
(***************************************************************************)
(* A QueryScheduler object and the calls its owner, the loop of            *)
(* DistScheduler, makes on it: a task is scheduled, then completed or      *)
(* given up; runTask is called whenever canRunTask holds.                  *)
(***************************************************************************)
EXTENDS QuerySchedulerOps

CONSTANTS TaskIds,     \* uuid.v4() values; each is drawn once
          Sources,     \* client ids
          Durations    \* query times in milliseconds

ASSUME EnvironmentAssumption == Durations \subseteq Nat

VARIABLES scheduler,   \* the object
          drawn,       \* ids of the tasks scheduled so far
          unreserved   \* history: running tasks that took a slot although
                       \* their source was at or above the threshold

vars == <<scheduler, drawn, unreserved>>

Tasks == [id : TaskIds, source : Sources]

IsPriorities(f) == DOMAIN f \subseteq Sources /\ f \in [DOMAIN f -> Int]

Init ==
  /\ scheduler = NewScheduler
  /\ drawn = {}
  /\ unreserved = {}

ScheduleTask(source, id) ==
  /\ id \notin drawn
  /\ scheduler' = scheduleTask(scheduler, source, id)
  /\ drawn' = drawn \cup {id}
  /\ UNCHANGED unreserved

RunTask(task) ==
  /\ canRunTask(scheduler)
  /\ task \in runnableTasks(scheduler)
  /\ scheduler' = runTask(scheduler, task)
  /\ unreserved' = IF scheduler.priorities[task.source] < scheduler.threshold
                   THEN unreserved ELSE unreserved \cup {task}
  /\ UNCHANGED drawn

CompleteTask(task, duration) ==
  /\ task \in TasksOf(scheduler)
  /\ scheduler' = completeTask(scheduler, task.id, duration)
  /\ unreserved' = unreserved \ {task}
  /\ UNCHANGED drawn

\* Every id has been used and every task is gone.
Idle ==
  /\ drawn = TaskIds
  /\ scheduler.tasks = <<>>
  /\ UNCHANGED vars

Next ==
  \/ \E source \in Sources, id \in TaskIds : ScheduleTask(source, id)
  \/ \E task \in TasksOf(scheduler) : RunTask(task)
  \/ \E task \in TasksOf(scheduler), duration \in Durations : CompleteTask(task, duration)
  \/ Idle

Spec == Init /\ [][Next]_vars

-----------------------------------------------------------------------------
\* Types of the object and of the ghosts.
TypeOK ==
  /\ scheduler \in [tasks : Seq(Tasks), started : SUBSET Tasks,
                    priorities : {scheduler.priorities}, threshold : Nat]
  /\ IsPriorities(scheduler.priorities)
  /\ scheduler.started \subseteq TasksOf(scheduler)
  /\ drawn \subseteq TaskIds
  /\ unreserved \subseteq scheduler.started

\* No two tasks share an id: completeTask removes exactly one task.
UniqueIds == UniqueIdsIn(scheduler.tasks)

\* The clean-up in runTask never drops a source that still has a task:
\* otherwise completeTask makes its priority NaN and the lookups in
\* canRunTask read the length of undefined.
SourcesOfTasksKnown ==
  \A t \in TasksOf(scheduler) : t.source \in DOMAIN scheduler.priorities

\* Never more running tasks than query_scheduler.slots.
SlotLimit == Cardinality(scheduler.started) <= Slots

\* Never more running tasks of one source than slots_per_source.
SourceLimit ==
  \A s \in Sources : Cardinality(runningTasksOf(scheduler, s)) <= SlotsPerSource

\* priority_slots are reserved: clients that have used their query time
\* (priority at or above the threshold when they started) never hold more
\* than the other slots, whatever the threshold and the priorities became
\* since.
ReservedSlots ==
  unreserved # {} => Cardinality(unreserved) <= Slots - PrioritySlots

\* No source is further than the initial offset ahead of the threshold: a
\* client cannot save up query time by staying idle.
CreditBounded ==
  \A s \in DOMAIN scheduler.priorities :
    scheduler.priorities[s] >= scheduler.threshold - InitialPriorityOffset

\* The priorities can be relied on: every task finds the one of its source,
\* whatever the clean-up removed, and no source has gained credit by idling.
PrioritiesAreSound == TypeOK /\ SourcesOfTasksKnown /\ CreditBounded

\* When priority slots leave at least one ordinary slot, a queue that waits
\* always waits for a running task: with queued tasks and nothing running, a
\* task can run. (With priority_slots >= slots a source at the threshold
\* would wait for ever.)
NoStall ==
  (PrioritySlots < Slots /\ pendingTasks(scheduler) # {} /\ scheduler.started = {})
    => canRunTask(scheduler)

\* What a source has been charged: its priority number, while it has a task.
Charged(q) == {s \in DOMAIN q.priorities : \E t \in TasksOf(q) : t.source = s}

ChargesGrow ==
  /\ scheduler'.threshold >= scheduler.threshold
  /\ \A s \in Charged(scheduler) :
       /\ s \in DOMAIN scheduler'.priorities
       /\ scheduler'.priorities[s] >= scheduler.priorities[s]

\* The threshold never moves back, and a source keeps the query time it has
\* been charged: while it has a task, its priority number never falls.
ChargesKept == [][ChargesGrow]_vars

\* The tasks of each source that wait, and those that run.
Waiting == [s \in Sources |-> idsOf(pendingTasks(scheduler), s)]

Running == [s \in Sources |-> idsOf(scheduler.started, s)]

Promise == INSTANCE TaskScheduler WITH
  waiting <- Waiting,
  running <- Running,
  older   <- olderIn(scheduler.tasks)

\* The class keeps the promise of TaskScheduler: the order within a source
\* and both limits, at every start, whatever left before.
KeepsPromise == Promise!Spec
==============================================================================
