-------------------------- MODULE QuerySchedulerOps --------------------------
(***************************************************************************)
(* The class QueryScheduler (dist-scheduler/queryScheduler.js): its        *)
(* object as a record, its methods as operators on that record.            *)
(*                                                                         *)
(*   tasks       this.tasks, in the order the tasks were pushed            *)
(*   started     the tasks whose startedTimestamp is not null              *)
(*   priorities  this.sourcePriorities                                     *)
(*   threshold   this.priorityThreshold                                    *)
(*                                                                         *)
(* Timestamps only enter through the duration completeTask adds to the     *)
(* priority of the source, so the duration is its parameter.               *)
(***************************************************************************)
EXTENDS Integers, Sequences, FiniteSets, TaskList

CONSTANTS Slots,                  \* query_scheduler.slots
          SlotsPerSource,         \* query_scheduler.slots_per_source
          PrioritySlots,          \* query_scheduler.priority_slots
          InitialPriorityOffset   \* initial_priority_offset_millis

ASSUME QueryOptionsAssumption ==
  /\ Slots \in Nat \ {0}
  /\ SlotsPerSource \in Nat \ {0}
  /\ PrioritySlots \in Nat
  /\ InitialPriorityOffset \in Nat

NewScheduler ==
  [tasks |-> <<>>, started |-> {}, priorities |-> <<>>, threshold |-> 0]

Larger(a, b) == IF a >= b THEN a ELSE b

\* The tasks of the object, and the queued ones.
TasksOf(q) == Elements(q.tasks)

pendingTasks(q) == TasksOf(q) \ q.started

remainingSlotCount(q) == Slots - Cardinality(q.started)

runningTasksOf(q, source) == {t \in q.started : t.source = source}

pendingTasksOf(q, source) == {t \in pendingTasks(q) : t.source = source}

containsTask(q, id) == \E t \in TasksOf(q) : t.id = id

\* The query queue has no limit.
exceedsQueueLimit(q, source) == FALSE

scheduleTask(q, source, id) ==
  [q EXCEPT
     !.tasks = Append(@, [id |-> id, source |-> source]),
     !.priorities =
        [s \in DOMAIN @ \cup {source} |->
           IF s \in DOMAIN @ THEN @[s]
                             ELSE q.threshold - InitialPriorityOffset]]

\* Slip: the last ordinary slot counted once too often.
nonPriorityAllowed_AtZero(q) == remainingSlotCount(q) - PrioritySlots >= 0

nonPriorityAllowed(q) == remainingSlotCount(q) - PrioritySlots > 0

belowSourceLimit(q, source) == Cardinality(runningTasksOf(q, source)) < SlotsPerSource

eligibleSources(q) ==
  {s \in DOMAIN q.priorities :
     /\ pendingTasksOf(q, s) # {}
     /\ belowSourceLimit(q, s)
     /\ nonPriorityAllowed(q) \/ q.priorities[s] < q.threshold}

canRunTask(q) == remainingSlotCount(q) # 0 /\ eligibleSources(q) # {}

\* The queued task of the source that was pushed first.
firstPending(q, source) == oldest(q.tasks, pendingTasksOf(q, source))

\* The tasks runTask may start: the first of an eligible source of least
\* priority number. Among equal sources the code takes the first key of an
\* object, which depends on the history of the keys; here any of them.
runnableTasks(q) ==
  IF ~canRunTask(q) THEN {}
  ELSE {firstPending(q, s) :
          s \in {r \in eligibleSources(q) :
                   \A e \in eligibleSources(q) : q.priorities[r] <= q.priorities[e]}}

\* Slip: every priority is reset, also those above the floor.
raisedPriority_Reset(q, source, floor) == floor

raisedPriority(q, source, floor) == Larger(q.priorities[source], floor)

\* Slip: queued tasks are not looked at.
idleSources_RunningOnly(q, floor) ==
  {s \in DOMAIN q.priorities :
     runningTasksOf(q, s) = {} /\ raisedPriority(q, s, floor) = floor}

idleSources(q, floor) ==
  {s \in DOMAIN q.priorities :
     /\ runningTasksOf(q, s) = {}
     /\ pendingTasksOf(q, s) = {}
     /\ raisedPriority(q, s, floor) = floor}

\* The counts the clean-up looks at were taken before the task started.
runTask(q, task) ==
  LET threshold == Larger(q.threshold, q.priorities[task.source])
      floor     == threshold - InitialPriorityOffset
  IN  [q EXCEPT
         !.started    = @ \cup {task},
         !.threshold  = threshold,
         !.priorities = [s \in DOMAIN @ \ idleSources(q, floor) |->
                           raisedPriority(q, s, floor)]]

\* The code dereferences the task it finds: an unknown id throws.
completeTaskThrows(q, id) == ~containsTask(q, id)

completeTask(q, id, duration) ==
  LET task == CHOOSE t \in TasksOf(q) : t.id = id
  IN  [q EXCEPT
         !.tasks      = without(@, id),
         !.started    = @ \ {task},
         !.priorities = IF task \in q.started
                        THEN [q.priorities EXCEPT
                                ![task.source] = q.priorities[task.source] + duration]
                        ELSE q.priorities]
==============================================================================
