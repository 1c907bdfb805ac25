------------------------ MODULE QueryScheduler_proofs ------------------------
(***************************************************************************)
(* Proofs about QueryScheduler, for any options, sources and tasks.        *)
(***************************************************************************)
EXTENDS QueryScheduler, SharedLemmas

\* The limits only make sense with these.
FiniteStarted == IsFiniteSet(scheduler.started)

\* An id is not drawn again while its task is there.
IdsDrawn == \A t \in TasksOf(scheduler) : t.id \in drawn

\* The inductive invariant.
IInv ==
  /\ TypeOK
  /\ UniqueIds
  /\ IdsDrawn
  /\ SourcesOfTasksKnown
  /\ FiniteStarted
  /\ SlotLimit
  /\ SourceLimit
  /\ ReservedSlots
  /\ CreditBounded

-----------------------------------------------------------------------------
\* Lemmas about the operators

\* The task runTask takes from a source with a queue is one of that queue.
LEMMA FirstPendingIsPending ==
  ASSUME NEW q, q.tasks \in Seq(Tasks), NEW s, pendingTasksOf(q, s) # {}
  PROVE  firstPending(q, s) \in pendingTasksOf(q, s)
<1>1. pendingTasksOf(q, s) \subseteq Elements(q.tasks)
  BY DEF pendingTasksOf, pendingTasks, TasksOf, Elements
<1> QED BY <1>1, OldestIn DEF firstPending

\* What a started task satisfied: it was the first in the queue of its
\* source, its source had a place
\* left, and so had the scheduler, with or without the reserved slots.
LEMMA RunnableTask ==
  ASSUME NEW q, q.tasks \in Seq(Tasks), NEW task \in runnableTasks(q)
  PROVE  /\ task \in pendingTasks(q)
         /\ task = firstPending(q, task.source)
         /\ pendingTasksOf(q, task.source) # {}
         /\ task.source \in DOMAIN q.priorities
         /\ Cardinality(runningTasksOf(q, task.source)) < SlotsPerSource
         /\ nonPriorityAllowed(q) \/ q.priorities[task.source] < q.threshold
         /\ remainingSlotCount(q) # 0
<1>1. PICK s \in eligibleSources(q) : task = firstPending(q, s)
  BY DEF runnableTasks
<1>2. canRunTask(q)
  BY DEF runnableTasks
<1>3. task \in pendingTasksOf(q, s)
  BY <1>1, FirstPendingIsPending DEF eligibleSources
<1>4. task \in pendingTasks(q) /\ task.source = s
  BY <1>3 DEF pendingTasksOf
<1> QED BY <1>1, <1>2, <1>4 DEF eligibleSources, belowSourceLimit, canRunTask

-----------------------------------------------------------------------------
\* The invariant holds initially and every step keeps it

LEMMA InitInv == Init => IInv
<1> SUFFICES ASSUME Init PROVE IInv
  OBVIOUS
<1> USE QueryOptionsAssumption
<1>1. /\ scheduler = [tasks |-> <<>>, started |-> {}, priorities |-> <<>>, threshold |-> 0]
      /\ drawn = {} /\ unreserved = {}
  BY DEF Init, NewScheduler
<1>2. TasksOf(scheduler) = {} /\ \A s : runningTasksOf(scheduler, s) = {}
  BY <1>1 DEF TasksOf, Elements, runningTasksOf
<1>3. <<>> \in [{} -> Int]
  OBVIOUS
<1>4. IsPriorities(<<>>)
  BY <1>3 DEF IsPriorities
<1>5. TypeOK
  BY <1>1, <1>2, <1>4 DEF TypeOK
<1>6. FiniteStarted /\ SlotLimit /\ SourceLimit
  <2>1. IsFiniteSet({}) /\ Cardinality({}) = 0
    BY FS_EmptySet
  <2>2. scheduler.started = {}
    BY <1>1
  <2> QED BY <1>2, <2>1, <2>2 DEF FiniteStarted, SlotLimit, SourceLimit
<1>7. UniqueIds /\ IdsDrawn /\ SourcesOfTasksKnown /\ ReservedSlots /\ CreditBounded
  BY <1>1, <1>2 DEF UniqueIds, UniqueIdsIn, IdsDrawn, SourcesOfTasksKnown, ReservedSlots, CreditBounded
<1> QED BY <1>5, <1>6, <1>7 DEF IInv

\* Any function from sources to integers is a value of sourcePriorities.
LEMMA PrioritiesType ==
  ASSUME NEW f, NEW S \in SUBSET Sources, f \in [S -> Int]
  PROVE  IsPriorities(f)
BY DEF IsPriorities

LEMMA ScheduleInv ==
  ASSUME IInv, NEW source \in Sources, NEW id \in TaskIds, ScheduleTask(source, id)
  PROVE  IInv'
<1> USE QueryOptionsAssumption
<1> DEFINE new == [id |-> id, source |-> source]
           old == scheduler.priorities
           n   == Len(scheduler.tasks)
<1>0. /\ TypeOK /\ UniqueIds /\ IdsDrawn /\ SourcesOfTasksKnown
      /\ FiniteStarted /\ SlotLimit /\ SourceLimit /\ ReservedSlots /\ CreditBounded
  BY DEF IInv
<1>1. /\ scheduler'.tasks = Append(scheduler.tasks, new)
      /\ scheduler'.started = scheduler.started
      /\ scheduler'.threshold = scheduler.threshold
      /\ scheduler'.priorities =
           [s \in DOMAIN old \cup {source} |->
              IF s \in DOMAIN old THEN old[s]
              ELSE scheduler.threshold - InitialPriorityOffset]
      /\ scheduler' = [tasks |-> scheduler'.tasks, started |-> scheduler'.started,
                       priorities |-> scheduler'.priorities,
                       threshold |-> scheduler'.threshold]
  BY <1>0 DEF ScheduleTask, scheduleTask, TypeOK
<1>2. id \notin drawn /\ drawn' = drawn \cup {id} /\ unreserved' = unreserved
  BY DEF ScheduleTask
<1>3. scheduler.tasks \in Seq(Tasks) /\ new \in Tasks
  BY <1>0 DEF TypeOK, Tasks
<1>4. TasksOf(scheduler)' = TasksOf(scheduler) \cup {new}
  <2>1. /\ DOMAIN scheduler'.tasks = 1..(n + 1)
        /\ \A i \in 1..n : scheduler'.tasks[i] = scheduler.tasks[i]
        /\ scheduler'.tasks[n + 1] = new
        /\ DOMAIN scheduler.tasks = 1..n /\ n \in Nat
    BY <1>1, <1>3
  <2> QED BY <2>1 DEF TasksOf, Elements
<1>5. PICK S \in SUBSET Sources : old \in [S -> Int]
  BY <1>0 DEF TypeOK, IsPriorities
<1>6. TypeOK'
  <2>1. scheduler'.priorities \in [S \cup {source} -> Int]
    BY <1>0, <1>1, <1>5 DEF TypeOK
  <2>2. IsPriorities(scheduler'.priorities)
    BY <2>1, PrioritiesType
  <2>3. scheduler'.tasks \in Seq(Tasks)
    BY <1>1, <1>3
  <2> QED BY <1>0, <1>1, <1>2, <1>4, <2>2, <2>3 DEF TypeOK
<1>7. UniqueIds'
  <2>1. \A i \in DOMAIN scheduler.tasks : scheduler.tasks[i].id # id
    BY <1>0, <1>2 DEF IdsDrawn, TasksOf, Elements
  <2> QED BY <1>0, <1>1, <1>3, <2>1 DEF UniqueIds, UniqueIdsIn
<1>8. IdsDrawn'
  BY <1>0, <1>2, <1>4 DEF IdsDrawn
<1>9. SourcesOfTasksKnown'
  BY <1>0, <1>1, <1>4 DEF SourcesOfTasksKnown
<1>10. FiniteStarted' /\ SlotLimit' /\ SourceLimit' /\ ReservedSlots'
  BY <1>0, <1>1, <1>2
  DEF FiniteStarted, SlotLimit, SourceLimit, ReservedSlots, runningTasksOf
<1>11. CreditBounded'
  BY <1>0, <1>1, <1>5 DEF CreditBounded, TypeOK
<1> QED BY <1>6, <1>7, <1>8, <1>9, <1>10, <1>11 DEF IInv

LEMMA RunInv ==
  ASSUME IInv, NEW task \in TasksOf(scheduler), RunTask(task)
  PROVE  IInv'
<1> USE QueryOptionsAssumption
<1> DEFINE old       == scheduler.priorities
           threshold == Larger(scheduler.threshold, old[task.source])
           floor     == threshold - InitialPriorityOffset
           idle      == {s \in DOMAIN old :
                           /\ runningTasksOf(scheduler, s) = {}
                           /\ pendingTasksOf(scheduler, s) = {}
                           /\ Larger(old[s], floor) = floor}
<1>0. /\ TypeOK /\ UniqueIds /\ IdsDrawn /\ SourcesOfTasksKnown
      /\ FiniteStarted /\ SlotLimit /\ SourceLimit /\ ReservedSlots /\ CreditBounded
  BY DEF IInv
<1>1. /\ scheduler'.tasks = scheduler.tasks
      /\ scheduler'.started = scheduler.started \cup {task}
      /\ scheduler'.threshold = threshold
      /\ scheduler'.priorities = [s \in DOMAIN old \ idle |-> Larger(old[s], floor)]
      /\ scheduler' = [tasks |-> scheduler'.tasks, started |-> scheduler'.started,
                       priorities |-> scheduler'.priorities,
                       threshold |-> scheduler'.threshold]
  BY <1>0 DEF RunTask, runTask, idleSources, raisedPriority, TypeOK
<1>2. /\ drawn' = drawn
      /\ unreserved' = IF old[task.source] < scheduler.threshold
                       THEN unreserved ELSE unreserved \cup {task}
  BY DEF RunTask
<1>3. /\ task \in pendingTasks(scheduler)
      /\ task.source \in DOMAIN old
      /\ Cardinality(runningTasksOf(scheduler, task.source)) < SlotsPerSource
      /\ nonPriorityAllowed(scheduler) \/ old[task.source] < scheduler.threshold
      /\ remainingSlotCount(scheduler) # 0
  BY <1>0, RunnableTask DEF RunTask, TypeOK
<1>4. TasksOf(scheduler)' = TasksOf(scheduler)
  BY <1>1 DEF TasksOf, Elements
<1>5. task \in Tasks /\ task \notin scheduler.started
  BY <1>0, <1>3 DEF pendingTasks, TasksOf, Elements, TypeOK
<1>6. PICK S \in SUBSET Sources : old \in [S -> Int]
  BY <1>0 DEF TypeOK, IsPriorities
<1>7. threshold \in Nat /\ floor \in Int /\ threshold >= scheduler.threshold
  BY <1>0, <1>3, <1>6 DEF Larger, TypeOK
<1>8. TypeOK'
  <2>1. scheduler'.priorities \in [S \ idle -> Int]
    BY <1>1, <1>6, <1>7 DEF Larger
  <2>2. IsPriorities(scheduler'.priorities)
    BY <2>1, PrioritiesType
  <2> QED BY <1>0, <1>1, <1>2, <1>4, <1>5, <1>7, <2>2 DEF TypeOK
<1>9. UniqueIds' /\ IdsDrawn'
  BY <1>0, <1>1, <1>2, <1>4 DEF UniqueIds, UniqueIdsIn, IdsDrawn
<1>10. SourcesOfTasksKnown'
  <2> SUFFICES ASSUME NEW t \in TasksOf(scheduler)
               PROVE  t.source \in DOMAIN old \ idle
    BY <1>1, <1>4 DEF SourcesOfTasksKnown
  <2>1. CASE t \in scheduler.started
    BY <1>0, <2>1 DEF SourcesOfTasksKnown, runningTasksOf
  <2>2. CASE t \notin scheduler.started
    BY <1>0, <2>2 DEF SourcesOfTasksKnown, pendingTasksOf, pendingTasks
  <2> QED BY <2>1, <2>2
<1>11. /\ IsFiniteSet(scheduler'.started)
       /\ Cardinality(scheduler'.started) = Cardinality(scheduler.started) + 1
       /\ Cardinality(scheduler.started) \in Nat
  BY <1>0, <1>1, <1>5, FS_AddElement, FS_CardinalityType DEF FiniteStarted
<1>12. FiniteStarted' /\ SlotLimit'
  BY <1>0, <1>3, <1>11 DEF FiniteStarted, SlotLimit, remainingSlotCount
<1>13. SourceLimit'
  <2> SUFFICES ASSUME NEW s \in Sources
               PROVE  Cardinality(runningTasksOf(scheduler', s)) <= SlotsPerSource
    BY DEF SourceLimit
  <2>1. CASE s # task.source
    <3>1. runningTasksOf(scheduler', s) = runningTasksOf(scheduler, s)
      BY <1>1, <2>1 DEF runningTasksOf
    <3> QED BY <1>0, <3>1 DEF SourceLimit
  <2>2. CASE s = task.source
    <3>1. runningTasksOf(scheduler', s) = runningTasksOf(scheduler, s) \cup {task}
      BY <1>1, <2>2 DEF runningTasksOf
    <3>2. runningTasksOf(scheduler, s) \in SUBSET scheduler.started
      BY DEF runningTasksOf
    <3>3. /\ IsFiniteSet(runningTasksOf(scheduler, s))
          /\ Cardinality(runningTasksOf(scheduler, s)) \in Nat
      BY <1>0, <3>2, FS_Subset, FS_CardinalityType DEF FiniteStarted
    <3>4. task \notin runningTasksOf(scheduler, s)
      BY <1>5 DEF runningTasksOf
    <3>5. Cardinality(runningTasksOf(scheduler, s) \cup {task})
             = Cardinality(runningTasksOf(scheduler, s)) + 1
      BY <3>3, <3>4, FS_AddElement
    <3>6. Cardinality(runningTasksOf(scheduler', s))
             = Cardinality(runningTasksOf(scheduler, s)) + 1
      BY <3>1, <3>5
    <3> QED BY <1>3, <2>2, <3>3, <3>6
  <2> QED BY <2>1, <2>2
<1>14. ReservedSlots'
  <2>1. CASE old[task.source] < scheduler.threshold
    BY <1>0, <1>2, <2>1 DEF ReservedSlots
  <2>2. CASE ~(old[task.source] < scheduler.threshold)
    <3>1. Slots - Cardinality(scheduler.started) - PrioritySlots > 0
      BY <1>3, <2>2 DEF nonPriorityAllowed, remainingSlotCount
    <3>2. unreserved' \in SUBSET scheduler'.started
      BY <1>8 DEF TypeOK
    <3>3. Cardinality(unreserved') <= Cardinality(scheduler'.started)
          /\ Cardinality(unreserved') \in Nat
      BY <1>11, <3>2, FS_Subset, FS_CardinalityType
    <3> QED BY <1>11, <3>1, <3>3 DEF ReservedSlots
  <2> QED BY <2>1, <2>2
<1>15. CreditBounded'
  BY <1>1, <1>6, <1>7 DEF CreditBounded, Larger
<1> QED BY <1>8, <1>9, <1>10, <1>12, <1>13, <1>14, <1>15 DEF IInv

LEMMA CompleteInv ==
  ASSUME IInv, NEW task \in TasksOf(scheduler), NEW duration \in Durations,
         CompleteTask(task, duration)
  PROVE  IInv'
<1> USE QueryOptionsAssumption
<1> DEFINE old == scheduler.priorities
<1>0. /\ TypeOK /\ UniqueIds /\ IdsDrawn /\ SourcesOfTasksKnown
      /\ FiniteStarted /\ SlotLimit /\ SourceLimit /\ ReservedSlots /\ CreditBounded
  BY DEF IInv
<1>1. duration \in Nat
  BY EnvironmentAssumption
<1>2. PICK k \in DOMAIN scheduler.tasks : task = scheduler.tasks[k]
  BY DEF TasksOf, Elements
<1>3. (CHOOSE t \in TasksOf(scheduler) : t.id = task.id) = task
  BY <1>0, <1>2 DEF TasksOf, Elements, UniqueIds, UniqueIdsIn
<1>4. /\ scheduler'.tasks = without(scheduler.tasks, task.id)
      /\ scheduler'.started = scheduler.started \ {task}
      /\ scheduler'.threshold = scheduler.threshold
      /\ scheduler'.priorities =
           IF task \in scheduler.started
           THEN [old EXCEPT ![task.source] = old[task.source] + duration] ELSE old
      /\ scheduler' = [tasks |-> scheduler'.tasks, started |-> scheduler'.started,
                       priorities |-> scheduler'.priorities,
                       threshold |-> scheduler'.threshold]
  BY <1>0, <1>3 DEF CompleteTask, completeTask, TypeOK
<1>5. drawn' = drawn /\ unreserved' = unreserved \ {task}
  BY DEF CompleteTask
<1>6. /\ scheduler'.tasks \in Seq(Tasks)
      /\ TasksOf(scheduler)' = TasksOf(scheduler) \ {task}
      /\ UniqueIds'
  <2>1. scheduler.tasks \in Seq(Tasks)
    BY <1>0 DEF TypeOK
  <2>2. UniqueIdsIn(scheduler.tasks)
    BY <1>0 DEF UniqueIds
  <2> DEFINE rest == without(scheduler.tasks, scheduler.tasks[k].id)
  <2>3. /\ rest \in Seq(Tasks)
        /\ Elements(rest) = Elements(scheduler.tasks) \ {scheduler.tasks[k]}
        /\ UniqueIdsIn(rest)
    BY <2>1, <2>2, WithoutOne
  <2>4. scheduler'.tasks = rest
    BY <1>2, <1>4
  <2> HIDE DEF rest
  <2>5. UniqueIds'
    BY <2>3, <2>4 DEF UniqueIds, UniqueIdsIn
  <2>6. TasksOf(scheduler)' = TasksOf(scheduler) \ {task}
    BY <1>2, <2>3, <2>4 DEF TasksOf, Elements
  <2> QED BY <2>3, <2>4, <2>5, <2>6
<1>7. PICK S \in SUBSET Sources : old \in [S -> Int]
  BY <1>0 DEF TypeOK, IsPriorities
<1>8. task.source \in S
  BY <1>0, <1>7 DEF SourcesOfTasksKnown
<1>9. scheduler'.priorities \in [S -> Int]
  BY <1>1, <1>4, <1>7, <1>8
<1>10. \A s \in S : scheduler'.priorities[s] >= old[s]
  BY <1>1, <1>4, <1>7, <1>8
<1>11. TypeOK'
  <2>1. IsPriorities(scheduler'.priorities)
    BY <1>9, PrioritiesType
  <2> QED BY <1>0, <1>4, <1>5, <1>6, <2>1 DEF TypeOK
<1>12. IdsDrawn' /\ SourcesOfTasksKnown'
  BY <1>0, <1>5, <1>6, <1>7, <1>9 DEF IdsDrawn, SourcesOfTasksKnown
<1>13. scheduler'.started \in SUBSET scheduler.started
  BY <1>4
<1>14. FiniteStarted' /\ SlotLimit'
  <2>1. /\ IsFiniteSet(scheduler'.started)
        /\ Cardinality(scheduler'.started) <= Cardinality(scheduler.started)
        /\ Cardinality(scheduler'.started) \in Nat
        /\ Cardinality(scheduler.started) \in Nat
    BY <1>0, <1>13, FS_Subset, FS_CardinalityType DEF FiniteStarted
  <2> QED BY <1>0, <2>1 DEF FiniteStarted, SlotLimit
<1>15. SourceLimit'
  <2> SUFFICES ASSUME NEW s \in Sources
               PROVE  Cardinality(runningTasksOf(scheduler', s)) <= SlotsPerSource
    BY DEF SourceLimit
  <2>1. /\ runningTasksOf(scheduler, s) \in SUBSET scheduler.started
        /\ runningTasksOf(scheduler', s) \in SUBSET runningTasksOf(scheduler, s)
    BY <1>4 DEF runningTasksOf
  <2>2. IsFiniteSet(runningTasksOf(scheduler, s))
    BY <1>0, <2>1, FS_Subset DEF FiniteStarted
  <2>3. /\ Cardinality(runningTasksOf(scheduler', s)) <= Cardinality(runningTasksOf(scheduler, s))
        /\ Cardinality(runningTasksOf(scheduler', s)) \in Nat
        /\ Cardinality(runningTasksOf(scheduler, s)) \in Nat
    BY <2>1, <2>2, FS_Subset, FS_CardinalityType
  <2> QED BY <1>0, <2>3 DEF SourceLimit
<1>16. ReservedSlots'
  <2> SUFFICES ASSUME unreserved' # {}
               PROVE  Cardinality(unreserved') <= Slots - PrioritySlots
    BY DEF ReservedSlots
  <2>1. unreserved' \in SUBSET unreserved /\ unreserved \in SUBSET scheduler.started
    BY <1>0, <1>5 DEF TypeOK
  <2>2. IsFiniteSet(unreserved)
    BY <1>0, <2>1, FS_Subset DEF FiniteStarted
  <2>3. /\ Cardinality(unreserved') <= Cardinality(unreserved)
        /\ Cardinality(unreserved') \in Nat /\ Cardinality(unreserved) \in Nat
    BY <2>1, <2>2, FS_Subset, FS_CardinalityType
  <2>4. Cardinality(unreserved) <= Slots - PrioritySlots
    BY <1>0, <2>1 DEF ReservedSlots
  <2> QED BY <2>3, <2>4
<1>17. CreditBounded'
  BY <1>0, <1>4, <1>7, <1>9, <1>10 DEF CreditBounded, TypeOK
<1> QED BY <1>6, <1>11, <1>12, <1>14, <1>15, <1>16, <1>17 DEF IInv
-----------------------------------------------------------------------------
\* The object keeps the promise of TaskScheduler

\* What both sides call a task: its source is known, its id is its own.
LEMMA TasksAreTasks ==
  ASSUME IInv
  PROVE  /\ scheduler.tasks \in Seq(Tasks)
         /\ TasksOf(scheduler) = Elements(scheduler.tasks)
         /\ \A t \in TasksOf(scheduler) : t.source \in Sources /\ t.id \in TaskIds
         /\ \A t, u \in TasksOf(scheduler) : t.id = u.id => t = u
         /\ scheduler.started \subseteq TasksOf(scheduler)
         /\ UniqueIdsIn(scheduler.tasks)
<1>1. scheduler.tasks \in Seq(Tasks) /\ scheduler.started \subseteq TasksOf(scheduler)
  BY DEF IInv, TypeOK
<1>2. \A t \in TasksOf(scheduler) : t \in Tasks
  BY <1>1 DEF TasksOf, Elements
<1>3. UniqueIdsIn(scheduler.tasks)
  BY DEF IInv, UniqueIds
<1>4. \A t, u \in TasksOf(scheduler) : t.id = u.id => t = u
  BY <1>3 DEF TasksOf, Elements, UniqueIdsIn
<1> QED BY <1>1, <1>2, <1>3, <1>4 DEF Tasks, TasksOf

\* The tasks held are those of the array.
LEMMA HeldIds ==
  ASSUME IInv
  PROVE  Promise!Held = {t.id : t \in TasksOf(scheduler)}
<1>1. TasksOf(scheduler) = pendingTasks(scheduler) \cup scheduler.started
  BY TasksAreTasks DEF pendingTasks
<1>2. \A s \in Sources : Waiting[s] \cup Running[s] = idsOf(TasksOf(scheduler), s)
  <2> SUFFICES ASSUME NEW s \in Sources
               PROVE  Waiting[s] \cup Running[s] = idsOf(TasksOf(scheduler), s)
    OBVIOUS
  <2>1. Waiting[s] = idsOf(pendingTasks(scheduler), s) /\ Running[s] = idsOf(scheduler.started, s)
    BY DEF Waiting, Running
  <2> QED BY <1>1, <2>1 DEF idsOf
<1>3. Promise!Held = UNION {idsOf(TasksOf(scheduler), s) : s \in Sources}
  BY <1>2 DEF Promise!Held
<1> QED BY <1>3, TasksAreTasks, IdsOfAllSources

\* Scheduling a task submits it.
LEMMA ScheduleSubmits ==
  ASSUME IInv, NEW source \in Sources, NEW id \in TaskIds, ScheduleTask(source, id)
  PROVE  Promise!Submit(source, id)
<1> DEFINE new == [id |-> id, source |-> source]
           n   == Len(scheduler.tasks)
<1>1. /\ scheduler'.tasks = Append(scheduler.tasks, new)
      /\ scheduler'.started = scheduler.started
  BY DEF ScheduleTask, scheduleTask, IInv, TypeOK
<1>2. scheduler.tasks \in Seq(Tasks)
  BY TasksAreTasks
<1>3. TasksOf(scheduler') = TasksOf(scheduler) \cup {new}
  <2>1. /\ DOMAIN scheduler'.tasks = 1..(n + 1)
        /\ \A i \in 1..n : scheduler'.tasks[i] = scheduler.tasks[i]
        /\ scheduler'.tasks[n + 1] = new
        /\ DOMAIN scheduler.tasks = 1..n /\ n \in Nat
    BY <1>1, <1>2
  <2> QED BY <2>1 DEF TasksOf, Elements
<1>4. \A t \in TasksOf(scheduler) : t.id # id
  BY DEF IInv, IdsDrawn, ScheduleTask
<1>5. id \notin Promise!Held
  BY <1>4, HeldIds
<1>6. pendingTasks(scheduler') = pendingTasks(scheduler) \cup {new}
  <2>1. new \notin scheduler.started
    BY <1>4, TasksAreTasks
  <2> QED BY <1>1, <1>3, <2>1 DEF pendingTasks
<1>7. Waiting' = [Waiting EXCEPT ![source] = @ \cup {id}]
  <2>1. ASSUME NEW s \in Sources
        PROVE  idsOf(pendingTasks(scheduler) \cup {new}, s) =
                 IF s = source THEN idsOf(pendingTasks(scheduler), s) \cup {id}
                               ELSE idsOf(pendingTasks(scheduler), s)
    <3>1. new.source = source /\ new.id = id
      OBVIOUS
    <3> HIDE DEF new
    <3> QED BY <3>1, IdsAfterAdding
  <2> HIDE DEF new
  <2> QED BY <1>6, <2>1 DEF Waiting
<1>8. Running' = Running
  BY <1>1 DEF Running
<1>9. olderIn(scheduler'.tasks) = olderIn(scheduler.tasks) \cup (Promise!Held \X {id})
  BY <1>1, <1>2, HeldIds, TasksAreTasks, OlderAfterPush
<1> QED BY <1>5, <1>7, <1>8, <1>9 DEF Promise!Submit

\* A task that runs starts: it is the oldest of its source that waits, and
\* neither limit is reached.
LEMMA RunStarts ==
  ASSUME IInv, NEW task \in TasksOf(scheduler), RunTask(task)
  PROVE  Promise!Start(task.source, task.id)
<1> USE QueryOptionsAssumption
<1>0. /\ task \in pendingTasks(scheduler)
      /\ task = firstPending(scheduler, task.source)
      /\ pendingTasksOf(scheduler, task.source) # {}
      /\ Cardinality(runningTasksOf(scheduler, task.source)) < SlotsPerSource
      /\ remainingSlotCount(scheduler) # 0
      /\ IsFiniteSet(scheduler.started)
      /\ SlotLimit
  BY TasksAreTasks, RunnableTask DEF RunTask, IInv, FiniteStarted
<1>1. /\ scheduler'.tasks = scheduler.tasks
      /\ scheduler'.started = scheduler.started \cup {task}
  BY DEF RunTask, runTask, IInv, TypeOK
<1>2. /\ task \in pendingTasks(scheduler) /\ task \notin scheduler.started
      /\ task.source \in Sources
  BY <1>0, TasksAreTasks DEF pendingTasks
<1>3. pendingTasks(scheduler') = pendingTasks(scheduler) \ {task}
  BY <1>1 DEF pendingTasks, TasksOf
<1>4. \A u \in pendingTasks(scheduler) : u.id = task.id => u = task
  BY TasksAreTasks DEF pendingTasks
<1>5. Waiting' = [Waiting EXCEPT ![task.source] = @ \ {task.id}]
  <2>1. ASSUME NEW s \in Sources
        PROVE  idsOf(pendingTasks(scheduler) \ {task}, s) =
                 IF s = task.source THEN idsOf(pendingTasks(scheduler), s) \ {task.id}
                                    ELSE idsOf(pendingTasks(scheduler), s)
    BY <1>4, IdsAfterRemoving
  <2> QED BY <1>3, <2>1 DEF Waiting
<1>6. Running' = [Running EXCEPT ![task.source] = @ \cup {task.id}]
  <2>1. ASSUME NEW s \in Sources
        PROVE  idsOf(scheduler.started \cup {task}, s) =
                 IF s = task.source THEN idsOf(scheduler.started, s) \cup {task.id}
                                    ELSE idsOf(scheduler.started, s)
    BY IdsAfterAdding
  <2> QED BY <1>1, <2>1 DEF Running
<1>7. olderIn(scheduler'.tasks) = olderIn(scheduler.tasks)
  BY <1>1
<1>8. task.id \in Waiting[task.source]
  BY <1>2 DEF Waiting, idsOf
<1>9. \A x \in Waiting[task.source] : <<x, task.id>> \notin olderIn(scheduler.tasks)
  <2>1. /\ task = firstPending(scheduler, task.source)
        /\ pendingTasksOf(scheduler, task.source) # {}
    BY <1>0
  <2>2. pendingTasksOf(scheduler, task.source) \subseteq Elements(scheduler.tasks)
    BY DEF pendingTasksOf, pendingTasks, TasksOf
  <2>3. \A t \in pendingTasksOf(scheduler, task.source) :
           <<t.id, task.id>> \notin olderIn(scheduler.tasks)
    BY <2>1, <2>2, TasksAreTasks, OldestHasNoOlder DEF firstPending
  <2> QED BY <1>2, <2>3 DEF Waiting, idsOf, pendingTasksOf
<1>10. Cardinality(Running[task.source]) < SlotsPerSource
  <2> DEFINE mine == runningTasksOf(scheduler, task.source)
  <2>1. Running[task.source] = {t.id : t \in mine}
    BY <1>2 DEF Running, idsOf, runningTasksOf
  <2>2. mine \in SUBSET scheduler.started
    BY DEF runningTasksOf
  <2>3. IsFiniteSet(mine)
    BY <2>2, <1>0, FS_Subset
  <2>4. Cardinality(mine) < SlotsPerSource
    BY <1>0
  <2> HIDE DEF mine
  <2>5. Cardinality(mine) \in Nat
    BY <2>3, FS_CardinalityType
  <2>6. /\ Cardinality({t.id : t \in mine}) <= Cardinality(mine)
        /\ Cardinality({t.id : t \in mine}) \in Nat
    BY <2>3, IdsCount
  <2> QED BY <2>1, <2>4, <2>5, <2>6
<1>11. Cardinality(UNION {Running[s] : s \in Sources}) < Slots
  <2> DEFINE all == UNION {Running[s] : s \in Sources}
             ids == {t.id : t \in scheduler.started}
  <2>1. all = UNION {idsOf(scheduler.started, s) : s \in Sources}
    BY DEF Running
  <2>2. all = ids
    BY <2>1, TasksAreTasks, IdsOfAllSources
  <2>3. /\ Cardinality(ids) <= Cardinality(scheduler.started)
        /\ Cardinality(ids) \in Nat
        /\ Cardinality(scheduler.started) \in Nat
    BY <1>0, IdsCount, FS_CardinalityType
  <2>4. Cardinality(scheduler.started) < Slots
    BY <1>0, <2>3 DEF remainingSlotCount, SlotLimit
  <2>5. Cardinality(ids) < Slots
    <3> HIDE DEF ids
    <3> QED BY <2>3, <2>4
  <2> HIDE DEF all, ids
  <2> QED BY <2>2, <2>5 DEF all
<1>12. \A S : Promise!Cardinality(S) = Cardinality(S)
  BY DEF Promise!Cardinality, Cardinality
<1> QED BY <1>5, <1>6, <1>7, <1>8, <1>9, <1>10, <1>11, <1>12 DEF Promise!Start

\* A task that is completed or given up leaves.
LEMMA CompleteLeaves ==
  ASSUME IInv, NEW task \in TasksOf(scheduler), NEW duration \in Durations,
               CompleteTask(task, duration)
  PROVE  Promise!Leave(task.source, task.id)
<1>1. PICK k \in DOMAIN scheduler.tasks : task = scheduler.tasks[k]
  BY DEF TasksOf, Elements
<1>2. /\ scheduler'.tasks = without(scheduler.tasks, task.id)
      /\ scheduler'.started = scheduler.started \ {task}
  <2>1. (CHOOSE t \in TasksOf(scheduler) : t.id = task.id) = task
    BY TasksAreTasks
  <2> QED BY <2>1 DEF CompleteTask, completeTask, IInv, TypeOK
<1>3. /\ scheduler.tasks \in Seq(Tasks) /\ UniqueIdsIn(scheduler.tasks)
      /\ task.source \in Sources
  BY TasksAreTasks
<1>4. TasksOf(scheduler') = TasksOf(scheduler) \ {task}
  BY <1>1, <1>2, <1>3, WithoutOne DEF TasksOf
<1>5. pendingTasks(scheduler') = pendingTasks(scheduler) \ {task}
  BY <1>2, <1>4 DEF pendingTasks
<1>6. /\ \A u \in pendingTasks(scheduler) : u.id = task.id => u = task
      /\ \A u \in scheduler.started : u.id = task.id => u = task
  BY TasksAreTasks DEF pendingTasks
<1>7. Waiting' = [Waiting EXCEPT ![task.source] = @ \ {task.id}]
  <2>1. ASSUME NEW s \in Sources
        PROVE  idsOf(pendingTasks(scheduler) \ {task}, s) =
                 IF s = task.source THEN idsOf(pendingTasks(scheduler), s) \ {task.id}
                                    ELSE idsOf(pendingTasks(scheduler), s)
    BY <1>6, IdsAfterRemoving
  <2> QED BY <1>5, <2>1 DEF Waiting
<1>8. Running' = [Running EXCEPT ![task.source] = @ \ {task.id}]
  <2>1. ASSUME NEW s \in Sources
        PROVE  idsOf(scheduler.started \ {task}, s) =
                 IF s = task.source THEN idsOf(scheduler.started, s) \ {task.id}
                                    ELSE idsOf(scheduler.started, s)
    BY <1>6, IdsAfterRemoving
  <2> QED BY <1>2, <2>1 DEF Running
<1>9. olderIn(scheduler'.tasks)
        = {pair \in olderIn(scheduler.tasks) : task.id \notin {pair[1], pair[2]}}
  BY <1>1, <1>2, <1>3, OlderAfterFilter
<1>10. task.id \in Waiting[task.source] \cup Running[task.source]
  <2>1. task \in pendingTasks(scheduler) \/ task \in scheduler.started
    BY DEF pendingTasks
  <2> QED BY <1>3, <2>1 DEF Waiting, Running, idsOf
<1> QED BY <1>7, <1>8, <1>9, <1>10 DEF Promise!Leave

-----------------------------------------------------------------------------
\* Theorems

\* The inductive invariant holds in every reachable state.
THEOREM InvHolds == Spec => []IInv
<1>1. Init => IInv
  BY InitInv
<1>2. IInv /\ [Next]_vars => IInv'
  <2> SUFFICES ASSUME IInv, [Next]_vars PROVE IInv'
    OBVIOUS
  <2>1. ASSUME NEW source \in Sources, NEW id \in TaskIds, ScheduleTask(source, id)
        PROVE  IInv'
    BY <2>1, ScheduleInv
  <2>2. ASSUME NEW task \in TasksOf(scheduler), RunTask(task)
        PROVE  IInv'
    BY <2>2, RunInv
  <2>3. ASSUME NEW task \in TasksOf(scheduler), NEW duration \in Durations,
               CompleteTask(task, duration)
        PROVE  IInv'
    BY <2>3, CompleteInv
  <2>4. ASSUME UNCHANGED vars
        PROVE  IInv'
    BY <2>4
    DEF vars, IInv, TypeOK, UniqueIds, UniqueIdsIn, IdsDrawn, SourcesOfTasksKnown, FiniteStarted,
        SlotLimit, SourceLimit, ReservedSlots, CreditBounded, TasksOf, Elements, runningTasksOf
  <2> QED BY <2>1, <2>2, <2>3, <2>4 DEF Next, Idle
<1> QED BY <1>1, <1>2, PTL DEF Spec

\* Type correctness.
THEOREM TypeCorrect == Spec => []TypeOK
<1>1. IInv => TypeOK
  BY DEF IInv
<1> QED BY <1>1, InvHolds, PTL

\* The scheduler never runs more than its slots, nor more of one source than
\* its share, and clients without credit never hold the reserved slots.
THEOREM LimitsHold == Spec => [](SlotLimit /\ SourceLimit /\ ReservedSlots)
<1>1. IInv => SlotLimit /\ SourceLimit /\ ReservedSlots
  BY DEF IInv
<1> QED BY <1>1, InvHolds, PTL

\* The clean-up of idle sources never loses the priority of a source with a
\* task: every lookup the class makes finds its entry.
THEOREM SourcesKnown == Spec => []SourcesOfTasksKnown
<1>1. IInv => SourcesOfTasksKnown
  BY DEF IInv
<1> QED BY <1>1, InvHolds, PTL

\* No source is ever more than the initial offset ahead of the threshold.
THEOREM CreditIsBounded == Spec => []CreditBounded
<1>1. IInv => CreditBounded
  BY DEF IInv
<1> QED BY <1>1, InvHolds, PTL

\* Types, entries and credit together, as the run checks them.
THEOREM PrioritiesStaySound == Spec => []PrioritiesAreSound
<1>1. IInv => PrioritiesAreSound
  BY DEF IInv, PrioritiesAreSound
<1> QED BY <1>1, InvHolds, PTL

\* With fewer priority slots than slots, queued tasks only ever wait for
\* running ones: a scheduler that runs nothing can start something.
THEOREM NeverStalls == Spec => []NoStall
<1>1. IInv => NoStall
  <2> SUFFICES ASSUME IInv, PrioritySlots < Slots, pendingTasks(scheduler) # {},
                      scheduler.started = {}
               PROVE  canRunTask(scheduler)
    BY DEF NoStall
  <2> USE QueryOptionsAssumption
  <2>1. PICK t \in pendingTasks(scheduler) : TRUE
    OBVIOUS
  <2>2. Cardinality({}) = 0
    BY FS_EmptySet
  <2>3. remainingSlotCount(scheduler) = Slots
    BY <2>2 DEF remainingSlotCount
  <2>4. nonPriorityAllowed(scheduler)
    BY <2>3 DEF nonPriorityAllowed
  <2>5. Cardinality(runningTasksOf(scheduler, t.source)) = 0
    <3>1. runningTasksOf(scheduler, t.source) = {}
      BY DEF runningTasksOf
    <3> QED BY <2>2, <3>1
  <2>6. t.source \in DOMAIN scheduler.priorities /\ t \in pendingTasksOf(scheduler, t.source)
    BY <2>1 DEF IInv, SourcesOfTasksKnown, pendingTasks, pendingTasksOf
  <2>7. t.source \in eligibleSources(scheduler)
    BY <2>4, <2>5, <2>6 DEF eligibleSources, belowSourceLimit
  <2> QED BY <2>3, <2>7 DEF canRunTask
<1> QED BY <1>1, InvHolds, PTL

\* The class keeps the promise of TaskScheduler: tasks of one source start in
\* the order they came and within both limits, for any options and calls.
THEOREM Implements == Spec => KeepsPromise
<1>1. Init => Promise!Init
  <2> SUFFICES ASSUME Init PROVE Promise!Init
    OBVIOUS
  <2>1. scheduler.tasks = <<>> /\ scheduler.started = {}
    BY DEF Init, NewScheduler
  <2>2. pendingTasks(scheduler) = {} /\ olderIn(scheduler.tasks) = {}
    BY <2>1 DEF pendingTasks, TasksOf, Elements, olderIn
  <2>3. \A s \in Sources : idsOf({}, s) = {}
    BY DEF idsOf
  <2> QED BY <2>1, <2>2, <2>3 DEF Promise!Init, Waiting, Running
<1>2. IInv /\ [Next]_vars => [Promise!Next]_(Promise!vars)
  <2> SUFFICES ASSUME IInv, [Next]_vars PROVE [Promise!Next]_(Promise!vars)
    OBVIOUS
  <2>1. ASSUME NEW source \in Sources, NEW id \in TaskIds, ScheduleTask(source, id)
        PROVE  Promise!Next
    BY <2>1, ScheduleSubmits DEF Promise!Next
  <2>3. ASSUME NEW task \in TasksOf(scheduler), RunTask(task)
        PROVE  Promise!Next
    BY <2>3, RunStarts, TasksAreTasks DEF Promise!Next
  <2>4. ASSUME NEW task \in TasksOf(scheduler), NEW duration \in Durations,
               CompleteTask(task, duration)
        PROVE  Promise!Next
    BY <2>4, CompleteLeaves, TasksAreTasks DEF Promise!Next
  <2>5. ASSUME UNCHANGED scheduler
        PROVE  UNCHANGED Promise!vars
    BY <2>5 DEF Promise!vars, Waiting, Running, pendingTasks, TasksOf
  <2> QED BY <2>1, <2>3, <2>4, <2>5 DEF Next, Idle, vars
<1> QED BY <1>1, <1>2, InvHolds, PTL DEF Spec, KeepsPromise, Promise!Spec

\* The threshold never moves back, and no source with a task loses query time
\* it has been charged, for any options and calls.
THEOREM ChargesAreKept == Spec => ChargesKept
<1>1. IInv /\ [Next]_vars => [ChargesGrow]_vars
  <2> SUFFICES ASSUME IInv, Next PROVE ChargesGrow \/ UNCHANGED vars
    OBVIOUS
  <2> USE QueryOptionsAssumption
  <2> DEFINE old == scheduler.priorities
  <2>1. TypeOK /\ SourcesOfTasksKnown
    BY DEF IInv
  <2>2. /\ DOMAIN old \subseteq Sources /\ \A s \in DOMAIN old : old[s] \in Int
        /\ scheduler.threshold \in Nat
    BY <2>1 DEF TypeOK, IsPriorities
  <2>3. ASSUME NEW source \in Sources, NEW id \in TaskIds, ScheduleTask(source, id)
        PROVE  ChargesGrow
    <3>1. /\ scheduler'.threshold = scheduler.threshold
          /\ scheduler'.priorities =
               [s \in DOMAIN old \cup {source} |->
                  IF s \in DOMAIN old THEN old[s]
                  ELSE scheduler.threshold - InitialPriorityOffset]
      BY <2>1, <2>3 DEF ScheduleTask, scheduleTask, TypeOK
    <3> QED BY <2>2, <3>1 DEF ChargesGrow, Charged
  <2>4. ASSUME NEW task \in TasksOf(scheduler), RunTask(task)
        PROVE  ChargesGrow
    <3> DEFINE threshold == Larger(scheduler.threshold, old[task.source])
               floor     == threshold - InitialPriorityOffset
               idle      == idleSources(scheduler, floor)
    <3>1. /\ scheduler'.threshold = threshold
          /\ scheduler'.priorities =
               [s \in DOMAIN old \ idle |-> Larger(old[s], floor)]
      BY <2>1, <2>4 DEF RunTask, runTask, raisedPriority, TypeOK
    <3>2. task.source \in DOMAIN old
      BY <2>1 DEF SourcesOfTasksKnown
    <3>3. threshold \in Int /\ threshold >= scheduler.threshold /\ floor \in Int
      BY <2>2, <3>2 DEF Larger
    <3>4. \A s \in Charged(scheduler) : s \in DOMAIN old \ idle
      <4> SUFFICES ASSUME NEW t \in TasksOf(scheduler), t.source \in idle PROVE FALSE
        BY DEF Charged
      <4>1. runningTasksOf(scheduler, t.source) = {} /\ pendingTasksOf(scheduler, t.source) = {}
        BY DEF idleSources
      <4> QED BY <4>1 DEF runningTasksOf, pendingTasksOf, pendingTasks
    <3> HIDE DEF idle, floor, threshold
    <3> QED BY <2>2, <3>1, <3>3, <3>4 DEF ChargesGrow, Charged, Larger
  <2>5. ASSUME NEW task \in TasksOf(scheduler), NEW duration \in Durations,
               CompleteTask(task, duration)
        PROVE  ChargesGrow
    <3>1. duration \in Nat
      BY EnvironmentAssumption
    <3>2. (CHOOSE t \in TasksOf(scheduler) : t.id = task.id) = task
      BY TasksAreTasks
    <3>3. /\ scheduler'.threshold = scheduler.threshold
          /\ scheduler'.priorities =
               IF task \in scheduler.started
               THEN [old EXCEPT ![task.source] = old[task.source] + duration] ELSE old
      BY <2>1, <2>5, <3>2 DEF CompleteTask, completeTask, TypeOK
    <3>4. \A s \in DOMAIN old : /\ s \in DOMAIN scheduler'.priorities
                                /\ scheduler'.priorities[s] >= old[s]
      BY <2>2, <3>1, <3>3
    <3> QED BY <2>2, <3>3, <3>4 DEF ChargesGrow, Charged
  <2> QED BY <2>3, <2>4, <2>5 DEF Next, Idle
<1> QED BY <1>1, InvHolds, PTL DEF Spec, ChargesKept
==============================================================================
