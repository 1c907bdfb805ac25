--------------------- MODULE ConnectionScheduler_proofs ----------------------
(***************************************************************************)
(* Proofs about ConnectionScheduler, for any options, sources and tasks.   *)
(***************************************************************************)
EXTENDS ConnectionScheduler, SharedLemmas

\* The limits only make sense with these.
FiniteTasks == IsFiniteSet(TasksOf(scheduler))

\* An id is not drawn again while its task is there.
IdsDrawn == \A t \in TasksOf(scheduler) : t.id \in drawn

\* The inductive invariant.
IInv ==
  /\ TypeOK
  /\ UniqueIds
  /\ IdsDrawn
  /\ FiniteTasks
  /\ SlotLimit
  /\ QueueLimit

-----------------------------------------------------------------------------
\* The places a source holds, running and queued.
Places(c, s) == {t \in TasksOf(c) : t.source = s}

\* A queued task can always be served next to the running tasks of its
\* source: it holds one of the places itself.
LEMMA QueuedIsEligible ==
  ASSUME TypeOK, FiniteTasks, QueueLimit
  PROVE  eligibleTasks(scheduler) = pendingTasks(scheduler)
<1> USE ConnectionOptionsAssumption
<1> SUFFICES ASSUME NEW t \in pendingTasks(scheduler)
             PROVE  runningCount(scheduler, t.source) < SlotsPerSource
  BY DEF eligibleTasks
<1> DEFINE places  == Places(scheduler, t.source)
           running == runningTasksOf(scheduler, t.source)
<1>1. t \in Tasks /\ t \in places /\ t \notin running
  BY DEF pendingTasks, TasksOf, Elements, TypeOK, Places, runningTasksOf
<1>2. running \in SUBSET places
  BY DEF runningTasksOf, TypeOK, Places
<1>3. places \in SUBSET TasksOf(scheduler)
  BY DEF Places
<1>4. IsFiniteSet(places) /\ Cardinality(places) \in Nat
  BY <1>3, FS_Subset, FS_CardinalityType DEF FiniteTasks
<1>5. /\ IsFiniteSet(running) /\ Cardinality(running) \in Nat
      /\ Cardinality(running) <= Cardinality(places)
      /\ Cardinality(places) = Cardinality(running) => places = running
  BY <1>2, <1>4, FS_Subset, FS_CardinalityType
<1>6. Cardinality(places) <= SlotsPerSource
  BY <1>1 DEF QueueLimit, Places, Tasks
<1> HIDE DEF places, running
<1>7. Cardinality(running) < SlotsPerSource
  BY <1>1, <1>4, <1>5, <1>6
<1> QED BY <1>7 DEF runningCount, running

\* What runTask picks is a queued task, the oldest of the sources with the
\* fewest running ones, and the scheduler has a slot.
LEMMA RunnableTask ==
  ASSUME NEW c, c.tasks \in Seq(Tasks), NEW task \in runnableTasks(c),
         IsFiniteSet(c.started)
  PROVE  /\ task \in pendingTasks(c)
         /\ task \in fewestRunning(c)
         /\ task = oldest(c.tasks, fewestRunning(c))
         /\ Cardinality(c.started) < Slots
<1> USE ConnectionOptionsAssumption
<1> DEFINE eligible == eligibleTasks(c)
           fewest   == {t \in eligible :
                          \A u \in eligible :
                             runningCount(c, t.source) <= runningCount(c, u.source)}
<1>1. /\ ~(Cardinality(c.started) >= Slots)
      /\ eligible # {}
      /\ task = oldest(c.tasks, fewest)
  BY DEF runnableTasks, slotsTaken, fewestRunning
<1>2. Cardinality(c.started) < Slots
  BY <1>1, FS_CardinalityType
<1>3. eligible \subseteq pendingTasks(c)
  BY DEF eligibleTasks
<1>4. eligible \subseteq Elements(c.tasks)
  BY <1>3 DEF pendingTasks, TasksOf
<1>5. fewest # {}
  <2> DEFINE counts == {runningCount(c, t.source) : t \in eligible}
  <2>1. \A t \in eligible : runningCount(c, t.source) \in Nat
    <3> SUFFICES ASSUME NEW t \in eligible PROVE runningCount(c, t.source) \in Nat
      OBVIOUS
    <3>1. runningTasksOf(c, t.source) \in SUBSET c.started
      BY DEF runningTasksOf
    <3> QED BY <3>1, FS_Subset, FS_CardinalityType DEF runningCount
  <2>2. counts \subseteq Nat /\ counts # {}
    BY <1>1, <2>1
  <2>3. \E n \in counts : \A m \in counts : n <= m
    BY <2>2, LeastElement
  <2> QED BY <2>3
<1>6. oldest(c.tasks, fewest) \in fewest
  <2>1. fewest \subseteq Elements(c.tasks)
    BY <1>4
  <2> HIDE DEF fewest
  <2> QED BY <1>5, <2>1, OldestIn
<1> QED BY <1>1, <1>2, <1>3, <1>6 DEF fewestRunning

-----------------------------------------------------------------------------
\* The invariant holds initially and every step keeps it

LEMMA InitInv == Init => IInv
<1> SUFFICES ASSUME Init PROVE IInv
  OBVIOUS
<1> USE ConnectionOptionsAssumption
<1>1. scheduler = [tasks |-> <<>>, started |-> {}] /\ drawn = {}
  BY DEF Init, NewScheduler
<1>2. TasksOf(scheduler) = {} /\ scheduler.started = {}
  BY <1>1 DEF TasksOf, Elements
<1>3. TypeOK /\ UniqueIds /\ IdsDrawn
  BY <1>1, <1>2 DEF TypeOK, UniqueIds, UniqueIdsIn, IdsDrawn
<1>4. IsFiniteSet({}) /\ Cardinality({}) = 0
  BY FS_EmptySet
<1>5. FiniteTasks /\ SlotLimit
  BY <1>2, <1>4 DEF FiniteTasks, SlotLimit
<1>6. \A s : {t \in TasksOf(scheduler) : t.source = s} = {}
  BY <1>2
<1>7. QueueLimit
  BY <1>4, <1>6 DEF QueueLimit
<1> QED BY <1>3, <1>5, <1>7 DEF IInv

LEMMA ScheduleInv ==
  ASSUME IInv, NEW source \in Sources, NEW id \in TaskIds, ScheduleTask(source, id)
  PROVE  IInv'
<1> USE ConnectionOptionsAssumption
<1> DEFINE new == [id |-> id, source |-> source]
           n   == Len(scheduler.tasks)
<1>0. TypeOK /\ UniqueIds /\ IdsDrawn /\ FiniteTasks /\ SlotLimit /\ QueueLimit
  BY DEF IInv
<1>1. /\ scheduler'.tasks = Append(scheduler.tasks, new)
      /\ scheduler'.started = scheduler.started
      /\ scheduler' = [tasks |-> scheduler'.tasks, started |-> scheduler'.started]
  BY <1>0 DEF ScheduleTask, scheduleTask, TypeOK
<1>2. id \notin drawn /\ drawn' = drawn \cup {id} /\ ~exceedsQueueLimit(scheduler, source)
  BY DEF ScheduleTask
<1>3. scheduler.tasks \in Seq(Tasks) /\ new \in Tasks
  BY <1>0 DEF TypeOK, Tasks
<1>4. TasksOf(scheduler)' = TasksOf(scheduler) \cup {new}
  <2>1. /\ DOMAIN scheduler'.tasks = 1..(n + 1)
        /\ \A i \in 1..n : scheduler'.tasks[i] = scheduler.tasks[i]
        /\ scheduler'.tasks[n + 1] = new
        /\ DOMAIN scheduler.tasks = 1..n /\ n \in Nat
    BY <1>1, <1>3
  <2> QED BY <2>1 DEF TasksOf, Elements
<1>5. TypeOK'
  <2>1. scheduler'.tasks \in Seq(Tasks)
    BY <1>1, <1>3
  <2> QED BY <1>0, <1>1, <1>2, <1>4, <2>1 DEF TypeOK
<1>6. UniqueIds'
  <2>1. \A i \in DOMAIN scheduler.tasks : scheduler.tasks[i].id # id
    BY <1>0, <1>2 DEF IdsDrawn, TasksOf, Elements
  <2> QED BY <1>0, <1>1, <1>3, <2>1 DEF UniqueIds, UniqueIdsIn
<1>7. IdsDrawn'
  BY <1>0, <1>2, <1>4 DEF IdsDrawn
<1>8. FiniteTasks' /\ SlotLimit'
  <2>1. IsFiniteSet(TasksOf(scheduler) \cup {new})
    BY <1>0, FS_AddElement DEF FiniteTasks
  <2> QED BY <1>0, <1>1, <1>4, <2>1 DEF FiniteTasks, SlotLimit
<1>9. QueueLimit'
  <2> SUFFICES ASSUME NEW s \in Sources
               PROVE  Cardinality(Places(scheduler', s)) <= SlotsPerSource
    BY DEF QueueLimit, Places
  <2>1. CASE s # source
    <3>1. Places(scheduler', s) = Places(scheduler, s)
      BY <1>4, <2>1 DEF Places
    <3> QED BY <1>0, <3>1 DEF QueueLimit, Places
  <2>2. CASE s = source
    <3>1. Places(scheduler', s) = Places(scheduler, s) \cup {new}
      BY <1>4, <2>2 DEF Places
    <3>2. Places(scheduler, s) \in SUBSET TasksOf(scheduler)
      BY DEF Places
    <3>3. IsFiniteSet(Places(scheduler, s)) /\ Cardinality(Places(scheduler, s)) \in Nat
      BY <1>0, <3>2, FS_Subset, FS_CardinalityType DEF FiniteTasks
    <3>4. Cardinality(Places(scheduler, s)) < SlotsPerSource
      BY <1>2, <2>2, <3>3 DEF exceedsQueueLimit, Places
    <3>5. new \notin Places(scheduler, s)
      BY <1>0, <1>2 DEF IdsDrawn, Places
    <3>6. Cardinality(Places(scheduler, s) \cup {new}) = Cardinality(Places(scheduler, s)) + 1
      BY <3>3, <3>5, FS_AddElement
    <3>7. Cardinality(Places(scheduler', s)) = Cardinality(Places(scheduler, s)) + 1
      BY <3>1, <3>6
    <3> QED BY <3>3, <3>4, <3>7
  <2> QED BY <2>1, <2>2
<1> QED BY <1>5, <1>6, <1>7, <1>8, <1>9 DEF IInv

LEMMA RejectInv ==
  ASSUME IInv, NEW source \in Sources, NEW id \in TaskIds, RejectTask(source, id)
  PROVE  IInv'
BY DEF RejectTask, IInv, TypeOK, UniqueIds, IdsDrawn, FiniteTasks, SlotLimit, QueueLimit,
       TasksOf

LEMMA RunInv ==
  ASSUME IInv, NEW task \in TasksOf(scheduler), RunTask(task)
  PROVE  IInv'
<1> USE ConnectionOptionsAssumption
<1>0. TypeOK /\ UniqueIds /\ IdsDrawn /\ FiniteTasks /\ SlotLimit /\ QueueLimit
  BY DEF IInv
<1>1. /\ scheduler'.tasks = scheduler.tasks
      /\ scheduler'.started = scheduler.started \cup {task}
      /\ scheduler' = [tasks |-> scheduler'.tasks, started |-> scheduler'.started]
      /\ drawn' = drawn
  BY <1>0 DEF RunTask, runTask, TypeOK
<1>2. IsFiniteSet(scheduler.started) /\ Cardinality(scheduler.started) \in Nat
  BY <1>0, FS_Subset, FS_CardinalityType DEF FiniteTasks, TypeOK
<1>3. task \in pendingTasks(scheduler) /\ Cardinality(scheduler.started) < Slots
  BY <1>0, <1>2, RunnableTask DEF RunTask, TypeOK
<1>4. TasksOf(scheduler)' = TasksOf(scheduler)
  BY <1>1 DEF TasksOf
<1>5. task \in Tasks /\ task \notin scheduler.started
  BY <1>0, <1>3 DEF pendingTasks, TasksOf, Elements, TypeOK
<1>6. TypeOK'
  BY <1>0, <1>1, <1>4, <1>5 DEF TypeOK
<1>7. Cardinality(scheduler.started \cup {task}) = Cardinality(scheduler.started) + 1
  BY <1>2, <1>5, FS_AddElement
<1>8. SlotLimit'
  BY <1>1, <1>2, <1>3, <1>7 DEF SlotLimit
<1>9. UniqueIds' /\ IdsDrawn' /\ FiniteTasks' /\ QueueLimit'
  BY <1>0, <1>1, <1>4 DEF UniqueIds, IdsDrawn, FiniteTasks, QueueLimit
<1> QED BY <1>6, <1>8, <1>9 DEF IInv

LEMMA CompleteInv ==
  ASSUME IInv, NEW task \in TasksOf(scheduler), CompleteTask(task)
  PROVE  IInv'
<1> USE ConnectionOptionsAssumption
<1>0. TypeOK /\ UniqueIds /\ IdsDrawn /\ FiniteTasks /\ SlotLimit /\ QueueLimit
  BY DEF IInv
<1>1. PICK k \in DOMAIN scheduler.tasks : task = scheduler.tasks[k]
  BY DEF TasksOf, Elements
<1>2. containsTask(scheduler, task.id)
  BY DEF containsTask
<1>3. /\ scheduler'.tasks = without(scheduler.tasks, task.id)
      /\ scheduler'.started = {t \in scheduler.started : t.id # task.id}
      /\ scheduler' = [tasks |-> scheduler'.tasks, started |-> scheduler'.started]
      /\ drawn' = drawn
  BY <1>0, <1>2 DEF CompleteTask, completeTask, TypeOK
<1>4. scheduler'.tasks \in Seq(Tasks) /\ UniqueIds'
      /\ TasksOf(scheduler)' = TasksOf(scheduler) \ {task}
  <2>1. scheduler.tasks \in Seq(Tasks)
    BY <1>0 DEF TypeOK
  <2>2. UniqueIdsIn(scheduler.tasks)
    BY <1>0 DEF UniqueIds
  <2> DEFINE rest == without(scheduler.tasks, scheduler.tasks[k].id)
  <2>3. /\ rest \in Seq(Tasks)
        /\ Elements(rest) = Elements(scheduler.tasks) \ {scheduler.tasks[k]}
        /\ UniqueIdsIn(rest)
    BY <2>1, <2>2, WithoutOne
  <2>4. scheduler'.tasks = rest
    BY <1>1, <1>3
  <2> HIDE DEF rest
  <2> QED BY <1>1, <2>3, <2>4 DEF UniqueIds, TasksOf
<1>5. TypeOK'
  <2>1. \A t \in scheduler'.started : t \in TasksOf(scheduler) /\ t # task
    BY <1>0, <1>3 DEF TypeOK
  <2>2. scheduler'.started \subseteq TasksOf(scheduler)'
    BY <1>4, <2>1
  <2>3. scheduler'.started \in SUBSET Tasks
    BY <1>0, <1>3 DEF TypeOK
  <2> QED BY <1>0, <1>3, <1>4, <2>2, <2>3 DEF TypeOK
<1>6. IdsDrawn'
  BY <1>0, <1>3, <1>4 DEF IdsDrawn
<1>7. FiniteTasks'
  <2>1. TasksOf(scheduler') \in SUBSET TasksOf(scheduler)
    BY <1>4
  <2> QED BY <1>0, <2>1, FS_Subset DEF FiniteTasks
<1>8. SlotLimit'
  <2>1. scheduler.started \in SUBSET TasksOf(scheduler)
    BY <1>0 DEF TypeOK
  <2>2. IsFiniteSet(scheduler.started)
    BY <1>0, <2>1, FS_Subset DEF FiniteTasks
  <2>3. scheduler'.started \in SUBSET scheduler.started
    BY <1>3
  <2>4. /\ Cardinality(scheduler'.started) <= Cardinality(scheduler.started)
        /\ Cardinality(scheduler'.started) \in Nat /\ Cardinality(scheduler.started) \in Nat
    BY <2>2, <2>3, FS_Subset, FS_CardinalityType
  <2> QED BY <1>0, <2>4 DEF SlotLimit
<1>9. QueueLimit'
  <2> SUFFICES ASSUME NEW s \in Sources
               PROVE  Cardinality(Places(scheduler', s)) <= SlotsPerSource
    BY DEF QueueLimit, Places
  <2>1. /\ Places(scheduler, s) \in SUBSET TasksOf(scheduler)
        /\ Places(scheduler', s) \in SUBSET Places(scheduler, s)
    BY <1>4 DEF Places
  <2>2. IsFiniteSet(Places(scheduler, s))
    BY <1>0, <2>1, FS_Subset DEF FiniteTasks
  <2>3. /\ Cardinality(Places(scheduler', s)) <= Cardinality(Places(scheduler, s))
        /\ Cardinality(Places(scheduler', s)) \in Nat
        /\ Cardinality(Places(scheduler, s)) \in Nat
    BY <2>1, <2>2, FS_Subset, FS_CardinalityType
  <2>4. Cardinality(Places(scheduler, s)) <= SlotsPerSource
    BY <1>0 DEF QueueLimit, Places
  <2> QED BY <2>3, <2>4
<1> QED BY <1>4, <1>5, <1>6, <1>7, <1>8, <1>9 DEF IInv

-----------------------------------------------------------------------------
\* The object keeps the promise of TaskScheduler

\* What both sides call a task: its source is known, its id is its own.
LEMMA TasksAreTasks ==
  ASSUME IInv
  PROVE  /\ scheduler.tasks \in Seq(Tasks)
         /\ TasksOf(scheduler) = Elements(scheduler.tasks)
         /\ \A t \in TasksOf(scheduler) : t.source \in Sources /\ t.id \in TaskIds
         /\ \A t, u \in TasksOf(scheduler) : t.id = u.id => t = u
         /\ scheduler.started \subseteq TasksOf(scheduler)
         /\ UniqueIdsIn(scheduler.tasks)
<1>1. scheduler.tasks \in Seq(Tasks) /\ scheduler.started \subseteq TasksOf(scheduler)
  BY DEF IInv, TypeOK
<1>2. \A t \in TasksOf(scheduler) : t \in Tasks
  BY <1>1 DEF TasksOf, Elements
<1>3. UniqueIdsIn(scheduler.tasks)
  BY DEF IInv, UniqueIds
<1>4. \A t, u \in TasksOf(scheduler) : t.id = u.id => t = u
  BY <1>3 DEF TasksOf, Elements, UniqueIdsIn
<1> QED BY <1>1, <1>2, <1>3, <1>4 DEF Tasks, TasksOf

\* The tasks held are those of the array.
LEMMA HeldIds ==
  ASSUME IInv
  PROVE  Promise!Held = {t.id : t \in TasksOf(scheduler)}
<1>1. TasksOf(scheduler) = pendingTasks(scheduler) \cup scheduler.started
  BY TasksAreTasks DEF pendingTasks
<1>2. \A s \in Sources : Waiting[s] \cup Running[s] = idsOf(TasksOf(scheduler), s)
  <2> SUFFICES ASSUME NEW s \in Sources
               PROVE  Waiting[s] \cup Running[s] = idsOf(TasksOf(scheduler), s)
    OBVIOUS
  <2>1. Waiting[s] = idsOf(pendingTasks(scheduler), s) /\ Running[s] = idsOf(scheduler.started, s)
    BY DEF Waiting, Running
  <2> QED BY <1>1, <2>1 DEF idsOf
<1>3. Promise!Held = UNION {idsOf(TasksOf(scheduler), s) : s \in Sources}
  BY <1>2 DEF Promise!Held
<1> QED BY <1>3, TasksAreTasks, IdsOfAllSources

\* Scheduling a task submits it.
LEMMA ScheduleSubmits ==
  ASSUME IInv, NEW source \in Sources, NEW id \in TaskIds, ScheduleTask(source, id)
  PROVE  Promise!Submit(source, id)
<1> DEFINE new == [id |-> id, source |-> source]
           n   == Len(scheduler.tasks)
<1>1. /\ scheduler'.tasks = Append(scheduler.tasks, new)
      /\ scheduler'.started = scheduler.started
  BY DEF ScheduleTask, scheduleTask, IInv, TypeOK
<1>2. scheduler.tasks \in Seq(Tasks)
  BY TasksAreTasks
<1>3. TasksOf(scheduler') = TasksOf(scheduler) \cup {new}
  <2>1. /\ DOMAIN scheduler'.tasks = 1..(n + 1)
        /\ \A i \in 1..n : scheduler'.tasks[i] = scheduler.tasks[i]
        /\ scheduler'.tasks[n + 1] = new
        /\ DOMAIN scheduler.tasks = 1..n /\ n \in Nat
    BY <1>1, <1>2
  <2> QED BY <2>1 DEF TasksOf, Elements
<1>4. \A t \in TasksOf(scheduler) : t.id # id
  BY DEF IInv, IdsDrawn, ScheduleTask
<1>5. id \notin Promise!Held
  BY <1>4, HeldIds
<1>6. pendingTasks(scheduler') = pendingTasks(scheduler) \cup {new}
  <2>1. new \notin scheduler.started
    BY <1>4, TasksAreTasks
  <2> QED BY <1>1, <1>3, <2>1 DEF pendingTasks
<1>7. Waiting' = [Waiting EXCEPT ![source] = @ \cup {id}]
  <2>1. ASSUME NEW s \in Sources
        PROVE  idsOf(pendingTasks(scheduler) \cup {new}, s) =
                 IF s = source THEN idsOf(pendingTasks(scheduler), s) \cup {id}
                               ELSE idsOf(pendingTasks(scheduler), s)
    <3>1. new.source = source /\ new.id = id
      OBVIOUS
    <3> HIDE DEF new
    <3> QED BY <3>1, IdsAfterAdding
  <2> HIDE DEF new
  <2> QED BY <1>6, <2>1 DEF Waiting
<1>8. Running' = Running
  BY <1>1 DEF Running
<1>9. olderIn(scheduler'.tasks) = olderIn(scheduler.tasks) \cup (Promise!Held \X {id})
  BY <1>1, <1>2, HeldIds, TasksAreTasks, OlderAfterPush
<1> QED BY <1>5, <1>7, <1>8, <1>9 DEF Promise!Submit

\* A task that runs starts: it is the oldest of its source that waits, and
\* neither limit is reached.
LEMMA RunStarts ==
  ASSUME IInv, NEW task \in TasksOf(scheduler), RunTask(task)
  PROVE  Promise!Start(task.source, task.id)
<1> USE ConnectionOptionsAssumption
<1>0. /\ task \in pendingTasks(scheduler)
      /\ task = oldest(scheduler.tasks, fewestRunning(scheduler))
      /\ task \in fewestRunning(scheduler)
      /\ Cardinality(scheduler.started) < Slots
      /\ IsFiniteSet(scheduler.started)
  <2>1. IsFiniteSet(scheduler.started)
    BY TasksAreTasks, FS_Subset DEF IInv, FiniteTasks
  <2> QED BY <2>1, TasksAreTasks, RunnableTask DEF RunTask
<1>1. /\ scheduler'.tasks = scheduler.tasks
      /\ scheduler'.started = scheduler.started \cup {task}
  BY DEF RunTask, runTask, IInv, TypeOK
<1>2. /\ task \in pendingTasks(scheduler) /\ task \notin scheduler.started
      /\ task.source \in Sources
  BY <1>0, TasksAreTasks DEF pendingTasks
<1>3. pendingTasks(scheduler') = pendingTasks(scheduler) \ {task}
  BY <1>1 DEF pendingTasks, TasksOf
<1>4. \A u \in pendingTasks(scheduler) : u.id = task.id => u = task
  BY TasksAreTasks DEF pendingTasks
<1>5. Waiting' = [Waiting EXCEPT ![task.source] = @ \ {task.id}]
  <2>1. ASSUME NEW s \in Sources
        PROVE  idsOf(pendingTasks(scheduler) \ {task}, s) =
                 IF s = task.source THEN idsOf(pendingTasks(scheduler), s) \ {task.id}
                                    ELSE idsOf(pendingTasks(scheduler), s)
    BY <1>4, IdsAfterRemoving
  <2> QED BY <1>3, <2>1 DEF Waiting
<1>6. Running' = [Running EXCEPT ![task.source] = @ \cup {task.id}]
  <2>1. ASSUME NEW s \in Sources
        PROVE  idsOf(scheduler.started \cup {task}, s) =
                 IF s = task.source THEN idsOf(scheduler.started, s) \cup {task.id}
                                    ELSE idsOf(scheduler.started, s)
    BY IdsAfterAdding
  <2> QED BY <1>1, <2>1 DEF Running
<1>7. olderIn(scheduler'.tasks) = olderIn(scheduler.tasks)
  BY <1>1
<1>8. task.id \in Waiting[task.source]
  BY <1>2 DEF Waiting, idsOf
<1>9. \A x \in Waiting[task.source] : <<x, task.id>> \notin olderIn(scheduler.tasks)
  <2> DEFINE fewest == fewestRunning(scheduler)
  <2>1. task = oldest(scheduler.tasks, fewest) /\ task \in fewest
    BY <1>0
  <2>2. fewest \subseteq Elements(scheduler.tasks)
    BY DEF fewestRunning, eligibleTasks, pendingTasks, TasksOf
  <2>3. \A t \in pendingTasks(scheduler) : t.source = task.source => t \in fewest
    BY <2>1 DEF fewestRunning, eligibleTasks
  <2> HIDE DEF fewest
  <2>4. \A t \in fewest : <<t.id, task.id>> \notin olderIn(scheduler.tasks)
    BY <2>1, <2>2, TasksAreTasks, OldestHasNoOlder
  <2> QED BY <1>2, <2>3, <2>4 DEF Waiting, idsOf
<1>10. Cardinality(Running[task.source]) < SlotsPerSource
  <2> DEFINE mine == runningTasksOf(scheduler, task.source)
  <2>1. Running[task.source] = {t.id : t \in mine}
    BY <1>2 DEF Running, idsOf, runningTasksOf
  <2>2. mine \in SUBSET scheduler.started
    BY DEF runningTasksOf
  <2>3. IsFiniteSet(mine)
    BY <2>2, <1>0, FS_Subset
  <2>4. Cardinality(mine) < SlotsPerSource
    BY <1>0 DEF eligibleTasks, fewestRunning, runningCount
  <2> HIDE DEF mine
  <2>5. Cardinality(mine) \in Nat
    BY <2>3, FS_CardinalityType
  <2>6. /\ Cardinality({t.id : t \in mine}) <= Cardinality(mine)
        /\ Cardinality({t.id : t \in mine}) \in Nat
    BY <2>3, IdsCount
  <2> QED BY <2>1, <2>4, <2>5, <2>6
<1>11. Cardinality(UNION {Running[s] : s \in Sources}) < Slots
  <2> DEFINE all == UNION {Running[s] : s \in Sources}
             ids == {t.id : t \in scheduler.started}
  <2>1. all = UNION {idsOf(scheduler.started, s) : s \in Sources}
    BY DEF Running
  <2>2. all = ids
    BY <2>1, TasksAreTasks, IdsOfAllSources
  <2>3. /\ Cardinality(ids) <= Cardinality(scheduler.started)
        /\ Cardinality(ids) \in Nat
        /\ Cardinality(scheduler.started) \in Nat
    BY <1>0, IdsCount, FS_CardinalityType
  <2>4. Cardinality(scheduler.started) < Slots
    BY <1>0, <2>3
  <2>5. Cardinality(ids) < Slots
    <3> HIDE DEF ids
    <3> QED BY <2>3, <2>4
  <2> HIDE DEF all, ids
  <2> QED BY <2>2, <2>5 DEF all
<1>12. \A S : Promise!Cardinality(S) = Cardinality(S)
  BY DEF Promise!Cardinality, Cardinality
<1> QED BY <1>5, <1>6, <1>7, <1>8, <1>9, <1>10, <1>11, <1>12 DEF Promise!Start

\* A task that is completed or given up leaves.
LEMMA CompleteLeaves ==
  ASSUME IInv, NEW task \in TasksOf(scheduler), CompleteTask(task)
  PROVE  Promise!Leave(task.source, task.id)
<1>1. PICK k \in DOMAIN scheduler.tasks : task = scheduler.tasks[k]
  BY DEF TasksOf, Elements
<1>2. /\ scheduler'.tasks = without(scheduler.tasks, task.id)
      /\ scheduler'.started = scheduler.started \ {task}
  <2>1. containsTask(scheduler, task.id)
    BY DEF containsTask
  <2>2. {t \in scheduler.started : t.id # task.id} = scheduler.started \ {task}
    BY TasksAreTasks
  <2> QED BY <2>1, <2>2 DEF CompleteTask, completeTask, IInv, TypeOK
<1>3. /\ scheduler.tasks \in Seq(Tasks) /\ UniqueIdsIn(scheduler.tasks)
      /\ task.source \in Sources
  BY TasksAreTasks
<1>4. TasksOf(scheduler') = TasksOf(scheduler) \ {task}
  BY <1>1, <1>2, <1>3, WithoutOne DEF TasksOf
<1>5. pendingTasks(scheduler') = pendingTasks(scheduler) \ {task}
  BY <1>2, <1>4 DEF pendingTasks
<1>6. /\ \A u \in pendingTasks(scheduler) : u.id = task.id => u = task
      /\ \A u \in scheduler.started : u.id = task.id => u = task
  BY TasksAreTasks DEF pendingTasks
<1>7. Waiting' = [Waiting EXCEPT ![task.source] = @ \ {task.id}]
  <2>1. ASSUME NEW s \in Sources
        PROVE  idsOf(pendingTasks(scheduler) \ {task}, s) =
                 IF s = task.source THEN idsOf(pendingTasks(scheduler), s) \ {task.id}
                                    ELSE idsOf(pendingTasks(scheduler), s)
    BY <1>6, IdsAfterRemoving
  <2> QED BY <1>5, <2>1 DEF Waiting
<1>8. Running' = [Running EXCEPT ![task.source] = @ \ {task.id}]
  <2>1. ASSUME NEW s \in Sources
        PROVE  idsOf(scheduler.started \ {task}, s) =
                 IF s = task.source THEN idsOf(scheduler.started, s) \ {task.id}
                                    ELSE idsOf(scheduler.started, s)
    BY <1>6, IdsAfterRemoving
  <2> QED BY <1>2, <2>1 DEF Running
<1>9. olderIn(scheduler'.tasks)
        = {pair \in olderIn(scheduler.tasks) : task.id \notin {pair[1], pair[2]}}
  BY <1>1, <1>2, <1>3, OlderAfterFilter
<1>10. task.id \in Waiting[task.source] \cup Running[task.source]
  <2>1. task \in pendingTasks(scheduler) \/ task \in scheduler.started
    BY DEF pendingTasks
  <2> QED BY <1>3, <2>1 DEF Waiting, Running, idsOf
<1> QED BY <1>7, <1>8, <1>9, <1>10 DEF Promise!Leave

-----------------------------------------------------------------------------
\* Theorems

\* The inductive invariant holds in every reachable state.
THEOREM InvHolds == Spec => []IInv
<1>1. Init => IInv
  BY InitInv
<1>2. IInv /\ [Next]_vars => IInv'
  <2> SUFFICES ASSUME IInv, [Next]_vars PROVE IInv'
    OBVIOUS
  <2>1. ASSUME NEW source \in Sources, NEW id \in TaskIds, ScheduleTask(source, id)
        PROVE  IInv'
    BY <2>1, ScheduleInv
  <2>2. ASSUME NEW source \in Sources, NEW id \in TaskIds, RejectTask(source, id)
        PROVE  IInv'
    BY <2>2, RejectInv
  <2>3. ASSUME NEW task \in TasksOf(scheduler), RunTask(task)
        PROVE  IInv'
    BY <2>3, RunInv
  <2>4. ASSUME NEW task \in TasksOf(scheduler), CompleteTask(task)
        PROVE  IInv'
    BY <2>4, CompleteInv
  <2>5. ASSUME UNCHANGED vars
        PROVE  IInv'
    BY <2>5 DEF vars, IInv, TypeOK, UniqueIds, IdsDrawn, FiniteTasks, SlotLimit, QueueLimit
  <2> QED BY <2>1, <2>2, <2>3, <2>4, <2>5 DEF Next, Idle
<1> QED BY <1>1, <1>2, PTL DEF Spec

\* Type correctness.
THEOREM TypeCorrect == Spec => []TypeOK
<1>1. IInv => TypeOK
  BY DEF IInv
<1> QED BY <1>1, InvHolds, PTL

\* Never more connections than the slots, nor more places of one client than
\* its share.
THEOREM LimitsHold == Spec => [](SlotLimit /\ QueueLimit)
<1>1. IInv => SlotLimit /\ QueueLimit
  BY DEF IInv
<1> QED BY <1>1, InvHolds, PTL

\* A free slot and a queued task never coexist with canRunTask = false.
THEOREM AlwaysWorkConserving == Spec => []WorkConserving
<1>1. IInv => WorkConserving
  <2> SUFFICES ASSUME IInv, pendingTasks(scheduler) # {},
                      Cardinality(scheduler.started) < Slots
               PROVE  canRunTask(scheduler)
    BY DEF WorkConserving
  <2> USE ConnectionOptionsAssumption
  <2>1. eligibleTasks(scheduler) # {}
    BY QueuedIsEligible DEF IInv
  <2>2. IsFiniteSet(scheduler.started)
    BY FS_Subset DEF IInv, FiniteTasks, TypeOK
  <2>3. ~(Cardinality(scheduler.started) >= Slots)
    BY <2>2, FS_CardinalityType
  <2> QED BY <2>1, <2>3 DEF canRunTask, runnableTasks, slotsTaken
<1> QED BY <1>1, InvHolds, PTL

\* The class keeps the promise of TaskScheduler: tasks of one source start in
\* the order they came and within both limits, for any options and calls.
THEOREM Implements == Spec => KeepsPromise
<1>1. Init => Promise!Init
  <2> SUFFICES ASSUME Init PROVE Promise!Init
    OBVIOUS
  <2>1. scheduler.tasks = <<>> /\ scheduler.started = {}
    BY DEF Init, NewScheduler
  <2>2. pendingTasks(scheduler) = {} /\ olderIn(scheduler.tasks) = {}
    BY <2>1 DEF pendingTasks, TasksOf, Elements, olderIn
  <2>3. \A s \in Sources : idsOf({}, s) = {}
    BY DEF idsOf
  <2> QED BY <2>1, <2>2, <2>3 DEF Promise!Init, Waiting, Running
<1>2. IInv /\ [Next]_vars => [Promise!Next]_(Promise!vars)
  <2> SUFFICES ASSUME IInv, [Next]_vars PROVE [Promise!Next]_(Promise!vars)
    OBVIOUS
  <2>1. ASSUME NEW source \in Sources, NEW id \in TaskIds, ScheduleTask(source, id)
        PROVE  Promise!Next
    BY <2>1, ScheduleSubmits DEF Promise!Next
  <2>2. ASSUME NEW source \in Sources, NEW id \in TaskIds, RejectTask(source, id)
        PROVE  UNCHANGED scheduler
    BY <2>2 DEF RejectTask
  <2>3. ASSUME NEW task \in TasksOf(scheduler), RunTask(task)
        PROVE  Promise!Next
    BY <2>3, RunStarts, TasksAreTasks DEF Promise!Next
  <2>4. ASSUME NEW task \in TasksOf(scheduler), CompleteTask(task)
        PROVE  Promise!Next
    BY <2>4, CompleteLeaves, TasksAreTasks DEF Promise!Next
  <2>5. ASSUME UNCHANGED scheduler
        PROVE  UNCHANGED Promise!vars
    BY <2>5 DEF Promise!vars, Waiting, Running, pendingTasks, TasksOf
  <2> QED BY <2>1, <2>2, <2>3, <2>4, <2>5 DEF Next, Idle, vars
<1> QED BY <1>1, <1>2, InvHolds, PTL DEF Spec, KeepsPromise, Promise!Spec
==============================================================================
