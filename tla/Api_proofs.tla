------------------------------ MODULE Api_proofs ------------------------------
(***************************************************************************)
(* Proofs about the API: its distributed scheduler (DistScheduler) and its *)
(* requests (ResponseStream, DawaClient), for any constants that meet the  *)
(* assumptions of those modules.                                           *)
(*                                                                         *)
(* The scheduler: at any time a task is in at most one stage on its way    *)
(* through client, pipes, channels and scheduler; messages and ids are     *)
(* never doubled in what carries them; and the stage of a task says        *)
(* whether the master subscribes to its COMPLETE and whether the worker    *)
(* still has its descriptor.                                               *)
(*                                                                         *)
(* A request: its place says whether it has a connection and what it knows *)
(* of its session; and what has been sent, is in hand, in the buffer and   *)
(* pending are segments of the result that follow each other, as long as   *)
(* nothing has been dropped.                                               *)
(***************************************************************************)
EXTENDS DistScheduler, ResponseStream, SharedLemmas, SequenceTheorems

-----------------------------------------------------------------------------
\* The inductive invariant

Held(s) == {t.id : t \in SchedulerTasks(s)}
Started(s) == {t.id : t \in s.started}
StartedOf(s, source) == {t \in s.started : t.source = source}

\* A scheduler object of either class: a list of tasks with distinct ids, of
\* which some are started. Priorities are of no concern here.
SchedulerOK(s) ==
  /\ \/ s = [tasks |-> s.tasks, started |-> s.started]
     \/ s = [tasks |-> s.tasks, started |-> s.started,
             priorities |-> s.priorities, threshold |-> s.threshold]
  /\ s.tasks \in Seq([id : TaskIds, source : Sources])
  /\ UniqueIdsIn(s.tasks)
  /\ \A t \in Elements(s.tasks) : t.source = SourceOf[t.id]
  /\ s.started \subseteq Elements(s.tasks)

\* Both classes keep to the slots, and to the share of a client.
WithinLimits(s) ==
  /\ Cardinality(s.started) <= Slots
  /\ \A source \in Sources : Cardinality(StartedOf(s, source)) <= SlotsPerSource

\* A pipe of messages of these types: what it carries for a worker is about
\* tasks of that worker, and no message is there twice.
PipeOK(pipe, messages) ==
  /\ pipe \in [Workers -> Seq(messages)]
  /\ \A w \in Workers :
       /\ IsInjective(pipe[w])
       /\ \A m \in ToSet(pipe[w]) : WorkerOf[m.task] = w

ToMasterMessages == Message("ENQUEUE") \cup Message("COMPLETE")
ToWorkerMessages == Message("READY") \cup Message("REJECT")

PipesOK == PipeOK(toMaster, ToMasterMessages) /\ PipeOK(toWorker, ToWorkerMessages)

ChannelsOK ==
  /\ enqueueChannel \in Seq(TaskIds) /\ IsInjective(enqueueChannel)
  /\ completeChannel \in Seq(TaskIds)
  /\ timeoutChannel \in Seq(TaskIds)

\* The stages of a task.
Posted(pipe, type, t) == [type |-> type, task |-> t] \in ToSet(pipe[WorkerOf[t]])

New(t)      == client[t] = "new"
Asking(t)   == Posted(toMaster, "ENQUEUE", t)
Asked(t)    == t \in ToSet(enqueueChannel)
Queued(t)   == t \in Held(scheduler) \ Started(scheduler)
Answered(t) == Posted(toWorker, "READY", t)
Running(t)  == client[t] = "running"
Reported(t) == Posted(toMaster, "COMPLETE", t)
Refused(t)  == Posted(toWorker, "REJECT", t)

OneStage(t) ==
  /\ New(t) => ~ (Asking(t) \/ Asked(t) \/ Queued(t) \/ Answered(t) \/ Running(t)
                    \/ Reported(t) \/ Refused(t))
  /\ Asking(t) => ~ (Asked(t) \/ Queued(t) \/ Answered(t) \/ Running(t) \/ Reported(t) \/ Refused(t))
  /\ Asked(t) => ~ (Queued(t) \/ Answered(t) \/ Running(t) \/ Reported(t) \/ Refused(t))
  /\ Queued(t) => ~ (Answered(t) \/ Running(t) \/ Reported(t) \/ Refused(t))
  /\ Answered(t) => ~ (Running(t) \/ Reported(t) \/ Refused(t))
  /\ Running(t) => ~ (Reported(t) \/ Refused(t))
  /\ Reported(t) => ~ Refused(t)

\* What the stage of a task says of the master and of its worker.
Placed(t) ==
  /\ Queued(t) \/ Answered(t) \/ Running(t) \/ Reported(t) => t \in subscriptions
  /\ New(t) \/ Asking(t) \/ Asked(t) \/ Refused(t)
       => t \notin subscriptions /\ t \notin Held(scheduler)
  /\ WorkerOf[t] \in alive /\ (Asking(t) \/ Asked(t) \/ Queued(t) \/ Answered(t) \/ Refused(t))
       => t \in entries

TasksOK == \A t \in TaskIds : OneStage(t) /\ Placed(t)

DeadGetNothing == \A w \in Workers \ alive : toWorker[w] = <<>>

\* What the master keeps: its loop, its scheduler object and its channels.
MasterOK ==
  /\ pc \in {"select", "drain"}
  /\ SchedulerOK(scheduler)
  /\ taskMap \subseteq TaskIds
  /\ TaskMapExact /\ EveryTaskHasARelease
  /\ ChannelsOK

WorkersOK ==
  /\ alive \subseteq Workers
  /\ client \in [TaskIds -> ClientStates]
  /\ entries \subseteq TaskIds

WaitsOK == awaiting \subseteq subscriptions /\ subscriptions \subseteq TaskIds

IInv == WorkersOK /\ WaitsOK /\ MasterOK /\ PipesOK /\ TasksOK /\ DeadGetNothing

-----------------------------------------------------------------------------
\* Sequences without repetition

\* What is appended is added.
LEMMA Appended ==
  ASSUME NEW T, NEW s \in Seq(T), NEW x \in T
  PROVE  /\ Append(s, x) \in Seq(T)
         /\ ToSet(Append(s, x)) = ToSet(s) \cup {x}
         /\ IsInjective(s) /\ x \notin ToSet(s) => IsInjective(Append(s, x))
<1> DEFINE longer == Append(s, x)
           n == Len(s)
<1>1. /\ n \in Nat /\ DOMAIN s = 1..n /\ longer \in Seq(T) /\ DOMAIN longer = 1..(n + 1)
      /\ longer[n + 1] = x
      /\ \A i \in 1..n : longer[i] = s[i]
  OBVIOUS
<1> HIDE DEF longer, n
<1>2. ToSet(longer) = ToSet(s) \cup {x}
  <2>1. ASSUME NEW i \in DOMAIN longer PROVE longer[i] \in ToSet(s) \cup {x}
    <3>1. i = n + 1 \/ i \in 1..n
      BY <1>1
    <3> QED BY <1>1, <3>1 DEF ToSet
  <2>2. ASSUME NEW i \in DOMAIN s PROVE s[i] \in ToSet(longer)
    <3>1. i \in DOMAIN longer /\ longer[i] = s[i]
      BY <1>1
    <3> QED BY <3>1 DEF ToSet
  <2>3. x \in ToSet(longer)
    <3>1. n + 1 \in DOMAIN longer
      BY <1>1
    <3> QED BY <1>1, <3>1 DEF ToSet
  <2> QED BY <2>1, <2>2, <2>3 DEF ToSet
<1>3. ASSUME IsInjective(s), x \notin ToSet(s),
             NEW i \in DOMAIN longer, NEW j \in DOMAIN longer, longer[i] = longer[j]
      PROVE  i = j
  <2>1. \A k \in 1..n : s[k] # x
    BY <1>1, <1>3 DEF ToSet
  <2>2. \A k \in DOMAIN longer : k = n + 1 \/ k \in 1..n
    BY <1>1
  <2> QED BY <1>1, <1>3, <2>1, <2>2 DEF IsInjective
<1> QED BY <1>1, <1>2, <1>3 DEF IsInjective, longer

\* The head is in a sequence, and what is left is the rest.
LEMMA HeadTaken ==
  ASSUME NEW T, NEW s \in Seq(T), s # <<>>
  PROVE  /\ Head(s) \in T /\ Head(s) \in ToSet(s)
         /\ Tail(s) \in Seq(T)
         /\ ToSet(Tail(s)) \subseteq ToSet(s)
         /\ IsInjective(s) => /\ ToSet(Tail(s)) = ToSet(s) \ {Head(s)}
                              /\ IsInjective(Tail(s))
<1> DEFINE rest == Tail(s)
           n == Len(s)
<1>1. /\ n \in Nat /\ n # 0 /\ DOMAIN s = 1..n /\ rest \in Seq(T) /\ DOMAIN rest = 1..(n - 1)
      /\ Head(s) = s[1]
      /\ \A i \in 1..(n - 1) : rest[i] = s[i + 1]
  OBVIOUS
<1> HIDE DEF rest, n
<1>2. 1 \in DOMAIN s /\ Head(s) \in ToSet(s) /\ Head(s) \in T
  BY <1>1 DEF ToSet
<1>3. \A i \in DOMAIN rest : i + 1 \in DOMAIN s /\ i + 1 # 1 /\ rest[i] = s[i + 1]
  BY <1>1
<1>4. ToSet(rest) \subseteq ToSet(s)
  BY <1>3 DEF ToSet
<1>5. ASSUME IsInjective(s)
      PROVE  ToSet(rest) = ToSet(s) \ {Head(s)} /\ IsInjective(rest)
  <2>1. \A i \in DOMAIN rest : rest[i] # Head(s)
    BY <1>1, <1>2, <1>3, <1>5 DEF IsInjective
  <2>2. ASSUME NEW k \in DOMAIN s, s[k] # Head(s) PROVE s[k] \in ToSet(rest)
    <3>1. k # 1
      BY <1>1, <2>2
    <3>2. k - 1 \in DOMAIN rest /\ rest[k - 1] = s[k]
      BY <1>1, <3>1
    <3> QED BY <3>2 DEF ToSet
  <2>3. ASSUME NEW i \in DOMAIN rest, NEW j \in DOMAIN rest, rest[i] = rest[j] PROVE i = j
    <3>1. i + 1 = j + 1
      BY <1>3, <1>5, <2>3 DEF IsInjective
    <3> QED BY <1>1, <3>1
  <2> QED BY <1>4, <2>1, <2>2, <2>3 DEF ToSet, IsInjective
<1> QED BY <1>1, <1>2, <1>4, <1>5 DEF rest

\* What is cut off at the end takes its elements along.
LEMMA CutOff ==
  ASSUME NEW T, NEW s \in Seq(T), NEW n \in 0..Len(s)
  PROVE  /\ SubSeq(s, 1, n) \in Seq(T)
         /\ ToSet(SubSeq(s, 1, n)) \subseteq ToSet(s)
         /\ IsInjective(s) => IsInjective(SubSeq(s, 1, n))
<1> DEFINE front == SubSeq(s, 1, n)
<1>1. /\ Len(s) \in Nat /\ DOMAIN s = 1..Len(s) /\ n \in Nat /\ n <= Len(s)
      /\ front \in Seq(T) /\ DOMAIN front = 1..n
      /\ \A i \in 1..n : front[i] = s[i]
  OBVIOUS
<1> HIDE DEF front
<1>2. \A i \in DOMAIN front : i \in DOMAIN s /\ front[i] = s[i]
  BY <1>1
<1> QED BY <1>1, <1>2 DEF ToSet, IsInjective, front

-----------------------------------------------------------------------------
\* What the master may expect of a scheduler object

\* Both classes use the operators of TaskList.
LEMMA SameLists ==
  ASSUME NEW tasks, NEW S, NEW id
  PROVE  /\ Query!Elements(tasks) = Elements(tasks)
         /\ Connection!Elements(tasks) = Elements(tasks)
         /\ Query!oldest(tasks, S) = oldest(tasks, S)
         /\ Connection!oldest(tasks, S) = oldest(tasks, S)
         /\ Query!without(tasks, id) = without(tasks, id)
         /\ Connection!without(tasks, id) = without(tasks, id)
<1>1. Query!Elements(tasks) = Elements(tasks) /\ Connection!Elements(tasks) = Elements(tasks)
  BY DEF Query!Elements, Connection!Elements, Elements
<1>2. Query!oldest(tasks, S) = oldest(tasks, S) /\ Connection!oldest(tasks, S) = oldest(tasks, S)
  BY DEF Query!oldest, Connection!oldest, oldest
<1>3. Query!without(tasks, id) = without(tasks, id) /\ Connection!without(tasks, id) = without(tasks, id)
  BY DEF Query!without, Connection!without, without
<1> QED BY <1>1, <1>2, <1>3

\* The class of an object shows in its fields.
LEMMA ClassOf ==
  ASSUME NEW s, SchedulerOK(s)
  PROVE  /\ IsQuery(s) <=> s = [tasks |-> s.tasks, started |-> s.started,
                               priorities |-> s.priorities, threshold |-> s.threshold]
         /\ ~IsQuery(s) <=> s = [tasks |-> s.tasks, started |-> s.started]
         /\ SchedulerTasks(s) = Elements(s.tasks)
<1>1. s = [tasks |-> s.tasks, started |-> s.started] => ~IsQuery(s)
  BY DEF IsQuery
<1>2. s = [tasks |-> s.tasks, started |-> s.started,
           priorities |-> s.priorities, threshold |-> s.threshold] => IsQuery(s)
  BY DEF IsQuery
<1>3. SchedulerTasks(s) = Elements(s.tasks)
  BY SameLists DEF SchedulerTasks, Query!TasksOf, Connection!TasksOf
<1> QED BY <1>1, <1>2, <1>3 DEF SchedulerOK

\* A new object holds nothing.
LEMMA NewHoldsNothing ==
  ASSUME NEW s \in NewSchedulers
  PROVE  SchedulerOK(s) /\ Held(s) = {} /\ Started(s) = {}
<1>1. /\ s.tasks = <<>> /\ s.started = {}
      /\ \/ s = [tasks |-> s.tasks, started |-> s.started]
         \/ s = [tasks |-> s.tasks, started |-> s.started,
                 priorities |-> s.priorities, threshold |-> s.threshold]
  BY DEF NewSchedulers, Query!NewScheduler, Connection!NewScheduler
<1>2. SchedulerOK(s)
  BY <1>1 DEF SchedulerOK, UniqueIdsIn, Elements
<1>3. SchedulerTasks(s) = {}
  BY <1>1, <1>2, ClassOf DEF Elements
<1> QED BY <1>1, <1>2, <1>3 DEF Held, Started

\* A list with one more task.
LEMMA ListPushed ==
  ASSUME NEW tasks \in Seq([id : TaskIds, source : Sources]), UniqueIdsIn(tasks),
         NEW new \in [id : TaskIds, source : Sources],
         \A t \in Elements(tasks) : t.id # new.id
  PROVE  /\ Append(tasks, new) \in Seq([id : TaskIds, source : Sources])
         /\ UniqueIdsIn(Append(tasks, new))
         /\ Elements(Append(tasks, new)) = Elements(tasks) \cup {new}
<1> DEFINE longer == Append(tasks, new)
           n == Len(tasks)
           T == [id : TaskIds, source : Sources]
<1> HIDE DEF T
<1>0. tasks \in Seq(T) /\ new \in T
  BY DEF T
<1>1. /\ n \in Nat /\ DOMAIN tasks = 1..n /\ longer \in Seq(T) /\ DOMAIN longer = 1..(n + 1)
      /\ longer[n + 1] = new
      /\ \A i \in 1..n : longer[i] = tasks[i]
  BY <1>0
<1> HIDE DEF longer, n
<1>2. \A i \in DOMAIN longer : i = n + 1 \/ i \in 1..n
  BY <1>1
<1>3. \A i \in 1..n : tasks[i].id # new.id
  BY <1>1 DEF Elements
<1>4. UniqueIdsIn(longer)
  <2> SUFFICES ASSUME NEW i \in DOMAIN longer, NEW j \in DOMAIN longer, longer[i].id = longer[j].id
               PROVE  i = j
    BY DEF UniqueIdsIn
  <2> QED BY <1>1, <1>2, <1>3 DEF UniqueIdsIn
<1>5. Elements(longer) = Elements(tasks) \cup {new}
  <2>1. ASSUME NEW i \in DOMAIN longer PROVE longer[i] \in Elements(tasks) \cup {new}
    BY <1>1, <1>2 DEF Elements
  <2>2. ASSUME NEW i \in DOMAIN tasks PROVE tasks[i] \in Elements(longer)
    <3>1. i \in DOMAIN longer /\ longer[i] = tasks[i]
      BY <1>1
    <3> QED BY <3>1 DEF Elements
  <2>3. new \in Elements(longer)
    <3>1. n + 1 \in DOMAIN longer
      BY <1>1
    <3> QED BY <1>1, <3>1 DEF Elements
  <2> QED BY <2>1, <2>2, <2>3 DEF Elements
<1> QED BY <1>1, <1>4, <1>5 DEF longer, T

\* scheduleTask adds a queued task.
LEMMA ScheduleAdds ==
  ASSUME NEW s, SchedulerOK(s), NEW id \in TaskIds, id \notin Held(s)
  PROVE  LET r == SchedulerSchedule(s, SourceOf[id], id)
         IN  /\ SchedulerOK(r)
             /\ Held(r) = Held(s) \cup {id}
             /\ r.started = s.started
             /\ Started(r) = Started(s)
<1> USE TasksAssumption
<1> DEFINE source == SourceOf[id]
           r == SchedulerSchedule(s, source, id)
           new == [id |-> id, source |-> source]
<1>1. SchedulerTasks(s) = Elements(s.tasks)
  BY ClassOf
<1>2. new \in [id : TaskIds, source : Sources] /\ \A t \in Elements(s.tasks) : t.id # new.id
  BY <1>1 DEF Held
<1>3. /\ Append(s.tasks, new) \in Seq([id : TaskIds, source : Sources])
      /\ UniqueIdsIn(Append(s.tasks, new))
      /\ Elements(Append(s.tasks, new)) = Elements(s.tasks) \cup {new}
  BY <1>2, ListPushed DEF SchedulerOK
<1>4. /\ r.tasks = Append(s.tasks, new) /\ r.started = s.started
      /\ \/ r = [tasks |-> r.tasks, started |-> r.started]
         \/ r = [tasks |-> r.tasks, started |-> r.started,
                 priorities |-> r.priorities, threshold |-> r.threshold]
  <2>1. CASE IsQuery(s)
    <3>1. s = [tasks |-> s.tasks, started |-> s.started,
               priorities |-> s.priorities, threshold |-> s.threshold]
      BY <2>1, ClassOf
    <3>2. r = Query!scheduleTask(s, source, id)
      BY <2>1 DEF SchedulerSchedule
    <3>3. PICK p : Query!scheduleTask(s, source, id)
                     = [s EXCEPT !.tasks = Append(@, new), !.priorities = p]
      BY DEF Query!scheduleTask
    <3>4. r = [tasks |-> Append(s.tasks, new), started |-> s.started,
               priorities |-> p, threshold |-> s.threshold]
      BY <3>1, <3>2, <3>3
    <3> HIDE DEF r, new
    <3> QED BY <3>4
  <2>2. CASE ~IsQuery(s)
    <3>1. s = [tasks |-> s.tasks, started |-> s.started]
      BY <2>2, ClassOf
    <3>2. r = [tasks |-> Append(s.tasks, new), started |-> s.started]
      BY <2>2, <3>1 DEF SchedulerSchedule, Connection!scheduleTask
    <3> HIDE DEF r, new
    <3> QED BY <3>2
  <2> QED BY <2>1, <2>2
<1> HIDE DEF r
<1>5. SchedulerOK(r)
  BY <1>3, <1>4 DEF SchedulerOK
<1>6. SchedulerTasks(r) = Elements(s.tasks) \cup {new}
  BY <1>3, <1>4, <1>5, ClassOf
<1> QED BY <1>1, <1>4, <1>5, <1>6 DEF Held, Started, r

\* A list has finitely many tasks.
LEMMA ElementsFinite ==
  ASSUME NEW T, NEW tasks \in Seq(T)
  PROVE  IsFiniteSet(Elements(tasks))
<1> DEFINE f == [i \in 1..Len(tasks) |-> tasks[i]]
<1>1. f \in Surjection(1..Len(tasks), Elements(tasks))
  <2>1. f \in [1..Len(tasks) -> Elements(tasks)] /\ DOMAIN tasks = 1..Len(tasks)
    BY DEF Elements
  <2> QED BY <2>1 DEF Surjection, Elements
<1>2. IsFiniteSet(1..Len(tasks))
  BY FS_Interval
<1> HIDE DEF f
<1> QED BY <1>1, <1>2, FS_Surjection

\* The connection scheduler starts an eligible task.
LEMMA RunnableIsEligible ==
  ASSUME NEW s, SchedulerOK(s), ~IsQuery(s), NEW task \in SchedulerRunnable(s)
  PROVE  task \in Connection!eligibleTasks(s)
<1> DEFINE S == Connection!fewestRunning(s)
           eligible == Connection!eligibleTasks(s)
           counts == {Connection!runningCount(s, t.source) : t \in eligible}
<1>1. task = oldest(s.tasks, S) /\ eligible # {}
  BY SameLists DEF SchedulerRunnable, Connection!runnableTasks
<1>2. S \subseteq eligible /\ S \subseteq Elements(s.tasks)
  BY SameLists
     DEF Connection!fewestRunning, Connection!eligibleTasks, Connection!pendingTasks, Connection!TasksOf
<1>3. S # {}
  <2>1. IsFiniteSet(s.started)
    BY ElementsFinite, FS_Subset DEF SchedulerOK
  <2>2. ASSUME NEW t \in eligible
        PROVE  Connection!runningCount(s, t.source) \in Nat
    <3>1. Connection!runningTasksOf(s, t.source) \in SUBSET s.started
      BY DEF Connection!runningTasksOf
    <3>2. \A X : Connection!Cardinality(X) = Cardinality(X)
      BY Zenon DEF Connection!Cardinality, Cardinality
    <3> QED BY <2>1, <3>1, <3>2, FS_Subset, FS_CardinalityType DEF Connection!runningCount
  <2>3. counts \subseteq Nat /\ counts # {}
    BY <1>1, <2>2
  <2>4. \E n \in counts : \A m \in counts : n <= m
    BY <2>3, LeastElement
  <2> QED BY <2>4 DEF Connection!fewestRunning
<1> HIDE DEF S, eligible
<1>4. task \in S
  BY <1>1, <1>2, <1>3, OldestIn DEF SchedulerOK
<1> QED BY <1>2, <1>4 DEF eligible

\* runTask may start queued tasks only.
LEMMA RunnableIsQueued ==
  ASSUME NEW s, SchedulerOK(s), NEW task \in SchedulerRunnable(s)
  PROVE  task \in Elements(s.tasks) /\ task.id \in Held(s) \ Started(s)
<1>1. task \in Elements(s.tasks) /\ task \notin s.started
  <2>1. CASE IsQuery(s)
    <3>1. PICK source \in Query!eligibleSources(s) : task = Query!firstPending(s, source)
      BY <2>1 DEF SchedulerRunnable, Query!runnableTasks
    <3> DEFINE S == Query!pendingTasksOf(s, source)
    <3>2. S # {}
      BY <3>1 DEF Query!eligibleSources
    <3>3. S \subseteq Elements(s.tasks) \ s.started
      BY SameLists DEF Query!pendingTasksOf, Query!pendingTasks, Query!TasksOf
    <3>4. task = oldest(s.tasks, S)
      BY <3>1, SameLists DEF Query!firstPending
    <3> HIDE DEF S
    <3>5. task \in S
      BY <3>2, <3>3, <3>4, OldestIn DEF SchedulerOK
    <3> QED BY <3>3, <3>5
  <2>2. CASE ~IsQuery(s)
    BY <2>2, RunnableIsEligible, SameLists
       DEF Connection!eligibleTasks, Connection!pendingTasks, Connection!TasksOf
  <2> QED BY <2>1, <2>2
<1>2. \A t \in Elements(s.tasks) : t.id = task.id => t = task
  BY <1>1 DEF Elements, UniqueIdsIn, SchedulerOK
<1> QED BY <1>1, <1>2, ClassOf DEF Held, Started, SchedulerOK

\* What is started is finitely much.
LEMMA StartedFinite ==
  ASSUME NEW s, SchedulerOK(s)
  PROVE  /\ IsFiniteSet(s.started) /\ Cardinality(s.started) \in Nat
         /\ \A source : /\ IsFiniteSet(StartedOf(s, source))
                        /\ Cardinality(StartedOf(s, source)) \in Nat
<1>1. IsFiniteSet(s.started)
  BY ElementsFinite, FS_Subset DEF SchedulerOK
<1>2. \A source : StartedOf(s, source) \in SUBSET s.started
  BY DEF StartedOf
<1> QED BY <1>1, <1>2, FS_Subset, FS_CardinalityType

\* While the limits hold, runTask only starts a task for which there is room:
\* a slot, and one in the share of its client.
LEMMA RunnableHasRoom ==
  ASSUME NEW s, SchedulerOK(s), WithinLimits(s), NEW task \in SchedulerRunnable(s)
  PROVE  /\ Cardinality(s.started) < Slots
         /\ Cardinality(StartedOf(s, task.source)) < SlotsPerSource
<1> USE SchedulerOptionsAssumption
<1>1. /\ Cardinality(s.started) \in Nat
      /\ \A source : Cardinality(StartedOf(s, source)) \in Nat
  BY StartedFinite
<1>2. CASE IsQuery(s)
  <2>1. /\ Query!canRunTask(s)
        /\ \E source \in Query!eligibleSources(s) : task = Query!firstPending(s, source)
    BY <1>2 DEF SchedulerRunnable, Query!runnableTasks
  <2>2. PICK source \in Query!eligibleSources(s) : task = Query!firstPending(s, source)
    BY <2>1
  <2>3. \A X : Query!Cardinality(X) = Cardinality(X)
    BY Zenon DEF Query!Cardinality, Cardinality
  <2>4. Cardinality(s.started) < Slots
    BY <1>1, <2>1, <2>3 DEF Query!canRunTask, Query!remainingSlotCount, WithinLimits
  <2> DEFINE S == Query!pendingTasksOf(s, source)
  <2>5. /\ S # {} /\ S \subseteq Elements(s.tasks) /\ task = oldest(s.tasks, S)
        /\ \A t \in S : t.source = source
    BY <2>2, SameLists
       DEF Query!eligibleSources, Query!pendingTasksOf, Query!pendingTasks, Query!TasksOf,
           Query!firstPending
  <2> HIDE DEF S
  <2>6. task.source = source
    BY <2>5, OldestIn DEF SchedulerOK
  <2>7. Query!runningTasksOf(s, source) = StartedOf(s, source)
    BY DEF Query!runningTasksOf, StartedOf
  <2> QED BY <2>2, <2>3, <2>4, <2>6, <2>7 DEF Query!eligibleSources, Query!belowSourceLimit
<1>3. CASE ~IsQuery(s)
  <2>1. ~ Connection!slotsTaken(s)
    BY <1>3 DEF SchedulerRunnable, Connection!runnableTasks
  <2>2. \A X : Connection!Cardinality(X) = Cardinality(X)
    BY Zenon DEF Connection!Cardinality, Cardinality
  <2>3. Cardinality(s.started) < Slots
    BY <1>1, <2>1, <2>2 DEF Connection!slotsTaken
  <2>4. task \in Connection!eligibleTasks(s)
    BY <1>3, RunnableIsEligible
  <2>5. Connection!runningTasksOf(s, task.source) = StartedOf(s, task.source)
    BY DEF Connection!runningTasksOf, StartedOf
  <2> QED BY <2>2, <2>3, <2>4, <2>5 DEF Connection!eligibleTasks, Connection!runningCount
<1> QED BY <1>2, <1>3

\* runTask makes a queued task a started one.
LEMMA RunStarts ==
  ASSUME NEW s, SchedulerOK(s), NEW task \in Elements(s.tasks)
  PROVE  LET r == SchedulerRun(s, task)
         IN  /\ SchedulerOK(r)
             /\ Held(r) = Held(s)
             /\ r.started = s.started \cup {task}
             /\ Started(r) = Started(s) \cup {task.id}
<1> DEFINE r == SchedulerRun(s, task)
<1>1. /\ r.tasks = s.tasks /\ r.started = s.started \cup {task}
      /\ \/ r = [tasks |-> r.tasks, started |-> r.started]
         \/ r = [tasks |-> r.tasks, started |-> r.started,
                 priorities |-> r.priorities, threshold |-> r.threshold]
  <2>1. CASE IsQuery(s)
    <3>1. s = [tasks |-> s.tasks, started |-> s.started,
               priorities |-> s.priorities, threshold |-> s.threshold]
      BY <2>1, ClassOf
    <3>2. r = Query!runTask(s, task)
      BY <2>1 DEF SchedulerRun
    <3>3. PICK p, n : Query!runTask(s, task)
                        = [s EXCEPT !.started = @ \cup {task}, !.threshold = n, !.priorities = p]
      BY DEF Query!runTask
    <3>4. r = [tasks |-> s.tasks, started |-> s.started \cup {task},
               priorities |-> p, threshold |-> n]
      BY <3>1, <3>2, <3>3
    <3> HIDE DEF r
    <3> QED BY <3>4
  <2>2. CASE ~IsQuery(s)
    <3>1. s = [tasks |-> s.tasks, started |-> s.started]
      BY <2>2, ClassOf
    <3>2. r = [tasks |-> s.tasks, started |-> s.started \cup {task}]
      BY <2>2, <3>1 DEF SchedulerRun, Connection!runTask
    <3> HIDE DEF r
    <3> QED BY <3>2
  <2> QED BY <2>1, <2>2
<1> HIDE DEF r
<1>2. SchedulerOK(r)
  BY <1>1 DEF SchedulerOK
<1>3. SchedulerTasks(r) = SchedulerTasks(s)
  BY <1>1, <1>2, ClassOf
<1> QED BY <1>1, <1>2, <1>3 DEF Held, Started, r

\* completeTask does not throw for a task the object holds.
LEMMA NoThrow ==
  ASSUME NEW s, SchedulerOK(s), NEW id \in Held(s)
  PROVE  ~ SchedulerThrows(s, id)
<1>1. \E t \in Elements(s.tasks) : t.id = id
  BY ClassOf DEF Held
<1> QED BY <1>1, SameLists
        DEF SchedulerThrows, Query!completeTaskThrows, Connection!completeTaskThrows,
            Query!containsTask, Query!TasksOf

\* completeTask removes the task, whether it was started or not, and no other.
LEMMA CompleteRemoves ==
  ASSUME NEW s, SchedulerOK(s), NEW id \in Held(s), NEW duration
  PROVE  LET r == SchedulerComplete(s, id, duration)
         IN  /\ SchedulerOK(r)
             /\ Held(r) = Held(s) \ {id}
             /\ r.started \subseteq s.started
             /\ Started(r) = Started(s) \ {id}
<1> DEFINE r == SchedulerComplete(s, id, duration)
           T == [id : TaskIds, source : Sources]
<1>1. SchedulerTasks(s) = Elements(s.tasks)
  BY ClassOf
<1>2. PICK k \in DOMAIN s.tasks : s.tasks[k].id = id
  BY <1>1 DEF Held, Elements
<1> DEFINE task == s.tasks[k]
<1>3. \A t \in Elements(s.tasks) : t.id = id <=> t = task
  BY <1>2 DEF Elements, UniqueIdsIn, SchedulerOK
<1>4. task \in Elements(s.tasks)
  BY DEF Elements
<1>5. /\ without(s.tasks, id) \in Seq(T)
      /\ Elements(without(s.tasks, id)) = Elements(s.tasks) \ {task}
      /\ UniqueIdsIn(without(s.tasks, id))
  <2> HIDE DEF T
  <2>1. s.tasks \in Seq(T) /\ UniqueIdsIn(s.tasks)
    BY DEF SchedulerOK, T
  <2> QED BY <1>2, <2>1, WithoutOne
<1> HIDE DEF task
<1>6. /\ r.tasks = without(s.tasks, id) /\ r.started = s.started \ {task}
      /\ \/ r = [tasks |-> r.tasks, started |-> r.started]
         \/ r = [tasks |-> r.tasks, started |-> r.started,
                 priorities |-> r.priorities, threshold |-> r.threshold]
  <2>1. CASE IsQuery(s)
    <3>1. s = [tasks |-> s.tasks, started |-> s.started,
               priorities |-> s.priorities, threshold |-> s.threshold]
      BY <2>1, ClassOf
    <3>2. (CHOOSE t \in Query!TasksOf(s) : t.id = id) = task
      BY <1>3, <1>4, SameLists DEF Query!TasksOf
    <3>3. PICK p : Query!completeTask(s, id, duration)
                     = [s EXCEPT !.tasks = Query!without(@, id), !.started = @ \ {task},
                                 !.priorities = p]
      BY <3>2 DEF Query!completeTask
    <3>4. r = [tasks |-> without(s.tasks, id), started |-> s.started \ {task},
               priorities |-> p, threshold |-> s.threshold]
      BY <2>1, <3>1, <3>3, SameLists DEF SchedulerComplete
    <3> HIDE DEF r
    <3> QED BY <3>4
  <2>2. CASE ~IsQuery(s)
    <3>1. s = [tasks |-> s.tasks, started |-> s.started]
      BY <2>2, ClassOf
    <3>2. Connection!containsTask(s, id)
      BY <1>3, <1>4, SameLists DEF Connection!containsTask, Connection!TasksOf
    <3>3. {t \in s.started : t.id # id} = s.started \ {task}
      BY <1>3 DEF SchedulerOK
    <3>4. r = [tasks |-> without(s.tasks, id), started |-> s.started \ {task}]
      BY <2>2, <3>1, <3>2, <3>3, SameLists DEF SchedulerComplete, Connection!completeTask
    <3> HIDE DEF r
    <3> QED BY <3>4
  <2> QED BY <2>1, <2>2
<1> HIDE DEF r
<1>7. SchedulerOK(r)
  BY <1>5, <1>6 DEF SchedulerOK
<1>8. SchedulerTasks(r) = Elements(s.tasks) \ {task}
  BY <1>5, <1>6, <1>7, ClassOf
<1> QED BY <1>1, <1>3, <1>6, <1>7, <1>8 DEF Held, Started, r, SchedulerOK

-----------------------------------------------------------------------------
\* Messages in the pipes

\* A message that is sent is in the pipe of its worker, and nothing else changes.
LEMMA PostAdds ==
  ASSUME NEW messages, NEW pipe, PipeOK(pipe, messages), NEW t \in TaskIds, NEW type,
         [type |-> type, task |-> t] \in messages, ~ Posted(pipe, type, t)
  PROVE  LET more == Post(pipe, WorkerOf[t], type, t)
         IN  /\ PipeOK(more, messages)
             /\ \A u \in TaskIds : \A k :
                  Posted(more, k, u) <=> Posted(pipe, k, u) \/ (u = t /\ k = type)
             /\ \A w \in Workers : w # WorkerOf[t] => more[w] = pipe[w]
<1> USE TasksAssumption
<1> DEFINE m == [type |-> type, task |-> t]
           v == WorkerOf[t]
           more == Post(pipe, v, type, t)
<1>1. v \in Workers /\ pipe[v] \in Seq(messages) /\ m \in messages /\ m \notin ToSet(pipe[v])
  BY DEF PipeOK, Posted
<1>2. /\ more \in [Workers -> Seq(messages)]
      /\ more[v] = Append(pipe[v], m)
      /\ \A w \in Workers : w # v => more[w] = pipe[w]
  <2>1. Append(pipe[v], m) \in Seq(messages)
    BY <1>1
  <2> HIDE DEF m, v
  <2> QED BY <1>1, <2>1 DEF Post, PipeOK, m
<1>3. /\ ToSet(more[v]) = ToSet(pipe[v]) \cup {m}
      /\ IsInjective(more[v])
  <2> HIDE DEF m, v, more
  <2> QED BY <1>1, <1>2, Appended DEF PipeOK
<1>4. m.task = t /\ WorkerOf[m.task] = v
  OBVIOUS
<1>5. PipeOK(more, messages)
  <2> HIDE DEF m, v, more
  <2> QED BY <1>1, <1>2, <1>3, <1>4 DEF PipeOK
<1>6. ASSUME NEW u \in TaskIds, NEW k
      PROVE  Posted(more, k, u) <=> Posted(pipe, k, u) \/ (u = t /\ k = type)
  <2>1. [type |-> k, task |-> u] = m <=> u = t /\ k = type
    OBVIOUS
  <2>2. WorkerOf[u] \in Workers
    OBVIOUS
  <2>3. CASE WorkerOf[u] = v
    <3> HIDE DEF m, v, more
    <3> QED BY <1>3, <2>1, <2>3 DEF Posted
  <2>4. CASE WorkerOf[u] # v
    <3>1. more[WorkerOf[u]] = pipe[WorkerOf[u]] /\ u # t
      BY <1>2, <2>2, <2>4
    <3> HIDE DEF m, v, more
    <3> QED BY <3>1 DEF Posted
  <2> QED BY <2>3, <2>4
<1> QED BY <1>2, <1>5, <1>6

\* The messages of the two pipes are records of a type and a task.
LEMMA MessageShape ==
  ASSUME NEW m \in ToMasterMessages \cup ToWorkerMessages
  PROVE  m = [type |-> m.type, task |-> m.task] /\ m.task \in TaskIds
BY DEF ToMasterMessages, ToWorkerMessages, Message

AfterTake(pipe, w) == [pipe EXCEPT ![w] = Tail(@)]

\* A message that is taken is gone, as it was there once.
LEMMA TakeRemoves ==
  ASSUME NEW messages \in {ToMasterMessages, ToWorkerMessages},
         NEW pipe, PipeOK(pipe, messages), NEW w \in Workers, pipe[w] # <<>>,
         NEW m, m = Head(pipe[w])
  PROVE  /\ m \in messages /\ m.task \in TaskIds /\ WorkerOf[m.task] = w
         /\ Posted(pipe, m.type, m.task)
         /\ PipeOK(AfterTake(pipe, w), messages)
         /\ \A u \in TaskIds : \A k :
              Posted(AfterTake(pipe, w), k, u)
                <=> Posted(pipe, k, u) /\ ~ (u = m.task /\ k = m.type)
         /\ \A v \in Workers : v # w => AfterTake(pipe, w)[v] = pipe[v]
<1> USE TasksAssumption
<1> DEFINE rest == AfterTake(pipe, w)
<1>1. pipe[w] \in Seq(messages) /\ IsInjective(pipe[w])
  BY DEF PipeOK
<1>2. /\ m \in messages /\ m \in ToSet(pipe[w])
      /\ Tail(pipe[w]) \in Seq(messages)
      /\ ToSet(Tail(pipe[w])) = ToSet(pipe[w]) \ {m}
      /\ IsInjective(Tail(pipe[w]))
  BY <1>1, HeadTaken
<1>3. /\ rest \in [Workers -> Seq(messages)]
      /\ rest[w] = Tail(pipe[w])
      /\ \A v \in Workers : v # w => rest[v] = pipe[v]
  BY <1>2 DEF PipeOK, AfterTake
<1> HIDE DEF rest
<1>4. m.task \in TaskIds /\ WorkerOf[m.task] = w /\ m = [type |-> m.type, task |-> m.task]
  BY <1>2, MessageShape DEF PipeOK
<1>5. Posted(pipe, m.type, m.task)
  BY <1>2, <1>4 DEF Posted
<1>6. PipeOK(rest, messages)
  BY <1>2, <1>3 DEF PipeOK
<1>7. ASSUME NEW u \in TaskIds, NEW k
      PROVE  Posted(rest, k, u) <=> Posted(pipe, k, u) /\ ~ (u = m.task /\ k = m.type)
  <2>1. [type |-> k, task |-> u] = m <=> u = m.task /\ k = m.type
    BY <1>4
  <2>2. WorkerOf[u] \in Workers
    OBVIOUS
  <2>3. CASE WorkerOf[u] = w
    BY <1>2, <1>3, <2>1, <2>3 DEF Posted
  <2>4. CASE WorkerOf[u] # w
    BY <1>3, <1>4, <2>2, <2>4 DEF Posted
  <2> QED BY <2>3, <2>4
<1> QED BY <1>2, <1>3, <1>4, <1>5, <1>6, <1>7 DEF rest

\* What a worker leaves of a pipe when it dies.
LEMMA CutKeeps ==
  ASSUME NEW messages, NEW pipe, PipeOK(pipe, messages), NEW w \in Workers,
         NEW n \in 0..Len(pipe[w])
  PROVE  LET cut == [pipe EXCEPT ![w] = SubSeq(@, 1, n)]
         IN  /\ PipeOK(cut, messages)
             /\ \A u \in TaskIds : \A k : Posted(cut, k, u) => Posted(pipe, k, u)
<1> USE TasksAssumption
<1> DEFINE cut == [pipe EXCEPT ![w] = SubSeq(@, 1, n)]
<1>1. pipe[w] \in Seq(messages) /\ IsInjective(pipe[w])
  BY DEF PipeOK
<1>2. /\ SubSeq(pipe[w], 1, n) \in Seq(messages)
      /\ ToSet(SubSeq(pipe[w], 1, n)) \subseteq ToSet(pipe[w])
      /\ IsInjective(SubSeq(pipe[w], 1, n))
  BY <1>1, CutOff
<1>3. /\ cut \in [Workers -> Seq(messages)]
      /\ cut[w] = SubSeq(pipe[w], 1, n)
      /\ \A v \in Workers : v # w => cut[v] = pipe[v]
  BY <1>2 DEF PipeOK
<1> HIDE DEF cut
<1>4. PipeOK(cut, messages)
  BY <1>2, <1>3 DEF PipeOK
<1>5. \A u \in TaskIds : \A k : Posted(cut, k, u) => Posted(pipe, k, u)
  <2> SUFFICES ASSUME NEW u \in TaskIds, NEW k, Posted(cut, k, u) PROVE Posted(pipe, k, u)
    OBVIOUS
  <2>1. WorkerOf[u] \in Workers
    OBVIOUS
  <2> QED BY <1>2, <1>3, <2>1 DEF Posted
<1> QED BY <1>4, <1>5 DEF cut

\* Nothing is left of what was sent to it.
LEMMA EmptiedPipe ==
  ASSUME NEW messages, NEW pipe, PipeOK(pipe, messages), NEW w \in Workers
  PROVE  LET left == [pipe EXCEPT ![w] = <<>>]
         IN  /\ PipeOK(left, messages)
             /\ left[w] = <<>>
             /\ \A v \in Workers : v # w => left[v] = pipe[v]
             /\ \A u \in TaskIds : \A k : Posted(left, k, u) <=> Posted(pipe, k, u) /\ WorkerOf[u] # w
<1> USE TasksAssumption
<1> DEFINE left == [pipe EXCEPT ![w] = <<>>]
<1>1. <<>> \in Seq(messages) /\ ToSet(<<>>) = {} /\ IsInjective(<<>>)
  BY DEF ToSet, IsInjective
<1>2. /\ left \in [Workers -> Seq(messages)]
      /\ left[w] = <<>>
      /\ \A v \in Workers : v # w => left[v] = pipe[v]
  BY <1>1 DEF PipeOK
<1> HIDE DEF left
<1>3. PipeOK(left, messages)
  BY <1>1, <1>2 DEF PipeOK
<1>4. \A u \in TaskIds : \A k : Posted(left, k, u) <=> Posted(pipe, k, u) /\ WorkerOf[u] # w
  <2> SUFFICES ASSUME NEW u \in TaskIds, NEW k
               PROVE  Posted(left, k, u) <=> Posted(pipe, k, u) /\ WorkerOf[u] # w
    OBVIOUS
  <2>1. WorkerOf[u] \in Workers
    OBVIOUS
  <2> QED BY <1>1, <1>2, <2>1 DEF Posted
<1> QED BY <1>2, <1>3, <1>4 DEF left

-----------------------------------------------------------------------------
\* The invariant holds initially and every step keeps it

LEMMA InitInv == Init => IInv
<1> SUFFICES ASSUME Init PROVE IInv
  OBVIOUS
<1> USE TasksAssumption DEF Init
<1>1. /\ <<>> \in Seq(TaskIds) /\ <<>> \in Seq(ToMasterMessages) /\ <<>> \in Seq(ToWorkerMessages)
      /\ ToSet(<<>>) = {} /\ IsInjective(<<>>)
  BY DEF ToSet, IsInjective
<1>2. SchedulerOK(scheduler) /\ Held(scheduler) = {} /\ HeldIds = {}
  BY NewHoldsNothing DEF HeldIds, Held
<1>3. MasterOK
  BY <1>1, <1>2 DEF MasterOK, TaskMapExact, EveryTaskHasARelease, ChannelsOK
<1>4. PipesOK
  BY <1>1 DEF PipesOK, PipeOK
<1>5. \A t \in TaskIds : \A k : ~ Posted(toMaster, k, t) /\ ~ Posted(toWorker, k, t)
  BY <1>1 DEF Posted
<1>6. TasksOK
  BY <1>1, <1>2, <1>5
     DEF TasksOK, OneStage, Placed, New, Asking, Asked, Queued, Answered, Running, Reported, Refused
<1>7. WorkersOK /\ WaitsOK /\ DeadGetNothing
  BY DEF WorkersOK, WaitsOK, DeadGetNothing, ClientStates
<1> QED BY <1>3, <1>4, <1>6, <1>7 DEF IInv

\* What the workers do leaves the master as it is.
LEMMA MasterUntouched ==
  ASSUME MasterOK, WaitsOK, UNCHANGED <<loopVars, waitVars, chanVars>>
  PROVE  /\ MasterOK' /\ WaitsOK'
         /\ subscriptions' = subscriptions /\ scheduler' = scheduler
         /\ enqueueChannel' = enqueueChannel
BY DEF MasterOK, WaitsOK, TaskMapExact, EveryTaskHasARelease, HeldIds, ChannelsOK,
       loopVars, waitVars, chanVars

LEMMA ScheduleInv ==
  ASSUME IInv, NEW t \in TaskIds, Schedule(t)
  PROVE  IInv'
<1> USE TasksAssumption
<1>1. MasterOK' /\ WaitsOK' /\ UNCHANGED <<subscriptions, scheduler, enqueueChannel>>
  BY MasterUntouched DEF IInv, Schedule
<1>2. New(t) /\ WorkerOf[t] \in alive /\ OneStage(t) /\ Placed(t)
  BY DEF Schedule, New, IInv, TasksOK
<1>3. [type |-> "ENQUEUE", task |-> t] \in ToMasterMessages /\ ~ Posted(toMaster, "ENQUEUE", t)
  BY <1>2 DEF ToMasterMessages, Message, OneStage, Asking
<1>4. /\ PipeOK(toMaster', ToMasterMessages)
      /\ \A u \in TaskIds : \A k :
           Posted(toMaster', k, u) <=> Posted(toMaster, k, u) \/ (u = t /\ k = "ENQUEUE")
  BY <1>3, PostAdds DEF IInv, PipesOK, Schedule
<1>5. PipesOK' /\ UNCHANGED <<toWorker, alive>>
  BY <1>4 DEF IInv, PipesOK, Schedule
<1>6. DeadGetNothing'
  BY <1>5 DEF IInv, DeadGetNothing
<1>7. /\ client \in [TaskIds -> ClientStates] /\ client' = [client EXCEPT ![t] = "waiting"]
      /\ entries' = entries \cup {t}
  BY DEF IInv, WorkersOK, Schedule
<1>8. WorkersOK'
  BY <1>5, <1>7 DEF IInv, WorkersOK, ClientStates
<1>9. TasksOK'
  <2> SUFFICES ASSUME NEW u \in TaskIds PROVE OneStage(u)' /\ Placed(u)'
    BY DEF TasksOK
  <2>1. OneStage(u) /\ Placed(u)
    BY DEF IInv, TasksOK
  <2> USE DEF OneStage, Placed, New, Asking, Asked, Queued, Answered, Running, Reported, Refused
  <2>2. CASE u = t
    BY <1>1, <1>2, <1>4, <1>5, <1>7, <2>2
  <2>3. CASE u # t
    BY <1>1, <1>4, <1>5, <1>7, <2>1, <2>3
  <2> QED BY <2>2, <2>3
<1> QED BY <1>1, <1>5, <1>6, <1>8, <1>9 DEF IInv

LEMMA ClientTimeoutInv ==
  ASSUME IInv, NEW t \in TaskIds, ClientTimeout(t)
  PROVE  IInv'
<1>1. MasterOK' /\ WaitsOK' /\ UNCHANGED <<subscriptions, scheduler, enqueueChannel>>
  BY MasterUntouched DEF IInv, ClientTimeout
<1>2. /\ UNCHANGED <<alive, entries, toMaster, toWorker>>
      /\ client \in [TaskIds -> ClientStates] /\ client' = [client EXCEPT ![t] = "timedout"]
      /\ client[t] = "waiting"
  BY DEF IInv, WorkersOK, ClientTimeout, pipeVars
<1>3. PipesOK' /\ DeadGetNothing'
  BY <1>2 DEF IInv, PipesOK, DeadGetNothing
<1>4. WorkersOK'
  BY <1>2 DEF IInv, WorkersOK, ClientStates
<1>5. TasksOK'
  <2> SUFFICES ASSUME NEW u \in TaskIds PROVE OneStage(u)' /\ Placed(u)'
    BY DEF TasksOK
  <2>1. OneStage(u) /\ Placed(u)
    BY DEF IInv, TasksOK
  <2> QED BY <1>1, <1>2, <2>1
      DEF OneStage, Placed, New, Asking, Asked, Queued, Answered, Running, Reported, Refused
<1> QED BY <1>1, <1>3, <1>4, <1>5 DEF IInv

LEMMA FinishInv ==
  ASSUME IInv, NEW t \in TaskIds, Finish(t)
  PROVE  IInv'
<1>1. MasterOK' /\ WaitsOK' /\ UNCHANGED <<subscriptions, scheduler, enqueueChannel>>
  BY MasterUntouched DEF IInv, Finish
<1>2. Running(t) /\ OneStage(t) /\ Placed(t)
  BY DEF Finish, Running, IInv, TasksOK
<1>3. [type |-> "COMPLETE", task |-> t] \in ToMasterMessages /\ ~ Posted(toMaster, "COMPLETE", t)
  BY <1>2 DEF ToMasterMessages, Message, OneStage, Reported
<1>4. /\ PipeOK(toMaster', ToMasterMessages)
      /\ \A u \in TaskIds : \A k :
           Posted(toMaster', k, u) <=> Posted(toMaster, k, u) \/ (u = t /\ k = "COMPLETE")
  BY <1>3, PostAdds DEF IInv, PipesOK, Finish
<1>5. PipesOK' /\ UNCHANGED <<toWorker, alive, entries>>
  BY <1>4 DEF IInv, PipesOK, Finish
<1>6. DeadGetNothing'
  BY <1>5 DEF IInv, DeadGetNothing
<1>7. client \in [TaskIds -> ClientStates] /\ client' = [client EXCEPT ![t] = "done"]
  BY DEF IInv, WorkersOK, Finish
<1>8. WorkersOK'
  BY <1>5, <1>7 DEF IInv, WorkersOK, ClientStates
<1>9. TasksOK'
  <2> SUFFICES ASSUME NEW u \in TaskIds PROVE OneStage(u)' /\ Placed(u)'
    BY DEF TasksOK
  <2>1. OneStage(u) /\ Placed(u)
    BY DEF IInv, TasksOK
  <2> USE DEF OneStage, Placed, New, Asking, Asked, Queued, Answered, Running, Reported, Refused
  <2>2. CASE u = t
    BY <1>1, <1>2, <1>4, <1>5, <1>7, <2>2
  <2>3. CASE u # t
    BY <1>1, <1>4, <1>5, <1>7, <2>1, <2>3
  <2> QED BY <2>2, <2>3
<1> QED BY <1>1, <1>5, <1>6, <1>8, <1>9 DEF IInv

LEMMA ReceiveAnswerInv ==
  ASSUME IInv, NEW w \in Workers, ReceiveAnswer(w)
  PROVE  IInv'
<1> USE TasksAssumption
<1> DEFINE answer == Head(toWorker[w])
           t == answer.task
<1>1. MasterOK' /\ WaitsOK' /\ UNCHANGED <<subscriptions, scheduler, enqueueChannel>>
  BY MasterUntouched DEF IInv, ReceiveAnswer
<1>2. w \in alive /\ toWorker[w] # <<>> /\ toWorker' = [toWorker EXCEPT ![w] = Tail(@)]
  BY DEF ReceiveAnswer
<1>3. /\ answer \in ToWorkerMessages /\ t \in TaskIds /\ WorkerOf[t] = w
      /\ Posted(toWorker, answer.type, t)
      /\ PipeOK(toWorker', ToWorkerMessages)
      /\ \A u \in TaskIds : \A k :
           Posted(toWorker', k, u) <=> Posted(toWorker, k, u) /\ ~ (u = t /\ k = answer.type)
      /\ \A v \in Workers : v # w => toWorker'[v] = toWorker[v]
  <2>1. PipeOK(toWorker, ToWorkerMessages)
    BY DEF IInv, PipesOK
  <2> DEFINE rest == AfterTake(toWorker, w)
  <2>3. /\ answer \in ToWorkerMessages /\ t \in TaskIds /\ WorkerOf[t] = w
        /\ Posted(toWorker, answer.type, t)
        /\ PipeOK(rest, ToWorkerMessages)
        /\ \A u \in TaskIds : \A k :
             Posted(rest, k, u) <=> Posted(toWorker, k, u) /\ ~ (u = t /\ k = answer.type)
        /\ \A v \in Workers : v # w => rest[v] = toWorker[v]
    BY <1>2, <2>1, TakeRemoves
  <2>4. toWorker' = rest
    BY <1>2 DEF AfterTake
  <2> HIDE DEF rest, answer, t
  <2> QED BY <2>3, <2>4
<1>4. OneStage(t) /\ Placed(t)
  BY <1>3 DEF IInv, TasksOK
<1>5. \/ answer.type = "READY" /\ Answered(t)
      \/ answer.type = "REJECT" /\ Refused(t)
  BY <1>3 DEF ToWorkerMessages, Message, Answered, Refused
<1>6. t \in entries
  BY <1>2, <1>3, <1>4, <1>5 DEF Placed
<1>7. IF answer.type = "READY" THEN HandleReady(t) ELSE HandleReject(t)
  BY <1>6 DEF ReceiveAnswer
<1>8. alive' = alive /\ entries' = entries \ {t}
  BY <1>7 DEF ReceiveAnswer, HandleReady, HandleReject
<1>9. client \in [TaskIds -> ClientStates]
  BY DEF IInv, WorkersOK
<1> HIDE DEF answer, t
<1>10. DeadGetNothing'
  BY <1>2, <1>3, <1>8 DEF IInv, DeadGetNothing
<1>11. CASE answer.type = "READY" /\ client[t] = "waiting"
  <2>1. client' = [client EXCEPT ![t] = "running"] /\ toMaster' = toMaster
    BY <1>7, <1>11 DEF HandleReady
  <2>2. PipesOK'
    BY <1>3, <2>1 DEF IInv, PipesOK
  <2>3. WorkersOK'
    BY <1>3, <1>8, <1>9, <2>1 DEF IInv, WorkersOK, ClientStates
  <2>4. TasksOK'
    <3> SUFFICES ASSUME NEW u \in TaskIds PROVE OneStage(u)' /\ Placed(u)'
      BY DEF TasksOK
    <3>1. OneStage(u) /\ Placed(u)
      BY DEF IInv, TasksOK
    <3> USE DEF OneStage, Placed, New, Asking, Asked, Queued, Answered, Running, Reported, Refused
    <3>2. CASE u = t
      BY <1>1, <1>3, <1>4, <1>5, <1>8, <1>9, <1>11, <2>1, <3>2
    <3>3. CASE u # t
      BY <1>1, <1>3, <1>8, <1>9, <2>1, <3>1, <3>3
    <3> QED BY <3>2, <3>3
  <2> QED BY <1>1, <1>10, <2>2, <2>3, <2>4 DEF IInv
<1>12. CASE answer.type = "READY" /\ client[t] # "waiting"
  <2>1. client' = client /\ toMaster' = Post(toMaster, WorkerOf[t], "COMPLETE", t)
    BY <1>7, <1>12 DEF HandleReady
  <2>2. [type |-> "COMPLETE", task |-> t] \in ToMasterMessages /\ ~ Posted(toMaster, "COMPLETE", t)
    BY <1>3, <1>4, <1>5, <1>12 DEF ToMasterMessages, Message, OneStage, Reported
  <2>3. /\ PipeOK(toMaster', ToMasterMessages)
        /\ \A u \in TaskIds : \A k :
             Posted(toMaster', k, u) <=> Posted(toMaster, k, u) \/ (u = t /\ k = "COMPLETE")
    BY <1>3, <2>1, <2>2, PostAdds DEF IInv, PipesOK
  <2>4. PipesOK'
    BY <1>3, <2>3 DEF PipesOK
  <2>5. WorkersOK'
    BY <1>8, <1>9, <2>1 DEF IInv, WorkersOK
  <2>6. TasksOK'
    <3> SUFFICES ASSUME NEW u \in TaskIds PROVE OneStage(u)' /\ Placed(u)'
      BY DEF TasksOK
    <3>1. OneStage(u) /\ Placed(u)
      BY DEF IInv, TasksOK
    <3> USE DEF OneStage, Placed, New, Asking, Asked, Queued, Answered, Running, Reported, Refused
    <3>2. CASE u = t
      BY <1>1, <1>3, <1>4, <1>5, <1>8, <1>9, <1>12, <2>1, <2>3, <3>2
    <3>3. CASE u # t
      BY <1>1, <1>3, <1>8, <1>9, <2>1, <2>3, <3>1, <3>3
    <3> QED BY <3>2, <3>3
  <2> QED BY <1>1, <1>10, <2>4, <2>5, <2>6 DEF IInv
<1>13. CASE answer.type = "REJECT"
  <2>1. /\ client' = [client EXCEPT ![t] = IF @ = "waiting" THEN "rejected" ELSE @]
        /\ toMaster' = toMaster
    BY <1>7, <1>13 DEF HandleReject
  <2>2. PipesOK'
    BY <1>3, <2>1 DEF IInv, PipesOK
  <2>3. WorkersOK'
    BY <1>3, <1>8, <1>9, <2>1 DEF IInv, WorkersOK, ClientStates
  <2>4. TasksOK'
    <3> SUFFICES ASSUME NEW u \in TaskIds PROVE OneStage(u)' /\ Placed(u)'
      BY DEF TasksOK
    <3>1. OneStage(u) /\ Placed(u)
      BY DEF IInv, TasksOK
    <3> USE DEF OneStage, Placed, New, Asking, Asked, Queued, Answered, Running, Reported, Refused
    <3>2. CASE u = t
      BY <1>1, <1>3, <1>4, <1>5, <1>8, <1>9, <1>13, <2>1, <3>2
    <3>3. CASE u # t
      BY <1>1, <1>3, <1>8, <1>9, <2>1, <3>1, <3>3
    <3> QED BY <3>2, <3>3
  <2> QED BY <1>1, <1>10, <2>2, <2>3, <2>4 DEF IInv
<1> QED BY <1>5, <1>11, <1>12, <1>13

LEMMA CrashInv ==
  ASSUME IInv, NEW w \in Workers, Crash(w)
  PROVE  IInv'
<1> USE TasksAssumption
<1>1. MasterOK' /\ WaitsOK' /\ UNCHANGED <<subscriptions, scheduler, enqueueChannel>>
  BY MasterUntouched DEF IInv, Crash
<1>2. /\ w \in alive /\ alive' = alive \ {w}
      /\ client' = [t \in TaskIds |->
                      IF WorkerOf[t] = w /\ client[t] \in {"waiting", "running"}
                      THEN "lost" ELSE client[t]]
      /\ entries' = {t \in entries : WorkerOf[t] # w}
      /\ toWorker' = [toWorker EXCEPT ![w] = <<>>]
  BY DEF Crash
<1>3. PICK n \in 0..Len(toMaster[w]) : toMaster' = [toMaster EXCEPT ![w] = SubSeq(@, 1, n)]
  BY DEF Crash
<1>4. /\ PipeOK(toMaster', ToMasterMessages)
      /\ \A u \in TaskIds : \A k : Posted(toMaster', k, u) => Posted(toMaster, k, u)
  BY <1>3, CutKeeps DEF IInv, PipesOK
<1>5. /\ PipeOK(toWorker', ToWorkerMessages)
      /\ toWorker'[w] = <<>>
      /\ \A v \in Workers : v # w => toWorker'[v] = toWorker[v]
      /\ \A u \in TaskIds : \A k : Posted(toWorker', k, u) <=> Posted(toWorker, k, u) /\ WorkerOf[u] # w
  <2> DEFINE left == [toWorker EXCEPT ![w] = <<>>]
  <2>1. PipeOK(toWorker, ToWorkerMessages) /\ toWorker' = left
    BY <1>2 DEF IInv, PipesOK
  <2>2. /\ PipeOK(left, ToWorkerMessages)
        /\ left[w] = <<>>
        /\ \A v \in Workers : v # w => left[v] = toWorker[v]
        /\ \A u \in TaskIds : \A k : Posted(left, k, u) <=> Posted(toWorker, k, u) /\ WorkerOf[u] # w
    BY <2>1, EmptiedPipe
  <2> HIDE DEF left
  <2> QED BY <2>1, <2>2
<1>6. PipesOK'
  BY <1>4, <1>5 DEF PipesOK
<1>7. DeadGetNothing'
  BY <1>2, <1>5 DEF IInv, DeadGetNothing
<1>8. WorkersOK'
  BY <1>2 DEF IInv, WorkersOK, ClientStates
<1>9. TasksOK'
  <2> SUFFICES ASSUME NEW u \in TaskIds PROVE OneStage(u)' /\ Placed(u)'
    BY DEF TasksOK
  <2>1. OneStage(u) /\ Placed(u)
    BY DEF IInv, TasksOK
  <2>2. (client'[u] = "new" => client[u] = "new") /\ (client'[u] = "running" => client[u] = "running")
    BY <1>2
  <2> QED BY <1>1, <1>2, <1>4, <1>5, <2>1, <2>2
      DEF OneStage, Placed, New, Asking, Asked, Queued, Answered, Running, Reported, Refused
<1> QED BY <1>1, <1>6, <1>7, <1>8, <1>9 DEF IInv

\* What the master does leaves the workers as they are.
LEMMA WorkersUntouched ==
  ASSUME WorkersOK, UNCHANGED workerVars
  PROVE  WorkersOK' /\ UNCHANGED <<alive, client, entries>>
BY DEF WorkersOK, workerVars

LEMMA DispatchInv ==
  ASSUME IInv, NEW w \in Workers, Dispatch(w)
  PROVE  IInv'
<1> USE TasksAssumption
<1> DEFINE message == Head(toMaster[w])
           t == message.task
<1>1. WorkersOK' /\ UNCHANGED <<alive, client, entries>>
  BY WorkersUntouched DEF IInv, Dispatch
<1>2. /\ toMaster[w] # <<>> /\ toMaster' = [toMaster EXCEPT ![w] = Tail(@)]
      /\ UNCHANGED <<toWorker, pc, scheduler, taskMap, timeoutChannel>>
  BY DEF Dispatch, loopVars
<1>3. /\ message \in ToMasterMessages /\ t \in TaskIds /\ WorkerOf[t] = w
      /\ Posted(toMaster, message.type, t)
      /\ PipeOK(toMaster', ToMasterMessages)
      /\ \A u \in TaskIds : \A k :
           Posted(toMaster', k, u) <=> Posted(toMaster, k, u) /\ ~ (u = t /\ k = message.type)
  <2>1. PipeOK(toMaster, ToMasterMessages)
    BY DEF IInv, PipesOK
  <2> DEFINE rest == AfterTake(toMaster, w)
  <2>2. /\ message \in ToMasterMessages /\ t \in TaskIds /\ WorkerOf[t] = w
        /\ Posted(toMaster, message.type, t)
        /\ PipeOK(rest, ToMasterMessages)
        /\ \A u \in TaskIds : \A k :
             Posted(rest, k, u) <=> Posted(toMaster, k, u) /\ ~ (u = t /\ k = message.type)
    BY <1>2, <2>1, TakeRemoves
  <2>3. toMaster' = rest
    BY <1>2 DEF AfterTake
  <2> HIDE DEF rest, message, t
  <2> QED BY <2>2, <2>3
<1>4. OneStage(t) /\ Placed(t)
  BY <1>3 DEF IInv, TasksOK
<1>5. \/ message.type = "ENQUEUE" /\ Asking(t)
      \/ message.type = "COMPLETE" /\ Reported(t)
  BY <1>3 DEF ToMasterMessages, Message, Asking, Reported
<1>6. PipesOK' /\ DeadGetNothing'
  BY <1>1, <1>2, <1>3 DEF IInv, PipesOK, DeadGetNothing
<1>7. MasterOK /\ WaitsOK
  BY DEF IInv
<1>8. CASE message.type = "ENQUEUE"
  <2>1. /\ enqueueChannel' = Append(enqueueChannel, t)
        /\ UNCHANGED <<completeChannel, subscriptions, awaiting>>
    BY <1>8 DEF Dispatch, waitVars
  <2> HIDE DEF message, t
  <2>2. t \notin ToSet(enqueueChannel)
    BY <1>4, <1>5, <1>8 DEF OneStage, Asked
  <2>3. /\ enqueueChannel' \in Seq(TaskIds) /\ IsInjective(enqueueChannel')
        /\ ToSet(enqueueChannel') = ToSet(enqueueChannel) \cup {t}
    BY <1>3, <1>7, <2>1, <2>2, Appended DEF MasterOK, ChannelsOK
  <2>4. MasterOK' /\ WaitsOK'
    BY <1>2, <1>7, <2>1, <2>3
       DEF MasterOK, WaitsOK, TaskMapExact, EveryTaskHasARelease, HeldIds, ChannelsOK
  <2>5. TasksOK'
    <3> SUFFICES ASSUME NEW u \in TaskIds PROVE OneStage(u)' /\ Placed(u)'
      BY DEF TasksOK
    <3>1. OneStage(u) /\ Placed(u)
      BY DEF IInv, TasksOK
    <3> USE DEF OneStage, Placed, New, Asking, Asked, Queued, Answered, Running, Reported, Refused
    <3>2. CASE u = t
      BY <1>1, <1>2, <1>3, <1>4, <1>5, <1>8, <2>1, <2>3, <3>2
    <3>3. CASE u # t
      BY <1>1, <1>2, <1>3, <2>1, <2>3, <3>1, <3>3
    <3> QED BY <3>2, <3>3
  <2> QED BY <1>1, <1>6, <2>4, <2>5 DEF IInv
<1>9. CASE message.type = "COMPLETE"
  <2>1. HandleComplete(t) /\ UNCHANGED enqueueChannel
    BY <1>9 DEF Dispatch
  <2> HIDE DEF message, t
  <2>2. /\ subscriptions' = subscriptions \ {t} /\ awaiting' = awaiting \ {t}
        /\ completeChannel' = IF t \in awaiting THEN Append(completeChannel, t) ELSE completeChannel
    BY <2>1 DEF HandleComplete
  <2>3. WaitsOK'
    BY <1>7, <2>2 DEF WaitsOK
  <2>4. /\ completeChannel' \in Seq(TaskIds) /\ IsInjective(completeChannel')
        /\ ToSet(completeChannel')
             = IF t \in awaiting THEN ToSet(completeChannel) \cup {t} ELSE ToSet(completeChannel)
    <3>1. CASE t \in awaiting
      <4>1. t \notin ToSet(completeChannel)
        BY <1>7, <3>1 DEF MasterOK, EveryTaskHasARelease
      <4> QED BY <1>3, <1>7, <2>2, <3>1, <4>1, Appended DEF MasterOK, ChannelsOK, EveryTaskHasARelease
    <3>2. CASE t \notin awaiting
      BY <1>7, <2>2, <3>2 DEF MasterOK, ChannelsOK, EveryTaskHasARelease
    <3> QED BY <3>1, <3>2
  <2>5. EveryTaskHasARelease'
    BY <1>2, <1>7, <2>2, <2>4 DEF MasterOK, EveryTaskHasARelease, HeldIds
  <2>6. MasterOK'
    BY <1>2, <1>7, <2>1, <2>4, <2>5 DEF MasterOK, ChannelsOK, TaskMapExact, HeldIds
  <2>7. TasksOK'
    <3> SUFFICES ASSUME NEW u \in TaskIds PROVE OneStage(u)' /\ Placed(u)'
      BY DEF TasksOK
    <3>1. OneStage(u) /\ Placed(u)
      BY DEF IInv, TasksOK
    <3> USE DEF OneStage, Placed, New, Asking, Asked, Queued, Answered, Running, Reported, Refused
    <3>2. CASE u = t
      BY <1>1, <1>2, <1>3, <1>4, <1>5, <1>9, <2>1, <2>2, <3>2
    <3>3. CASE u # t
      BY <1>1, <1>2, <1>3, <2>1, <2>2, <3>1, <3>3
    <3> QED BY <3>2, <3>3
  <2> QED BY <1>1, <1>6, <2>3, <2>6, <2>7 DEF IInv
<1> QED BY <1>5, <1>8, <1>9

LEMMA MasterTimeoutInv ==
  ASSUME IInv, NEW t \in TaskIds, MasterTimeout(t)
  PROVE  IInv'
<1>1. WorkersOK' /\ UNCHANGED <<alive, client, entries>>
  BY WorkersUntouched DEF IInv, MasterTimeout
<1>2. /\ t \in awaiting /\ awaiting' = awaiting \ {t}
      /\ timeoutChannel' = Append(timeoutChannel, t)
      /\ UNCHANGED <<subscriptions, toMaster, toWorker, pc, scheduler, taskMap, enqueueChannel,
                     completeChannel>>
  BY DEF MasterTimeout, TimerFires, pipeVars, loopVars
<1>3. MasterOK /\ WaitsOK
  BY DEF IInv
<1>4. t \notin ToSet(timeoutChannel)
  BY <1>2, <1>3 DEF MasterOK, EveryTaskHasARelease
<1>5. /\ timeoutChannel' \in Seq(TaskIds) /\ IsInjective(timeoutChannel')
      /\ ToSet(timeoutChannel') = ToSet(timeoutChannel) \cup {t}
  BY <1>2, <1>3, <1>4, Appended DEF MasterOK, ChannelsOK, EveryTaskHasARelease
<1>6. EveryTaskHasARelease'
  BY <1>2, <1>3, <1>5 DEF MasterOK, EveryTaskHasARelease, HeldIds
<1>7. MasterOK' /\ WaitsOK'
  BY <1>2, <1>3, <1>5, <1>6 DEF MasterOK, WaitsOK, ChannelsOK, TaskMapExact, HeldIds
<1>8. PipesOK' /\ DeadGetNothing'
  BY <1>1, <1>2 DEF IInv, PipesOK, DeadGetNothing
<1>9. TasksOK'
  BY <1>1, <1>2
     DEF IInv, TasksOK, OneStage, Placed, New, Asking, Asked, Queued, Answered, Running, Reported, Refused
<1> QED BY <1>1, <1>7, <1>8, <1>9 DEF IInv

\* send(): a living worker has one more message, of a dead one the pipe stays.
LEMMA SendAdds ==
  ASSUME PipeOK(toWorker, ToWorkerMessages), DeadGetNothing, UNCHANGED alive,
         NEW t \in TaskIds, NEW type \in {"READY", "REJECT"}, ~ Posted(toWorker, type, t),
         Send(WorkerOf[t], type, t)
  PROVE  /\ PipeOK(toWorker', ToWorkerMessages)
         /\ DeadGetNothing'
         /\ \A u \in TaskIds : \A k :
              Posted(toWorker', k, u)
                <=> Posted(toWorker, k, u) \/ (u = t /\ k = type /\ WorkerOf[t] \in alive)
<1> USE TasksAssumption
<1>1. CASE WorkerOf[t] \in alive
  <2> DEFINE more == Post(toWorker, WorkerOf[t], type, t)
  <2>1. toWorker' = more
    BY <1>1 DEF Send
  <2>2. [type |-> type, task |-> t] \in ToWorkerMessages
    BY DEF ToWorkerMessages, Message
  <2>3. /\ PipeOK(more, ToWorkerMessages)
        /\ \A u \in TaskIds : \A k :
             Posted(more, k, u) <=> Posted(toWorker, k, u) \/ (u = t /\ k = type)
        /\ \A w \in Workers : w # WorkerOf[t] => more[w] = toWorker[w]
    BY <2>2, PostAdds
  <2> HIDE DEF more
  <2> QED BY <1>1, <2>1, <2>3 DEF DeadGetNothing
<1>2. CASE WorkerOf[t] \notin alive
  BY <1>2 DEF Send, DeadGetNothing
<1> QED BY <1>1, <1>2

LEMMA TakeEnqueueInv ==
  ASSUME IInv, TakeEnqueue
  PROVE  IInv'
<1> USE TasksAssumption
<1> DEFINE t == Head(enqueueChannel)
<1>1. WorkersOK' /\ UNCHANGED <<alive, client, entries>>
  BY WorkersUntouched DEF IInv, TakeEnqueue
<1>2. MasterOK /\ WaitsOK /\ PipesOK /\ DeadGetNothing
  BY DEF IInv
<1>3. /\ enqueueChannel # <<>> /\ enqueueChannel' = Tail(enqueueChannel)
      /\ pc' = "drain"
      /\ UNCHANGED <<toMaster, completeChannel, timeoutChannel>>
  BY DEF TakeEnqueue
<1>4. /\ t \in TaskIds /\ t \in ToSet(enqueueChannel)
      /\ enqueueChannel' \in Seq(TaskIds) /\ IsInjective(enqueueChannel')
      /\ ToSet(enqueueChannel') = ToSet(enqueueChannel) \ {t}
  BY <1>2, <1>3, HeadTaken DEF MasterOK, ChannelsOK
<1>5. OneStage(t) /\ Placed(t) /\ Asked(t) /\ t \notin Held(scheduler) /\ t \notin subscriptions
  BY <1>4 DEF IInv, TasksOK, Asked, Placed
<1>6. CASE SchedulerExceeds(scheduler, SourceOf[t])
  <2>1. Send(WorkerOf[t], "REJECT", t) /\ UNCHANGED <<scheduler, taskMap, subscriptions, awaiting>>
    BY <1>6 DEF TakeEnqueue, waitVars
  <2> HIDE DEF t
  <2>2. ~ Posted(toWorker, "REJECT", t)
    BY <1>5 DEF OneStage, Refused
  <2>3. /\ PipeOK(toWorker', ToWorkerMessages)
        /\ DeadGetNothing'
        /\ \A u \in TaskIds : \A k :
             Posted(toWorker', k, u)
               <=> Posted(toWorker, k, u) \/ (u = t /\ k = "REJECT" /\ WorkerOf[t] \in alive)
    BY <1>1, <1>2, <1>4, <2>1, <2>2, SendAdds DEF PipesOK
  <2>4. PipesOK'
    BY <1>2, <1>3, <2>3 DEF PipesOK
  <2>5. MasterOK' /\ WaitsOK'
    BY <1>2, <1>3, <1>4, <2>1
       DEF MasterOK, WaitsOK, TaskMapExact, EveryTaskHasARelease, HeldIds, ChannelsOK
  <2>6. TasksOK'
    <3> SUFFICES ASSUME NEW u \in TaskIds PROVE OneStage(u)' /\ Placed(u)'
      BY DEF TasksOK
    <3>1. OneStage(u) /\ Placed(u)
      BY DEF IInv, TasksOK
    <3> USE DEF OneStage, Placed, New, Asking, Asked, Queued, Answered, Running, Reported, Refused
    <3>2. CASE u = t
      BY <1>1, <1>3, <1>4, <1>5, <2>1, <2>3, <3>2
    <3>3. CASE u # t
      BY <1>1, <1>3, <1>4, <2>1, <2>3, <3>1, <3>3
    <3> QED BY <3>2, <3>3
  <2> QED BY <1>1, <2>3, <2>4, <2>5, <2>6 DEF IInv
<1>7. CASE ~ SchedulerExceeds(scheduler, SourceOf[t])
  <2>1. /\ scheduler' = SchedulerSchedule(scheduler, SourceOf[t], t)
        /\ taskMap' = taskMap \cup {t}
        /\ subscriptions' = subscriptions \cup {t}
        /\ awaiting' = awaiting \cup {t}
        /\ toWorker' = toWorker
    BY <1>7 DEF TakeEnqueue
  <2> HIDE DEF t
  <2>2. SourceOf[t] \in Sources
    BY <1>4
  <2>3. /\ SchedulerOK(scheduler')
        /\ Held(scheduler') = Held(scheduler) \cup {t}
        /\ Started(scheduler') = Started(scheduler)
    BY <1>2, <1>4, <1>5, <2>1, <2>2, ScheduleAdds DEF MasterOK
  <2>4. HeldIds = Held(scheduler) /\ HeldIds' = Held(scheduler')
    BY DEF HeldIds, Held
  <2>5. TaskMapExact' /\ EveryTaskHasARelease'
    BY <1>2, <1>3, <1>5, <2>1, <2>3, <2>4 DEF MasterOK, TaskMapExact, EveryTaskHasARelease
  <2>6. MasterOK' /\ WaitsOK'
    BY <1>2, <1>3, <1>4, <2>1, <2>3, <2>5 DEF MasterOK, WaitsOK, ChannelsOK
  <2>7. PipesOK' /\ DeadGetNothing'
    BY <1>1, <1>2, <1>3, <2>1 DEF PipesOK, DeadGetNothing
  <2>8. TasksOK'
    <3> SUFFICES ASSUME NEW u \in TaskIds PROVE OneStage(u)' /\ Placed(u)'
      BY DEF TasksOK
    <3>1. OneStage(u) /\ Placed(u)
      BY DEF IInv, TasksOK
    <3> USE DEF OneStage, Placed, New, Asking, Asked, Queued, Answered, Running, Reported, Refused
    <3>2. CASE u = t
      BY <1>1, <1>3, <1>4, <1>5, <2>1, <2>3, <3>2
    <3>3. CASE u # t
      BY <1>1, <1>3, <1>4, <2>1, <2>3, <3>1, <3>3
    <3> QED BY <3>2, <3>3
  <2> QED BY <1>1, <2>6, <2>7, <2>8 DEF IInv
<1> QED BY <1>6, <1>7

\* Release of a task the scheduler holds: it does not throw, and no other task
\* notices.
LEMMA ReleaseFrees ==
  ASSUME MasterOK, NEW t \in HeldIds, Release(t)
  PROVE  /\ pc' = "drain" /\ taskMap' = taskMap \ {t}
         /\ SchedulerOK(scheduler')
         /\ Held(scheduler') = Held(scheduler) \ {t}
         /\ scheduler'.started \subseteq scheduler.started
         /\ Started(scheduler') = Started(scheduler) \ {t}
<1>1. SchedulerOK(scheduler) /\ t \in Held(scheduler)
  BY DEF MasterOK, HeldIds, Held
<1>2. ~ SchedulerThrows(scheduler, t)
  BY <1>1, NoThrow
<1>3. PICK d \in Durations : scheduler' = SchedulerComplete(scheduler, t, d)
  BY <1>2 DEF Release
<1> QED BY <1>1, <1>2, <1>3, CompleteRemoves DEF Release

\* A released task leaves the stages as they are, except that it may have been queued.
LEMMA ReleaseTasks ==
  ASSUME TasksOK, NEW t,
         UNCHANGED <<alive, client, entries, toMaster, toWorker, subscriptions, enqueueChannel>>,
         Held(scheduler') = Held(scheduler) \ {t},
         Started(scheduler') = Started(scheduler) \ {t}
  PROVE  TasksOK'
<1> SUFFICES ASSUME NEW u \in TaskIds PROVE OneStage(u)' /\ Placed(u)'
  BY DEF TasksOK
<1>1. OneStage(u) /\ Placed(u)
  BY DEF TasksOK
<1> QED BY <1>1
    DEF OneStage, Placed, New, Asking, Asked, Queued, Answered, Running, Reported, Refused

LEMMA TakeCompleteInv ==
  ASSUME IInv, TakeComplete
  PROVE  IInv'
<1> DEFINE t == Head(completeChannel)
<1>1. WorkersOK' /\ UNCHANGED <<alive, client, entries>>
  BY WorkersUntouched DEF IInv, TakeComplete
<1>2. MasterOK /\ WaitsOK /\ PipesOK /\ DeadGetNothing /\ TasksOK
  BY DEF IInv
<1>3. /\ completeChannel # <<>> /\ completeChannel' = Tail(completeChannel) /\ Release(t)
      /\ UNCHANGED <<toMaster, toWorker, subscriptions, awaiting, enqueueChannel, timeoutChannel>>
  BY DEF TakeComplete, pipeVars, waitVars
<1>4. /\ t \in TaskIds /\ t \in ToSet(completeChannel)
      /\ completeChannel' \in Seq(TaskIds) /\ IsInjective(completeChannel')
      /\ ToSet(completeChannel') = ToSet(completeChannel) \ {t}
  BY <1>2, <1>3, HeadTaken DEF MasterOK, ChannelsOK, EveryTaskHasARelease
<1> HIDE DEF t
<1>5. t \in HeldIds
  BY <1>2, <1>4 DEF MasterOK, EveryTaskHasARelease
<1>6. /\ pc' = "drain" /\ taskMap' = taskMap \ {t}
      /\ SchedulerOK(scheduler')
      /\ Held(scheduler') = Held(scheduler) \ {t}
      /\ Started(scheduler') = Started(scheduler) \ {t}
  BY <1>2, <1>3, <1>5, ReleaseFrees
<1>7. HeldIds = Held(scheduler) /\ HeldIds' = Held(scheduler')
  BY DEF HeldIds, Held
<1>8. TaskMapExact' /\ EveryTaskHasARelease'
  BY <1>2, <1>3, <1>4, <1>6, <1>7 DEF MasterOK, TaskMapExact, EveryTaskHasARelease
<1>9. MasterOK' /\ WaitsOK'
  BY <1>2, <1>3, <1>4, <1>6, <1>8 DEF MasterOK, WaitsOK, ChannelsOK
<1>10. PipesOK' /\ DeadGetNothing'
  BY <1>1, <1>2, <1>3 DEF PipesOK, DeadGetNothing
<1>11. TasksOK'
  BY <1>1, <1>2, <1>3, <1>6, ReleaseTasks
<1> QED BY <1>1, <1>9, <1>10, <1>11 DEF IInv

LEMMA TakeTimeoutInv ==
  ASSUME IInv, TakeTimeout
  PROVE  IInv'
<1> DEFINE t == Head(timeoutChannel)
<1>1. WorkersOK' /\ UNCHANGED <<alive, client, entries>>
  BY WorkersUntouched DEF IInv, TakeTimeout
<1>2. MasterOK /\ WaitsOK /\ PipesOK /\ DeadGetNothing /\ TasksOK
  BY DEF IInv
<1>3. /\ timeoutChannel # <<>> /\ timeoutChannel' = Tail(timeoutChannel) /\ Release(t)
      /\ UNCHANGED <<toMaster, toWorker, subscriptions, awaiting, enqueueChannel, completeChannel>>
  BY DEF TakeTimeout, pipeVars, waitVars
<1>4. /\ t \in TaskIds /\ t \in ToSet(timeoutChannel)
      /\ timeoutChannel' \in Seq(TaskIds) /\ IsInjective(timeoutChannel')
      /\ ToSet(timeoutChannel') = ToSet(timeoutChannel) \ {t}
  BY <1>2, <1>3, HeadTaken DEF MasterOK, ChannelsOK, EveryTaskHasARelease
<1> HIDE DEF t
<1>5. t \in HeldIds
  BY <1>2, <1>4 DEF MasterOK, EveryTaskHasARelease
<1>6. /\ pc' = "drain" /\ taskMap' = taskMap \ {t}
      /\ SchedulerOK(scheduler')
      /\ Held(scheduler') = Held(scheduler) \ {t}
      /\ Started(scheduler') = Started(scheduler) \ {t}
  BY <1>2, <1>3, <1>5, ReleaseFrees
<1>7. HeldIds = Held(scheduler) /\ HeldIds' = Held(scheduler')
  BY DEF HeldIds, Held
<1>8. TaskMapExact' /\ EveryTaskHasARelease'
  BY <1>2, <1>3, <1>4, <1>6, <1>7 DEF MasterOK, TaskMapExact, EveryTaskHasARelease
<1>9. MasterOK' /\ WaitsOK'
  BY <1>2, <1>3, <1>4, <1>6, <1>8 DEF MasterOK, WaitsOK, ChannelsOK
<1>10. PipesOK' /\ DeadGetNothing'
  BY <1>1, <1>2, <1>3 DEF PipesOK, DeadGetNothing
<1>11. TasksOK'
  BY <1>1, <1>2, <1>3, <1>6, ReleaseTasks
<1> QED BY <1>1, <1>9, <1>10, <1>11 DEF IInv

LEMMA RunTaskInv ==
  ASSUME IInv, RunTask
  PROVE  IInv'
<1> USE TasksAssumption
<1>1. WorkersOK' /\ UNCHANGED <<alive, client, entries>>
  BY WorkersUntouched DEF IInv, RunTask
<1>2. MasterOK /\ WaitsOK /\ PipesOK /\ DeadGetNothing
  BY DEF IInv
<1>3. PICK task \in SchedulerRunnable(scheduler) :
        /\ scheduler' = SchedulerRun(scheduler, task)
        /\ IF task.id \in taskMap
           THEN Send(WorkerOf[task.id], "READY", task.id) /\ UNCHANGED pc
           ELSE pc' = "dead" /\ UNCHANGED toWorker
  BY DEF RunTask
<1>4. UNCHANGED <<toMaster, taskMap, subscriptions, awaiting, enqueueChannel, completeChannel,
                  timeoutChannel>>
  BY DEF RunTask, waitVars, chanVars
<1>5. task \in Elements(scheduler.tasks) /\ task.id \in Held(scheduler) \ Started(scheduler)
  BY <1>2, RunnableIsQueued DEF MasterOK
<1>6. HeldIds = Held(scheduler) /\ HeldIds' = Held(scheduler')
  BY DEF HeldIds, Held
<1>7. PICK t \in TaskIds : t = task.id
  BY <1>2, <1>5, <1>6 DEF MasterOK, TaskMapExact
<1>8. Send(WorkerOf[t], "READY", t) /\ pc' = pc
  BY <1>2, <1>3, <1>5, <1>6, <1>7 DEF MasterOK, TaskMapExact
<1>9. /\ SchedulerOK(scheduler')
      /\ Held(scheduler') = Held(scheduler)
      /\ Started(scheduler') = Started(scheduler) \cup {t}
  BY <1>2, <1>3, <1>5, <1>7, RunStarts DEF MasterOK
<1>10. Queued(t) /\ OneStage(t) /\ Placed(t)
  BY <1>5, <1>7 DEF Queued, IInv, TasksOK
<1>11. ~ Posted(toWorker, "READY", t)
  BY <1>10 DEF OneStage, Answered
<1>12. /\ PipeOK(toWorker', ToWorkerMessages)
       /\ DeadGetNothing'
       /\ \A u \in TaskIds : \A k :
            Posted(toWorker', k, u)
              <=> Posted(toWorker, k, u) \/ (u = t /\ k = "READY" /\ WorkerOf[t] \in alive)
  BY <1>1, <1>2, <1>8, <1>11, SendAdds DEF PipesOK
<1>13. PipesOK'
  BY <1>2, <1>4, <1>12 DEF PipesOK
<1>14. MasterOK' /\ WaitsOK'
  BY <1>2, <1>4, <1>6, <1>8, <1>9
     DEF MasterOK, WaitsOK, TaskMapExact, EveryTaskHasARelease, ChannelsOK
<1>15. TasksOK'
  <2> SUFFICES ASSUME NEW u \in TaskIds PROVE OneStage(u)' /\ Placed(u)'
    BY DEF TasksOK
  <2>1. OneStage(u) /\ Placed(u)
    BY DEF IInv, TasksOK
  <2> USE DEF OneStage, Placed, New, Asking, Asked, Queued, Answered, Running, Reported, Refused
  <2>2. CASE u = t
    BY <1>1, <1>4, <1>9, <1>10, <1>12, <2>2
  <2>3. CASE u # t
    BY <1>1, <1>4, <1>9, <1>12, <2>1, <2>3
  <2> QED BY <2>2, <2>3
<1> QED BY <1>1, <1>12, <1>13, <1>14, <1>15 DEF IInv

LEMMA StutterInv ==
  ASSUME IInv, Drained \/ Quiet \/ UNCHANGED vars
  PROVE  IInv'
<1>1. /\ UNCHANGED <<workerVars, pipeVars, scheduler, taskMap, waitVars, chanVars>>
      /\ pc' \in {pc, "select"}
  BY DEF Drained, Quiet, vars, loopVars
<1>2. UNCHANGED <<alive, client, entries, toMaster, toWorker, scheduler, taskMap, subscriptions,
                  awaiting, enqueueChannel, completeChannel, timeoutChannel>>
  BY <1>1 DEF workerVars, pipeVars, waitVars, chanVars
<1>3. MasterOK'
  BY <1>1, <1>2 DEF IInv, MasterOK, TaskMapExact, EveryTaskHasARelease, HeldIds, ChannelsOK
<1>4. TasksOK'
  BY <1>2 DEF IInv, TasksOK, OneStage, Placed, New, Asking, Asked, Queued, Answered, Running,
              Reported, Refused
<1> QED BY <1>2, <1>3, <1>4 DEF IInv, WorkersOK, WaitsOK, PipesOK, DeadGetNothing

THEOREM InvHolds == Spec => []IInv
<1>1. ASSUME IInv, [Next /\ UNCHANGED reliable]_<<reliable, vars>>
      PROVE  IInv'
  <2>1. CASE Next
    BY <1>1, <2>1, ScheduleInv, ClientTimeoutInv, ReceiveAnswerInv, FinishInv, CrashInv,
       DispatchInv, MasterTimeoutInv, TakeEnqueueInv, TakeCompleteInv, TakeTimeoutInv, RunTaskInv,
       StutterInv DEF Next
  <2>2. CASE UNCHANGED <<reliable, vars>>
    BY <1>1, <2>2, StutterInv
  <2> QED BY <1>1, <2>1, <2>2
<1> QED BY InitInv, <1>1, PTL DEF Spec

-----------------------------------------------------------------------------
\* The properties

\* The state of the scheduler keeps its type: every message is to or from the
\* worker it concerns, and the master's tables hold tasks.
LEMMA TypeFromInv ==
  ASSUME IInv
  PROVE  TypeOK
<1>1. \A w \in Workers : /\ ToSet(toMaster[w]) \subseteq ToMasterMessages
                         /\ ToSet(toWorker[w]) \subseteq ToWorkerMessages
  <2> SUFFICES ASSUME NEW w \in Workers
               PROVE  /\ ToSet(toMaster[w]) \subseteq ToMasterMessages
                      /\ ToSet(toWorker[w]) \subseteq ToWorkerMessages
    OBVIOUS
  <2>1. toMaster[w] \in Seq(ToMasterMessages) /\ toWorker[w] \in Seq(ToWorkerMessages)
    BY DEF IInv, PipesOK, PipeOK
  <2> QED BY <2>1 DEF ToSet
<1>2. /\ ToMasterMessages = Message("ENQUEUE") \cup Message("COMPLETE")
      /\ ToWorkerMessages = Message("READY") \cup Message("REJECT")
  BY DEF ToMasterMessages, ToWorkerMessages
<1>3. pc \in {"select", "drain", "dead"} /\ taskMap \subseteq TaskIds
  BY DEF IInv, MasterOK
<1>4. UNION {entries, taskMap, subscriptions, awaiting} \subseteq TaskIds
  BY <1>3 DEF IInv, WorkersOK, WaitsOK
<1> QED BY <1>1, <1>2, <1>3, <1>4 DEF TypeOK, IInv, WorkersOK, WaitsOK

\* MasterAlive, for all options and any course of events: neither the race of
\* a worker's answer with the timer, nor a death, nor a message that comes
\* late makes the loop throw.
THEOREM MasterStaysAlive == Spec => []MasterAlive
<1>1. IInv => MasterAlive
  BY DEF IInv, MasterOK, MasterAlive
<1> QED BY <1>1, InvHolds, PTL

\* TasksAreTracked: taskMap, the scheduler object, the pending receiveOnce
\* calls and the two channels agree about every task at any time.
THEOREM TasksStayTracked == Spec => []TasksAreTracked
<1>1. IInv => TasksAreTracked
  BY TypeFromInv DEF IInv, MasterOK, TasksAreTracked
<1> QED BY <1>1, InvHolds, PTL

\* MessagesExpected: every message that arrives has its subscription or its
\* descriptor, and a task is answered once at most.
THEOREM MessagesAreExpected == Spec => []MessagesExpected
<1>1. ASSUME IInv, NEW w \in Workers
      PROVE  /\ InFlight(w, "COMPLETE") \subseteq subscriptions
             /\ InFlight(w, "READY") \cup InFlight(w, "REJECT") \subseteq entries
             /\ \A i, j \in DOMAIN toWorker[w] : toWorker[w][i].task = toWorker[w][j].task => i = j
  <2>1. /\ PipeOK(toMaster, ToMasterMessages) /\ PipeOK(toWorker, ToWorkerMessages)
        /\ toMaster[w] \in Seq(ToMasterMessages) /\ toWorker[w] \in Seq(ToWorkerMessages)
    BY <1>1 DEF IInv, PipesOK, PipeOK
  <2>2. ASSUME NEW m \in ToSet(toMaster[w])
        PROVE  /\ m.type \in {"ENQUEUE", "COMPLETE"} /\ m.task \in TaskIds
               /\ Posted(toMaster, m.type, m.task)
    <3>1. m \in ToMasterMessages
      BY <2>1 DEF ToSet
    <3>2. WorkerOf[m.task] = w
      BY <2>1 DEF PipeOK
    <3> QED BY <3>1, <3>2, MessageShape DEF Posted, ToMasterMessages, Message
  <2>3. ASSUME NEW m \in ToSet(toWorker[w])
        PROVE  /\ m.type \in {"READY", "REJECT"} /\ m.task \in TaskIds
               /\ m = [type |-> m.type, task |-> m.task]
               /\ WorkerOf[m.task] = w /\ Posted(toWorker, m.type, m.task)
    <3>1. m \in ToWorkerMessages
      BY <2>1 DEF ToSet
    <3>2. WorkerOf[m.task] = w
      BY <2>1 DEF PipeOK
    <3> QED BY <3>1, <3>2, MessageShape DEF Posted, ToWorkerMessages, Message
  <2>4. \A t \in TaskIds : OneStage(t) /\ Placed(t)
    BY <1>1 DEF IInv, TasksOK
  <2>5. InFlight(w, "COMPLETE") \subseteq subscriptions
    BY <2>2, <2>3, <2>4 DEF InFlight, Placed, Reported
  <2>6. InFlight(w, "READY") \cup InFlight(w, "REJECT") \subseteq entries
    <3>1. \A m \in ToSet(toWorker[w]) : w \in alive
      BY <1>1 DEF IInv, DeadGetNothing, ToSet
    <3> QED BY <2>2, <2>3, <2>4, <3>1 DEF InFlight, Placed, Answered, Refused
  <2>7. ASSUME NEW i \in DOMAIN toWorker[w], NEW j \in DOMAIN toWorker[w],
               toWorker[w][i].task = toWorker[w][j].task
        PROVE  i = j
    <3>1. toWorker[w][i] \in ToSet(toWorker[w]) /\ toWorker[w][j] \in ToSet(toWorker[w])
      BY DEF ToSet
    <3>2. toWorker[w][i].type = toWorker[w][j].type
      BY <2>3, <2>4, <2>7, <3>1 DEF OneStage, Answered, Refused
    <3>3. toWorker[w][i] = toWorker[w][j]
      BY <2>3, <2>7, <3>1, <3>2
    <3> QED BY <2>1, <3>3 DEF PipeOK, IsInjective
  <2> QED BY <2>5, <2>6, <2>7
<1>2. IInv => MessagesExpected
  BY <1>1 DEF MessagesExpected
<1> QED BY <1>2, InvHolds, PTL

\* The limits of a scheduler object hold when no more is started.
LEMMA FewerStarted ==
  ASSUME NEW s, SchedulerOK(s), WithinLimits(s), NEW r, r.started \subseteq s.started
  PROVE  WithinLimits(r)
<1>1. Cardinality(s.started) \in Nat /\ Cardinality(r.started) \in Nat
      /\ Cardinality(r.started) <= Cardinality(s.started)
  BY StartedFinite, FS_Subset, FS_CardinalityType
<1>2. ASSUME NEW source \in Sources
      PROVE  Cardinality(StartedOf(r, source)) <= SlotsPerSource
  <2>1. StartedOf(r, source) \in SUBSET StartedOf(s, source)
    BY DEF StartedOf
  <2>2. /\ IsFiniteSet(StartedOf(s, source)) /\ Cardinality(StartedOf(s, source)) \in Nat
        /\ Cardinality(StartedOf(s, source)) <= SlotsPerSource
    BY StartedFinite DEF WithinLimits
  <2>3. /\ Cardinality(StartedOf(r, source)) \in Nat
        /\ Cardinality(StartedOf(r, source)) <= Cardinality(StartedOf(s, source))
    BY <2>1, <2>2, FS_Subset, FS_CardinalityType
  <2> QED BY <2>2, <2>3, SchedulerOptionsAssumption
<1> QED BY <1>1, <1>2, SchedulerOptionsAssumption DEF WithinLimits

\* One more fits where there is room.
LEMMA OneMoreFits ==
  ASSUME NEW S, IsFiniteSet(S), NEW x, NEW limit \in Nat, Cardinality(S) < limit
  PROVE  Cardinality(S \cup {x}) <= limit
<1>1. Cardinality(S) \in Nat
  BY FS_CardinalityType
<1>2. Cardinality(S \cup {x}) = IF x \in S THEN Cardinality(S) ELSE Cardinality(S) + 1
  BY FS_AddElement
<1> QED BY <1>1, <1>2

\* runTask keeps the limits.
LEMMA RunKeepsLimits ==
  ASSUME NEW s, SchedulerOK(s), WithinLimits(s), NEW task \in SchedulerRunnable(s)
  PROVE  WithinLimits(SchedulerRun(s, task))
<1> USE SchedulerOptionsAssumption
<1> DEFINE r == SchedulerRun(s, task)
<1>1. r.started = s.started \cup {task}
  BY RunnableIsQueued, RunStarts
<1> HIDE DEF r
<1>2. Cardinality(s.started) < Slots /\ Cardinality(StartedOf(s, task.source)) < SlotsPerSource
  BY RunnableHasRoom
<1>3. Cardinality(r.started) <= Slots
  BY <1>1, <1>2, StartedFinite, OneMoreFits
<1>4. ASSUME NEW source \in Sources
      PROVE  Cardinality(StartedOf(r, source)) <= SlotsPerSource
  <2>1. CASE source = task.source
    <3>1. StartedOf(r, source) = StartedOf(s, source) \cup {task}
      BY <1>1, <2>1 DEF StartedOf
    <3> QED BY <1>2, <2>1, <3>1, StartedFinite, OneMoreFits
  <2>2. CASE source # task.source
    <3>1. StartedOf(r, source) = StartedOf(s, source)
      BY <1>1, <2>2 DEF StartedOf
    <3> QED BY <3>1 DEF WithinLimits
  <2> QED BY <2>1, <2>2
<1> QED BY <1>3, <1>4 DEF WithinLimits, r

\* The scheduler object, of either class, keeps its limits: runTask is only
\* called while canRunTask says so, and nothing else starts a task.
THEOREM LimitsStay == Spec => [](IInv /\ WithinLimits(scheduler))
<1>1. Init => WithinLimits(scheduler)
  <2> SUFFICES ASSUME Init PROVE WithinLimits(scheduler)
    OBVIOUS
  <2>1. scheduler.started = {}
    BY DEF Init, NewSchedulers, Query!NewScheduler, Connection!NewScheduler
  <2>2. \A source : StartedOf(scheduler, source) = {}
    BY <2>1 DEF StartedOf
  <2> QED BY <2>1, <2>2, FS_EmptySet, SchedulerOptionsAssumption DEF WithinLimits
<1>2. ASSUME IInv, WithinLimits(scheduler), [Next /\ UNCHANGED reliable]_<<reliable, vars>>
      PROVE  WithinLimits(scheduler')
  <2>1. SchedulerOK(scheduler) /\ MasterOK
    BY <1>2 DEF IInv, MasterOK
  <2>2. CASE scheduler'.started \subseteq scheduler.started
    BY <1>2, <2>1, <2>2, FewerStarted
  <2>3. CASE TakeEnqueue
    <3> DEFINE t == Head(enqueueChannel)
    <3>1. t \in TaskIds /\ t \in ToSet(enqueueChannel)
      BY <2>1, <2>3, HeadTaken DEF MasterOK, ChannelsOK, TakeEnqueue
    <3>2. t \notin Held(scheduler)
      BY <1>2, <3>1 DEF IInv, TasksOK, Placed, Asked
    <3>3. scheduler' \in {scheduler, SchedulerSchedule(scheduler, SourceOf[t], t)}
      BY <2>3 DEF TakeEnqueue
    <3> HIDE DEF t
    <3>4. scheduler'.started = scheduler.started
      BY <2>1, <3>1, <3>2, <3>3, ScheduleAdds
    <3> QED BY <2>2, <3>4
  <2>4. CASE TakeComplete
    <3>1. Head(completeChannel) \in HeldIds /\ Release(Head(completeChannel))
      BY <2>1, <2>4, HeadTaken DEF MasterOK, ChannelsOK, EveryTaskHasARelease, TakeComplete
    <3> QED BY <2>1, <2>2, <3>1, ReleaseFrees
  <2>5. CASE TakeTimeout
    <3>1. Head(timeoutChannel) \in HeldIds /\ Release(Head(timeoutChannel))
      BY <2>1, <2>5, HeadTaken DEF MasterOK, ChannelsOK, EveryTaskHasARelease, TakeTimeout
    <3> QED BY <2>1, <2>2, <3>1, ReleaseFrees
  <2>6. CASE RunTask
    BY <1>2, <2>1, <2>6, RunKeepsLimits DEF RunTask
  <2>7. CASE UNCHANGED scheduler
    BY <1>2, <2>7
  <2>8. UNCHANGED scheduler \/ TakeEnqueue \/ TakeComplete \/ TakeTimeout \/ RunTask
    BY <1>2 DEF Next, Schedule, ClientTimeout, ReceiveAnswer, Finish, Crash, Dispatch, MasterTimeout,
                Drained, Quiet, loopVars, vars
  <2> QED BY <2>3, <2>4, <2>5, <2>6, <2>7, <2>8
<1>3. IInv /\ WithinLimits(scheduler) /\ [Next /\ UNCHANGED reliable]_<<reliable, vars>>
        => WithinLimits(scheduler)'
  BY <1>2
<1> QED BY <1>1, <1>3, InvHolds, PTL DEF Spec

\* RunningIsAccounted: what runs in the workers is counted by the scheduler
\* object, unless the master has given it up, and so the workers together
\* keep to the slots and to the share of each client.
THEOREM RunningStaysAccounted == Spec => []RunningIsAccounted
<1>1. ASSUME IInv, NEW t \in InUse
      PROVE  t \in TaskIds /\ t \in Started(scheduler)
  <2>1. t \in TaskIds /\ OneStage(t) /\ Placed(t) /\ Running(t) /\ t \notin GivenUp
    BY <1>1 DEF IInv, TasksOK, Running, InUse
  <2>2. t \in awaiting
    BY <1>1, <2>1 DEF Placed, GivenUp
  <2>3. t \in HeldIds
    BY <1>1, <2>2 DEF IInv, MasterOK, EveryTaskHasARelease
  <2>4. HeldIds = Held(scheduler)
    BY DEF HeldIds, Held
  <2> QED BY <2>1, <2>3, <2>4 DEF OneStage, Queued, Started
<1>2. ASSUME IInv, WithinLimits(scheduler), NEW S \in SUBSET scheduler.started,
             NEW T \in SUBSET {x.id : x \in S}, NEW limit \in Nat, Cardinality(S) <= limit
      PROVE  Cardinality(T) <= limit
  <2>1. IsFiniteSet(S)
    BY <1>2, StartedFinite, FS_Subset DEF IInv, MasterOK
  <2>2. IsFiniteSet({x.id : x \in S})
    BY <2>1, IdsCount
  <2>3. Cardinality(T) <= Cardinality({x.id : x \in S}) /\ Cardinality(T) \in Nat
    BY <2>2, FS_Subset, FS_CardinalityType
  <2> QED BY <1>2, <2>1, <2>3, IdsCount, FS_CardinalityType
<1>3. ASSUME IInv, WithinLimits(scheduler)
      PROVE  RunningIsAccounted
  <2>1. InUse \subseteq Started(scheduler)
    BY <1>1, <1>3
  <2>2. Cardinality(InUse) <= Slots
    BY <1>2, <1>3, <2>1, SchedulerOptionsAssumption DEF Started, WithinLimits
  <2>3. ASSUME NEW source \in Sources
        PROVE  Cardinality({t \in InUse : SourceOf[t] = source}) <= SlotsPerSource
    <3>1. StartedOf(scheduler, source) \in SUBSET scheduler.started
      BY DEF StartedOf
    <3>2. {t \in InUse : SourceOf[t] = source} \subseteq {x.id : x \in StartedOf(scheduler, source)}
      BY <1>3, <2>1 DEF Started, StartedOf, IInv, MasterOK, SchedulerOK
    <3> QED BY <1>2, <1>3, <3>1, <3>2, SchedulerOptionsAssumption DEF WithinLimits
  <2> QED BY <2>1, <2>2, <2>3 DEF RunningIsAccounted, Started
<1> QED BY <1>3, LimitsStay, PTL

-----------------------------------------------------------------------------
\* Responses: the inductive invariant of the database client.

Places ==
  {"idle", "connect", "acquire", "begin", "declare", "fetch", "put", "putLast", "close",
   "closeAborted", "end", "undo", "reserve", "answer", "done", "threw"}

\* Where a request has no connection, and where it may wait for a query slot.
Outside == {"idle", "connect", "acquire"}
InQuery == {"declare", "fetch", "reserve"}

\* A session of the database has no cursor outside of a transaction.
Sessions == {s \in ConnectionStates : s.tx = "none" => ~ s.cursor}

\* What a request at a place knows of the session of its connection.
SessionAt(place, s) ==
  /\ place \in {"begin", "reserve", "answer", "done"} => s = Fresh
  /\ place = "threw" => Validated(s) = Fresh

ClientTypes ==
  /\ at \in [Requests -> Places]
  /\ held \in [Requests -> Connections \cup {NoConnection}]
  /\ querySlot \in [Requests -> {"none", "queued", "held"}]
  /\ connection \in [Connections -> Sessions]

\* No connection is borrowed twice.
Borrowed ==
  \A q, r \in Requests : q # r /\ held[q] # NoConnection => held[q] # held[r]

\* A request has a connection from "acquire" on, unless that failed.
HeldAt(r) ==
  /\ at[r] \in Outside => held[r] = NoConnection
  /\ at[r] \notin Outside \cup {"threw"} => held[r] # NoConnection
  /\ held[r] # NoConnection => SessionAt(at[r], connection[held[r]])

SlotAt(r) == querySlot[r] # "none" => at[r] \in InQuery

ClientInv ==
  /\ ClientTypes /\ Borrowed /\ CleanInPool
  /\ \A r \in Requests : HeldAt(r) /\ SlotAt(r)

-----------------------------------------------------------------------------
\* The inductive invariant of the stream.

\* The rows after the first m, up to the n-th.
Segment(m, n) == [i \in 1..n - m |-> m + i]

StreamTypes ==
  /\ rows \in [Requests -> 0..MaxRows]
  /\ fetched \in [Requests -> Nat]
  /\ pending \in [Requests -> Seq(Nat)]
  /\ buffer \in [Requests -> Seq(Nat)]
  /\ inHand \in [Requests -> Seq(Nat)]
  /\ closed \in [Requests -> SUBSET {"buffer", "http"}]
  /\ pipeAt \in [Requests -> {"off", "take", "put", "done", "threw"}]
  /\ writerAt \in [Requests -> {"off", "take", "drain", "finish", "done", "threw"}]
  /\ sent \in [Requests -> Seq(Nat)]
  /\ outcome \in [Requests -> {"none", "ended", "error", "destroyed"}]

\* Nothing is kept beyond the capacity of its place.
Bounded(r) ==
  /\ Len(pending[r]) <= FetchSize
  /\ Len(buffer[r]) <= BufferSize
  /\ Len(inHand[r]) <= BatchSize

\* The pipe and the writer run from "begin" or "answer" on, with nothing left over.
RunsAt(r) ==
  /\ pipeAt[r] = "off" <=> writerAt[r] = "off"
  /\ at[r] \in {"idle", "connect", "acquire", "reserve", "answer"} => pipeAt[r] = "off"
  /\ pipeAt[r] = "off" =>
       /\ at[r] \in {"idle", "connect", "acquire", "reserve", "answer", "threw"}
       /\ buffer[r] = <<>> /\ pending[r] = <<>> /\ inHand[r] = <<>> /\ closed[r] = {}
       /\ at[r] # "idle" => sent[r] = <<>>
  /\ at[r] # "idle" /\ r \notin Streaming => rows[r] = 1
  /\ at[r] \in {"reserve", "answer"} => r \notin Streaming

\* What the query process has fetched.
FetchedAt(r) ==
  /\ at[r] \in {"idle", "connect", "acquire", "begin", "declare"} =>
       fetched[r] = 0 /\ buffer[r] = <<>> /\ inHand[r] = <<>> /\ closed[r] = {}
  /\ at[r] \in {"begin", "declare"} => sent[r] = <<>>
  /\ pending[r] # <<>> => at[r] \in {"put", "putLast"}
  /\ at[r] \in {"fetch", "put", "putLast"} => fetched[r] <= rows[r]
  /\ at[r] = "putLast" => fetched[r] = rows[r]
  /\ "buffer" \in closed[r] =>
       at[r] \notin {"reserve", "answer", "begin", "declare", "fetch", "put", "putLast"}

\* How many rows the buffer, the pipe and the writer have seen.
Passed(r) == Len(sent[r]) + Len(inHand[r])
Buffered(r) == Passed(r) + Len(buffer[r])

\* The rows are everywhere in order, one place after the other, as long as
\* nothing has been dropped; and the channels close after the last row.
RowsInOrder(r) ==
  /\ sent[r] = Segment(0, Len(sent[r])) /\ Len(sent[r]) <= rows[r]
  /\ pipeAt[r] = "put" <=> inHand[r] # <<>>
  /\ "http" \in closed[r] => Len(sent[r]) = rows[r] /\ pipeAt[r] \notin {"take", "put"}
  /\ pipeAt[r] \in {"take", "put"} =>
       /\ inHand[r] = Segment(Len(sent[r]), Passed(r))
       /\ buffer[r] = Segment(Passed(r), Buffered(r))
       /\ Buffered(r) <= rows[r]
       /\ "buffer" \in closed[r] => Buffered(r) = rows[r]
       /\ at[r] \in {"fetch", "put", "putLast"} =>
            /\ fetched[r] = Buffered(r) + Len(pending[r])
            /\ pending[r] = Segment(Buffered(r), fetched[r])

\* The response ends when the writer says so.
OutcomeAt(r) ==
  /\ at[r] # "idle" =>
       /\ writerAt[r] \in {"off", "take", "drain"} => outcome[r] = "none"
       /\ writerAt[r] \in {"finish", "done"} => outcome[r] = "ended"
       /\ writerAt[r] = "threw" => outcome[r] \in {"none", "ended"}
  /\ at[r] = "idle" /\ sent[r] # <<>> => outcome[r] # "none"

FlowAt(r) == Bounded(r) /\ RunsAt(r) /\ FetchedAt(r) /\ RowsInOrder(r) /\ OutcomeAt(r)

StreamInv == StreamTypes /\ \A r \in Requests : FlowAt(r)

RequestInv == ClientInv /\ StreamInv
-----------------------------------------------------------------------------
\* What statements make of a session.

LEMMA Statements ==
  ASSUME NEW s \in Sessions, NEW statement, NEW result \in Results(s, statement)
  PROVE  /\ result[1] \in Sessions /\ result[2] \in BOOLEAN
         /\ result[2] /\ statement = "ROLLBACK" => result[1] = Fresh
         /\ result[2] /\ statement = "SELECT" => result[1] = s
         /\ ~ result[2] /\ s = Fresh => Validated(result[1]) = Fresh
         /\ statement = "ROLLBACK" => Validated(result[1]) = Fresh
<1>1. CASE \E after \in Failed(s) : result = <<after, FALSE>>
  <2>1. PICK after \in Failed(s) : result = <<after, FALSE>>
    BY <1>1
  <2>2. result[1] = after /\ result[2] = FALSE
    BY <2>1
  <2> DEFINE stopped == [tx |-> IF s.tx = "none" THEN "none" ELSE "failed",
                         cursor |-> s.cursor /\ s.tx = "none", lost |-> FALSE]
  <2>0. \/ s.lost /\ after = s
        \/ ~ s.lost /\ after = Lost
        \/ ~ s.lost /\ after = stopped
    BY <2>1 DEF Failed
  <2>6. stopped \in Sessions
    <3>1. s.tx \in {"none", "open", "failed"} /\ s.cursor \in BOOLEAN
      BY DEF Sessions, ConnectionStates
    <3>2. stopped \in ConnectionStates
      BY <3>1 DEF ConnectionStates
    <3>3. s.tx = "none" => ~ s.cursor
      BY DEF Sessions
    <3> QED BY <3>2, <3>3 DEF Sessions
  <2>7. s = Fresh => stopped = Fresh
    <3>1. ASSUME s.tx = "none", s.cursor = FALSE PROVE stopped = Fresh
      <4>1. (IF s.tx = "none" THEN "none" ELSE "failed") = "none"
        BY <3>1
      <4>2. (s.cursor /\ s.tx = "none") = FALSE
        BY <3>1
      <4> QED BY <4>1, <4>2 DEF Fresh
    <3> QED BY <3>1 DEF Fresh
  <2>8. Validated(Fresh) = Fresh /\ Validated(Lost) = Fresh
    BY DEF Validated, Fresh, Lost
  <2>9. s.lost => Validated(s) = Fresh
    BY DEF Validated
  <2>3. after \in Sessions
    <3>1. Lost \in Sessions
      BY DEF Lost, Sessions, ConnectionStates
    <3> QED BY <2>0, <2>6, <3>1
  <2>4. s = Fresh => Validated(after) = Fresh
    BY <2>0, <2>7, <2>8
  <2>5. Validated(after) = Fresh
    <3>1. CASE s.tx = "none" /\ ~ s.lost
      <4>1. s = Fresh
        BY <3>1 DEF Sessions, ConnectionStates, Fresh
      <4> QED BY <2>4, <4>1
    <3>2. CASE s.tx # "none" /\ ~ s.lost
      <4>1. Validated(stopped) = Fresh
        <5>1. stopped.tx = "failed"
          BY <3>2
        <5> HIDE DEF stopped
        <5> QED BY <5>1 DEF Validated
      <4> HIDE DEF stopped
      <4> QED BY <2>0, <2>8, <3>2, <4>1
    <3>3. CASE s.lost
      BY <2>0, <2>9, <3>3
    <3> QED BY <3>1, <3>2, <3>3
  <2> QED BY <2>2, <2>3, <2>4, <2>5
<1>2. CASE Allowed(s, statement) /\ result = <<AfterStatement(s, statement), TRUE>>
  <2> DEFINE after == AfterStatement(s, statement)
  <2>1. result[1] = after /\ result[2] = TRUE
    BY <1>2
  <2>2. after \in Sessions
    BY <1>2 DEF AfterStatement, Allowed, Sessions, ConnectionStates, Fresh
  <2>3. statement = "ROLLBACK" => after = Fresh
    BY DEF AfterStatement
  <2>4. statement = "SELECT" => after = s
    BY DEF AfterStatement
  <2>5. Validated(Fresh) = Fresh
    BY DEF Validated, Fresh
  <2> QED BY <2>1, <2>2, <2>3, <2>4, <2>5
<1> QED BY <1>1, <1>2 DEF Results

\* A query ends at one of two places, with a session that fits.
LEMMA Executed ==
  ASSUME ClientTypes, NEW r \in Requests, NEW statement, NEW ok, NEW failed,
         held[r] # NoConnection, Execute(r, statement, ok, failed)
  PROVE  \E result \in Results(connection[held[r]], statement) :
           /\ connection' = [connection EXCEPT ![held[r]] = result[1]]
           /\ at' = [at EXCEPT ![r] = IF result[2] THEN ok ELSE failed]
BY DEF Execute, Goto

-----------------------------------------------------------------------------
\* Steps that keep the client's invariant.

\* A request goes to another place with its connection as it is.
LEMMA RequestMoves ==
  ASSUME ClientInv, NEW r \in Requests, NEW place \in Places,
         NEW slot \in {"none", "queued", "held"},
         at' = [at EXCEPT ![r] = place],
         querySlot' = [querySlot EXCEPT ![r] = slot],
         held' = held, connection' = connection,
         place \in Outside => held[r] = NoConnection,
         place \notin Outside \cup {"threw"} => held[r] # NoConnection,
         held[r] # NoConnection => SessionAt(place, connection[held[r]]),
         slot # "none" => place \in InQuery
  PROVE  ClientInv'
<1>1. ClientTypes'
  BY DEF ClientInv, ClientTypes
<1>2. Borrowed' /\ CleanInPool'
  BY DEF ClientInv, Borrowed, CleanInPool, Free
<1>3. ASSUME NEW q \in Requests PROVE HeldAt(q)' /\ SlotAt(q)'
  <2>1. CASE q = r
    <3>1. at'[q] = place /\ querySlot'[q] = slot
      BY <2>1 DEF ClientInv, ClientTypes
    <3> QED BY <2>1, <3>1 DEF HeldAt, SlotAt
  <2>2. CASE q # r
    <3>1. at'[q] = at[q] /\ querySlot'[q] = querySlot[q]
      BY <2>2 DEF ClientInv, ClientTypes
    <3> QED BY <3>1 DEF ClientInv, HeldAt, SlotAt
  <2> QED BY <2>1, <2>2
<1> QED BY <1>1, <1>2, <1>3 DEF ClientInv

\* And with a query of it.
LEMMA RequestExecutes ==
  ASSUME ClientInv, NEW r \in Requests, NEW place \in Places \ Outside,
         NEW slot \in {"none", "queued", "held"}, NEW s \in Sessions,
         at' = [at EXCEPT ![r] = place],
         querySlot' = [querySlot EXCEPT ![r] = slot],
         connection' = [connection EXCEPT ![held[r]] = s],
         held' = held, held[r] # NoConnection,
         SessionAt(place, s),
         slot # "none" => place \in InQuery
  PROVE  ClientInv'
<1> DEFINE c == held[r]
<1>0. c \in Connections
  BY DEF ClientInv, ClientTypes
<1>1. ClientTypes'
  BY <1>0 DEF ClientInv, ClientTypes
<1>2. connection'[c] = s /\ \A d \in Connections : d # c => connection'[d] = connection[d]
  BY <1>0 DEF ClientInv, ClientTypes
<1>3. CleanInPool'
  BY <1>2 DEF ClientInv, CleanInPool, Free
<1>4. Borrowed'
  BY DEF ClientInv, Borrowed
<1>5. ASSUME NEW q \in Requests PROVE HeldAt(q)' /\ SlotAt(q)'
  <2>1. CASE q = r
    <3>1. at'[q] = place /\ querySlot'[q] = slot
      BY <2>1 DEF ClientInv, ClientTypes
    <3> QED BY <1>2, <2>1, <3>1 DEF HeldAt, SlotAt
  <2>2. CASE q # r
    <3>1. at'[q] = at[q] /\ querySlot'[q] = querySlot[q]
      BY <2>2 DEF ClientInv, ClientTypes
    <3>2. held[q] # NoConnection => connection'[held[q]] = connection[held[q]]
      BY <1>2, <2>2 DEF ClientInv, ClientTypes, Borrowed
    <3> QED BY <3>1, <3>2 DEF ClientInv, HeldAt, SlotAt
  <2> QED BY <2>1, <2>2
<1> QED BY <1>1, <1>3, <1>4, <1>5 DEF ClientInv

\* And with nothing of the client changed.
LEMMA ClientStays ==
  ASSUME ClientInv, UNCHANGED <<at, held, querySlot, connection>>
  PROVE  ClientInv'
BY DEF ClientInv, ClientTypes, Borrowed, CleanInPool, Free, HeldAt, SlotAt

LEMMA FreshIsClean == Validated(Fresh) = Fresh
BY DEF Validated, Fresh

\* Places where nothing is known of the session.
Within == {"declare", "fetch", "put", "putLast", "close", "closeAborted", "end", "undo"}

LEMMA WithinPlaces ==
  /\ Within \subseteq Places \ Outside
  /\ \A place \in Within : \A s : SessionAt(place, s)
BY DEF Within, Places, Outside, SessionAt

LEMMA SlotWait ==
  ASSUME ClientInv, NEW r \in Requests, at[r] \in InQuery,
         NEW failed \in Places \ Outside, SessionAt(failed, connection[held[r]]),
         Enqueue(r) \/ Grant(r) \/ SlotTimeout(r, failed)
  PROVE  ClientInv'
<1>1. /\ at[r] \in Places \ Outside /\ held[r] # NoConnection
      /\ SessionAt(at[r], connection[held[r]])
  BY DEF ClientInv, ClientTypes, HeldAt, InQuery, Outside, Places
<1>2. at = [at EXCEPT ![r] = at[r]]
  BY DEF ClientInv, ClientTypes
<1>3. CASE Enqueue(r)
  BY <1>1, <1>2, <1>3, RequestMoves DEF Enqueue
<1>4. CASE Grant(r)
  BY <1>1, <1>2, <1>4, RequestMoves DEF Grant
<1>5. CASE SlotTimeout(r, failed)
  BY <1>1, <1>5, RequestMoves DEF SlotTimeout, Goto
<1> QED BY <1>3, <1>4, <1>5

LEMMA SlotRun ==
  ASSUME ClientInv, NEW r \in Requests, at[r] \in InQuery, NEW statement,
         NEW ok \in Within, NEW failed \in Within, NEW abort \in Within,
         RunInSlot(r, statement, ok, failed, abort)
  PROVE  ClientInv'
<1>1. /\ held[r] # NoConnection /\ held[r] \in Connections
      /\ connection[held[r]] \in Sessions /\ ClientTypes
  BY DEF ClientInv, ClientTypes, HeldAt, InQuery, Outside
<1>2. /\ querySlot' = [querySlot EXCEPT ![r] = "none"] /\ held' = held
  BY DEF RunInSlot, SlotAfter
<1>3. CASE r \in aborted
  <2>1. at' = [at EXCEPT ![r] = abort] /\ connection' = connection
    BY <1>3 DEF RunInSlot, Goto
  <2> QED BY <1>1, <1>2, <2>1, WithinPlaces, RequestMoves
<1>4. CASE r \notin aborted
  <2>1. PICK result \in Results(connection[held[r]], statement) :
          /\ connection' = [connection EXCEPT ![held[r]] = result[1]]
          /\ at' = [at EXCEPT ![r] = IF result[2] THEN ok ELSE failed]
    BY <1>1, <1>4, Executed DEF RunInSlot
  <2>2. result[1] \in Sessions
    BY <1>1, Statements
  <2> DEFINE place == IF result[2] THEN ok ELSE failed
  <2>3. place \in Within
    OBVIOUS
  <2>4. at' = [at EXCEPT ![r] = place]
    BY <2>1
  <2> HIDE DEF place
  <2> QED BY <1>1, <1>2, <2>1, <2>2, <2>3, <2>4, WithinPlaces, RequestExecutes
<1> QED BY <1>3, <1>4

\* What a statement makes of a session fits the place where the request goes on.
Fits(s, statement, ok, failed) ==
  \A result \in Results(s, statement) :
    SessionAt(IF result[2] THEN ok ELSE failed, result[1])

\* A statement outside of the queue.
LEMMA PlainRun ==
  ASSUME ClientInv, NEW r \in Requests, NEW statement, NEW ok, NEW failed,
         ok \in Places \ Outside, failed \in Places \ Outside,
         Execute(r, statement, ok, failed),
         Fits(connection[held[r]], statement, ok, failed),
         at[r] \in {"begin", "close", "closeAborted", "end", "undo", "reserve"},
         held' = held, querySlot' = [querySlot EXCEPT ![r] = querySlot'[r]],
         querySlot'[r] \in {"none", "queued", "held"},
         querySlot'[r] # "none" => at'[r] \in InQuery
  PROVE  ClientInv'
<1>1. /\ held[r] # NoConnection /\ held[r] \in Connections
      /\ connection[held[r]] \in Sessions /\ ClientTypes
  BY DEF ClientInv, ClientTypes, HeldAt, Outside
<1>2. PICK result \in Results(connection[held[r]], statement) :
        /\ connection' = [connection EXCEPT ![held[r]] = result[1]]
        /\ at' = [at EXCEPT ![r] = IF result[2] THEN ok ELSE failed]
  BY <1>1, Executed
<1>3. result[1] \in Sessions
  BY <1>1, Statements
<1> DEFINE place == IF result[2] THEN ok ELSE failed
<1>4. place \in Places \ Outside /\ SessionAt(place, result[1])
  BY DEF Fits
<1>5. at' = [at EXCEPT ![r] = place]
  BY <1>2
<1> HIDE DEF place
<1>6. at'[r] = place
  BY <1>1, <1>5 DEF ClientTypes
<1> QED BY <1>1, <1>2, <1>3, <1>4, <1>5, <1>6, RequestExecutes

\* What a request at a place has, for the steps below.
LEMMA Known ==
  ASSUME ClientInv, NEW r \in Requests
  PROVE  /\ at = [at EXCEPT ![r] = at[r]] /\ querySlot = [querySlot EXCEPT ![r] = querySlot[r]]
         /\ at[r] \in Places /\ querySlot[r] \in {"none", "queued", "held"}
         /\ at[r] \in Outside => held[r] = NoConnection
         /\ at[r] \notin Outside \cup {"threw"} =>
              /\ held[r] # NoConnection /\ held[r] \in Connections
              /\ connection[held[r]] \in Sessions
         /\ held[r] # NoConnection => SessionAt(at[r], connection[held[r]])
         /\ querySlot[r] # "none" => at[r] \in InQuery
BY DEF ClientInv, ClientTypes, HeldAt, SlotAt

LEMMA ArriveClient ==
  ASSUME ClientInv, NEW r \in Requests, Arrive(r) \/ Admit(r)
  PROVE  ClientInv'
<1>1. /\ at[r] \in Outside /\ querySlot[r] = "none"
      /\ UNCHANGED <<held, connection, querySlot>>
      /\ \E place \in {"connect", "acquire", "threw"} : at' = [at EXCEPT ![r] = place]
  BY Known DEF Arrive, Admit, Goto, Outside, InQuery
<1>2. PICK place \in {"connect", "acquire", "threw"} : at' = [at EXCEPT ![r] = place]
  BY <1>1
<1>3. place \in Places /\ place \in Outside \cup {"threw"}
  BY <1>2 DEF Places, Outside
<1>4. querySlot' = [querySlot EXCEPT ![r] = "none"]
  BY <1>1, Known
<1> QED BY <1>1, <1>2, <1>3, <1>4, Known, RequestMoves

LEMMA AcquireClient ==
  ASSUME ClientInv, NEW r \in Requests, NEW next \in {"begin", "reserve"}, Acquire(r, next)
  PROVE  ClientInv'
<1>0. at[r] \in Outside /\ held[r] = NoConnection /\ querySlot[r] = "none"
  BY Known DEF Acquire, Outside, InQuery
<1>1. CASE at' = [at EXCEPT ![r] = "threw"] /\ UNCHANGED <<held, connection>>
  <2>1. querySlot' = [querySlot EXCEPT ![r] = "none"]
    BY <1>0, Known DEF Acquire
  <2>2. "threw" \in Places /\ "threw" \notin Outside
    BY DEF Places, Outside
  <2> QED BY <1>0, <1>1, <2>1, <2>2, RequestMoves
<1>2. ASSUME NEW c \in Free, held' = [held EXCEPT ![r] = c],
             connection' = [connection EXCEPT ![c] = Validated(connection[c])],
             at' = [at EXCEPT ![r] = next]
      PROVE  ClientInv'
  <2>0. c \in Connections /\ Validated(connection[c]) = Fresh /\ c # NoConnection
    BY DawaClientAssumption DEF ClientInv, CleanInPool, Free
  <2>1. Fresh \in Sessions /\ next \in Places /\ next \notin Outside
    BY DEF Fresh, Sessions, ConnectionStates, Places, Outside
  <2>2. connection'[c] = Fresh /\ \A d \in Connections : d # c => connection'[d] = connection[d]
    BY <1>2, <2>0 DEF ClientInv, ClientTypes
  <2>3. querySlot' = querySlot
    BY DEF Acquire
  <2>4. ClientTypes'
    BY <1>2, <2>0, <2>1, <2>3 DEF ClientInv, ClientTypes
  <2>5. held'[r] = c /\ \A q \in Requests : q # r => held'[q] = held[q] /\ held[q] # c
    BY <1>2 DEF ClientInv, ClientTypes, Free
  <2>6. Borrowed'
    BY <2>5 DEF ClientInv, Borrowed
  <2>7. CleanInPool'
    <3> SUFFICES ASSUME NEW d \in Connections, \A q \in Requests : held'[q] # d
                 PROVE  Validated(connection'[d]) = Fresh
      BY DEF CleanInPool, Free
    <3>1. d # c /\ \A q \in Requests : held[q] # d
      BY <1>0, <2>5, DawaClientAssumption
    <3> QED BY <2>2, <3>1 DEF ClientInv, CleanInPool, Free
  <2>8. ASSUME NEW q \in Requests PROVE HeldAt(q)' /\ SlotAt(q)'
    <3>1. CASE q = r
      <4>1. at'[q] = next
        BY <1>2, <3>1 DEF ClientInv, ClientTypes
      <4>2. SessionAt(next, Fresh)
        BY DEF SessionAt
      <4> QED BY <1>0, <2>0, <2>1, <2>2, <2>3, <2>5, <3>1, <4>1, <4>2 DEF HeldAt, SlotAt
    <3>2. CASE q # r
      <4>1. at'[q] = at[q]
        BY <1>2, <3>2 DEF ClientInv, ClientTypes
      <4>2. held[q] # NoConnection => connection'[held[q]] = connection[held[q]]
        BY <2>2, <2>5, <3>2 DEF ClientInv, ClientTypes
      <4> QED BY <2>3, <2>5, <3>2, <4>1, <4>2 DEF ClientInv, HeldAt, SlotAt
    <3> QED BY <3>1, <3>2
  <2> QED BY <2>4, <2>6, <2>7, <2>8 DEF ClientInv
<1> QED BY <1>1, <1>2 DEF Acquire, Goto

LEMMA FinishClient ==
  ASSUME ClientInv, NEW r \in Requests, FinishRequest(r)
  PROVE  ClientInv'
<1>0. at[r] \in {"done", "threw"} /\ querySlot[r] = "none"
  BY Known DEF FinishRequest, InQuery
<1>1. /\ at' = [at EXCEPT ![r] = "idle"] /\ held' = [held EXCEPT ![r] = NoConnection]
      /\ UNCHANGED <<querySlot, connection>>
  BY DEF FinishRequest, Goto, GiveBack
<1>2. "idle" \in Places /\ "idle" \in Outside
  BY DEF Places, Outside
<1>3. ClientTypes'
  BY <1>1, <1>2 DEF ClientInv, ClientTypes
<1>4. held'[r] = NoConnection /\ \A q \in Requests : q # r => held'[q] = held[q]
  BY <1>1 DEF ClientInv, ClientTypes
<1>5. Borrowed'
  BY <1>4 DEF ClientInv, Borrowed
<1>6. held[r] # NoConnection => Validated(connection[held[r]]) = Fresh
  BY <1>0, Known, FreshIsClean DEF SessionAt
<1>7. CleanInPool'
  <2> SUFFICES ASSUME NEW d \in Connections, \A q \in Requests : held'[q] # d
               PROVE  Validated(connection[d]) = Fresh
    BY <1>1 DEF CleanInPool, Free
  <2>1. d # NoConnection
    BY DawaClientAssumption
  <2>2. CASE held[r] = d
    BY <1>6, <2>1, <2>2
  <2>3. CASE held[r] # d
    BY <1>4, <2>3 DEF ClientInv, CleanInPool, Free
  <2> QED BY <2>2, <2>3
<1>8. ASSUME NEW q \in Requests PROVE HeldAt(q)' /\ SlotAt(q)'
  <2>1. CASE q = r
    <3>1. at'[q] = "idle" /\ querySlot'[q] = "none" /\ held'[q] = NoConnection
      BY <1>0, <1>1, <1>4, <2>1 DEF ClientInv, ClientTypes
    <3> QED BY <1>2, <3>1 DEF HeldAt, SlotAt
  <2>2. CASE q # r
    <3>1. at'[q] = at[q] /\ held'[q] = held[q]
      BY <1>1, <1>4, <2>2 DEF ClientInv, ClientTypes
    <3> QED BY <1>1, <3>1 DEF ClientInv, HeldAt, SlotAt
  <2> QED BY <2>1, <2>2
<1> QED BY <1>3, <1>5, <1>7, <1>8 DEF ClientInv

LEMMA TransactionClient ==
  ASSUME ClientInv, NEW r \in Requests, Transaction(r)
  PROVE  ClientInv'
<1> DEFINE s == connection[held[r]]
<1>0. /\ {"declare", "threw", "done", "undo"} \subseteq Places \ Outside
      /\ \A x : SessionAt("declare", x) /\ SessionAt("undo", x)
      /\ SessionAt("done", Fresh)
      /\ \A x : Validated(x) = Fresh => SessionAt("threw", x)
  BY DEF Places, Outside, SessionAt
<1>1. /\ at[r] \in {"begin", "end", "undo"} /\ querySlot[r] = "none"
      /\ held' = held /\ querySlot' = [querySlot EXCEPT ![r] = "none"]
      /\ querySlot' = querySlot
      /\ s \in Sessions /\ held[r] # NoConnection
  BY Known DEF Transaction, Begin, End, Undo, Run, InQuery, Outside
<1>2. CASE Begin(r, "declare")
  <2>1. s = Fresh
    BY <1>1, <1>2, Known DEF Begin, SessionAt
  <2>2. CASE r \in aborted
    <3>1. at' = [at EXCEPT ![r] = "threw"] /\ connection' = connection
      BY <1>2, <2>2 DEF Begin, Goto
    <3> QED BY <1>0, <1>1, <2>1, <3>1, FreshIsClean, RequestMoves
  <2>3. CASE r \notin aborted
    <3>1. Execute(r, "BEGIN", "declare", "threw")
      BY <1>2, <2>3 DEF Begin
    <3>2. Fits(s, "BEGIN", "declare", "threw")
      BY <1>0, <1>1, <2>1, Statements DEF Fits
    <3> QED BY <1>0, <1>1, <3>1, <3>2, PlainRun
  <2> QED BY <2>2, <2>3
<1>3. CASE End(r)
  <2>1. Execute(r, "ROLLBACK", "done", "undo")
    BY <1>3 DEF End, Run
  <2>2. Fits(s, "ROLLBACK", "done", "undo")
    BY <1>0, <1>1, Statements DEF Fits
  <2> QED BY <1>0, <1>1, <2>1, <2>2, PlainRun
<1>4. CASE Undo(r)
  <2>1. Execute(r, "ROLLBACK", "threw", "threw")
    BY <1>4 DEF Undo, Run
  <2>2. Fits(s, "ROLLBACK", "threw", "threw")
    BY <1>0, <1>1, Statements DEF Fits
  <2> QED BY <1>0, <1>1, <2>1, <2>2, PlainRun
<1> QED BY <1>2, <1>3, <1>4 DEF Transaction

LEMMA CursorClient ==
  ASSUME ClientInv, NEW r \in Requests, Declare(r) \/ Fetch(r) \/ Close(r)
  PROVE  ClientInv'
<1>1. /\ {"fetch", "put", "putLast", "closeAborted", "undo", "end"} \subseteq Within
      /\ CatchAbort \in Within
  BY DEF Within, CatchAbort
<1>2. ASSUME NEW failed \in Within PROVE SessionAt(failed, connection[held[r]])
  BY WithinPlaces
<1>3. CASE Declare(r)
  <2>1. at[r] \in InQuery
    BY <1>3 DEF Declare, InQuery
  <2> QED BY <1>1, <1>2, <1>3, <2>1, SlotWait, SlotRun, WithinPlaces DEF Declare
<1>4. CASE Fetch(r)
  <2>1. at[r] \in InQuery
    BY <1>4 DEF Fetch, InQuery
  <2>2. CASE Enqueue(r) \/ Grant(r) \/ SlotTimeout(r, "undo")
    BY <1>1, <1>2, <2>1, <2>2, SlotWait, WithinPlaces
  <2>3. ASSUME NEW next \in {"put", "putLast"},
               RunInSlot(r, "FETCH", next, "undo", "closeAborted")
        PROVE  ClientInv'
    BY <1>1, <2>1, <2>3, SlotRun
  <2> QED BY <1>4, <2>2, <2>3 DEF Fetch
<1>5. CASE Close(r)
  <2>1. PICK ok \in {"end", "undo"} : Execute(r, "CLOSE", ok, "undo")
    BY <1>5 DEF Close, Run, CatchAbort
  <2>2. /\ at[r] \in {"close", "closeAborted"} /\ held' = held
        /\ querySlot'[r] = "none" /\ querySlot' = [querySlot EXCEPT ![r] = querySlot'[r]]
    BY <1>5, Known DEF Close, Run, InQuery
  <2>3. ok \in Within /\ "undo" \in Within
    BY <1>1
  <2>4. Fits(connection[held[r]], "CLOSE", ok, "undo")
    BY <2>3, WithinPlaces DEF Fits
  <2> QED BY <2>1, <2>2, <2>3, <2>4, PlainRun, WithinPlaces
<1> QED BY <1>3, <1>4, <1>5

LEMMA PutClient ==
  ASSUME ClientInv, NEW r \in Requests, PutAborted(r) \/ BatchPut(r)
  PROVE  ClientInv'
<1>1. /\ at[r] \in {"put", "putLast"} /\ UNCHANGED <<held, connection, querySlot>>
      /\ \E place \in {"closeAborted", "close", "fetch"} : at' = [at EXCEPT ![r] = place]
  BY DEF PutAborted, BatchPut, Goto
<1>2. PICK place \in {"closeAborted", "close", "fetch"} : at' = [at EXCEPT ![r] = place]
  BY <1>1
<1>3. place \in Within /\ querySlot' = [querySlot EXCEPT ![r] = "none"]
  BY <1>1, <1>2, Known DEF Within, InQuery
<1>4. held[r] # NoConnection
  BY <1>1, Known DEF Outside
<1> QED BY <1>1, <1>2, <1>3, <1>4, WithinPlaces, RequestMoves

LEMMA ReserveClient ==
  ASSUME ClientInv, NEW r \in Requests, Reserve(r) \/ QueryInSlot(r) \/ Answer(r)
  PROVE  ClientInv'
<1> DEFINE s == connection[held[r]]
<1>0. at[r] \in {"reserve", "answer"}
  BY DEF Reserve, QueryInSlot, Answer
<1>1. held[r] # NoConnection /\ s = Fresh /\ s \in Sessions /\ ClientTypes
  BY <1>0, Known DEF Outside, SessionAt, ClientInv
<1>2. /\ {"threw", "reserve", "answer", "done"} \subseteq Places \ Outside
      /\ \A place \in Places : SessionAt(place, Fresh)
  BY FreshIsClean DEF Places, Outside, SessionAt
<1>3. CASE Reserve(r)
  <2>1. at[r] \in InQuery
    BY <1>3 DEF Reserve, InQuery
  <2>2. SessionAt("threw", s)
    BY <1>1, <1>2
  <2> QED BY <1>2, <1>3, <2>1, <2>2, SlotWait DEF Reserve
<1>4. CASE QueryInSlot(r)
  <2> DEFINE slot == IF at'[r] = "reserve" THEN querySlot[r] ELSE "none"
  <2>1. querySlot' = [querySlot EXCEPT ![r] = slot] /\ held' = held /\ at[r] = "reserve"
    BY <1>4 DEF QueryInSlot
  <2>2. slot \in {"none", "queued", "held"} /\ (slot # "none" => at'[r] \in InQuery)
    BY Known DEF InQuery
  <2> HIDE DEF slot
  <2>3. CASE r \in aborted
    <3>1. at' = [at EXCEPT ![r] = "threw"] /\ connection' = connection
      BY <1>4, <2>3 DEF QueryInSlot, Goto
    <3>2. at'[r] = "threw"
      BY <3>1, <1>1 DEF ClientTypes
    <3>3. slot = "none"
      BY <2>2, <3>2 DEF InQuery
    <3> QED BY <1>1, <1>2, <2>1, <2>2, <3>1, <3>3, RequestMoves
  <2>4. CASE r \notin aborted
    <3>1. PICK next \in {"reserve", "answer"} : Execute(r, "SELECT", next, "threw")
      BY <1>4, <2>4 DEF QueryInSlot
    <3>2. Fits(s, "SELECT", next, "threw")
      <4> SUFFICES ASSUME NEW result \in Results(s, "SELECT")
                   PROVE  SessionAt(IF result[2] THEN next ELSE "threw", result[1])
        BY DEF Fits
      <4>1. CASE result[2]
        BY <1>1, <1>2, <3>1, <4>1, Statements
      <4>2. CASE ~ result[2]
        <5>1. Validated(result[1]) = Fresh
          BY <1>1, <4>2, Statements
        <5> QED BY <4>2, <5>1 DEF SessionAt
      <4> QED BY <4>1, <4>2
    <3>3. querySlot'[r] = slot
      BY <1>1, <2>1 DEF ClientTypes
    <3>4. next \in Places \ Outside /\ "threw" \in Places \ Outside
      BY <1>2
    <3> HIDE DEF s
    <3>5. Fits(connection[held[r]], "SELECT", next, "threw")
      BY <3>2 DEF s
    <3> QED BY <2>1, <2>2, <3>1, <3>3, <3>4, <3>5, PlainRun
  <2> QED BY <2>3, <2>4
<1>5. CASE Answer(r)
  <2>1. /\ at' = [at EXCEPT ![r] = "done"] /\ held' = held /\ connection' = connection
        /\ querySlot' = querySlot /\ at[r] = "answer"
    BY <1>5 DEF Answer, Goto
  <2>2. querySlot' = [querySlot EXCEPT ![r] = "none"]
    BY <2>1, Known DEF InQuery
  <2> QED BY <1>1, <1>2, <2>1, <2>2, RequestMoves
<1> QED BY <1>3, <1>4, <1>5

\* All steps, those of the pipe, the writer and the HTTP client included.
LEMMA ClientStep ==
  ASSUME ClientInv, StreamNext
  PROVE  ClientInv'
<1>1. PICK r \in Requests :
        \/ Arrive(r) \/ QueryProcess(r)
        \/ PipeTakes(r) \/ PipeAborted(r)
        \/ WriterTakes(r) \/ WriterGoesOn(r) \/ WriterAborted(r)
        \/ AbortOthers(r) \/ Read(r) \/ Leave(r) \/ FinishRequest(r)
  BY DEF StreamNext
<1>2. CASE Connect(r)
  <2>1. (IF r \in Streaming THEN "begin" ELSE "reserve") \in {"begin", "reserve"}
    OBVIOUS
  <2> QED BY <1>2, <2>1, ArriveClient, AcquireClient DEF Connect
<1>3. CASE Put(r)
  BY <1>3, ClientStays DEF Put, clientVars
<1>4. CASE QueryProcess(r)
  BY <1>2, <1>3, <1>4, TransactionClient, CursorClient, PutClient, ReserveClient DEF QueryProcess
<1>5. CASE Arrive(r) \/ FinishRequest(r)
  BY <1>5, ArriveClient, FinishClient
<1>6. CASE PipeTakes(r) \/ PipeAborted(r) \/ WriterTakes(r) \/ WriterGoesOn(r)
             \/ WriterAborted(r) \/ Read(r)
  <2>1. UNCHANGED clientVars
    BY <1>6 DEF PipeTakes, PipeAborted, WriterTakes, WriterGoesOn, WriterAborted, Read
  <2> QED BY <2>1, ClientStays DEF clientVars
<1>7. CASE AbortOthers(r) \/ Leave(r)
  <2>1. UNCHANGED <<at, held, querySlot, connection>>
    BY <1>7 DEF AbortOthers, Leave
  <2> QED BY <2>1, ClientStays
<1> QED BY <1>1, <1>4, <1>5, <1>6, <1>7

LEMMA ClientInvHolds == StreamSpec => []ClientInv
<1>1. StreamInit => ClientInv
  <2> SUFFICES ASSUME StreamInit PROVE ClientInv
    OBVIOUS
  <2>1. Fresh \in Sessions /\ "idle" \in Places /\ "idle" \in Outside
    BY DEF Fresh, Sessions, ConnectionStates, Places, Outside
  <2>2. ClientTypes
    BY <2>1 DEF StreamInit, ClientInit, ClientTypes
  <2> QED BY <2>1, <2>2, FreshIsClean
          DEF StreamInit, ClientInit, ClientInv, Borrowed, CleanInPool, Free, HeldAt, SlotAt
<1>2. ClientInv /\ [StreamNext]_allVars => ClientInv'
  BY ClientStep, ClientStays DEF allVars, clientVars
<1> QED BY <1>1, <1>2, PTL DEF StreamSpec

-----------------------------------------------------------------------------
\* Segments of the result.

LEMMA SegmentShape ==
  ASSUME NEW m \in Nat, NEW n \in Nat, m <= n
  PROVE  /\ Segment(m, n) \in Seq(Nat) /\ Len(Segment(m, n)) = n - m
         /\ \A i \in 1..n - m : Segment(m, n)[i] = m + i
         /\ Segment(m, n) = <<>> <=> m = n
<1>1. n - m \in Nat
  OBVIOUS
<1>2. Segment(m, n) \in Seq(Nat) /\ Len(Segment(m, n)) = n - m
  BY <1>1 DEF Segment
<1>3. \A i \in 1..n - m : Segment(m, n)[i] = m + i
  BY DEF Segment
<1>4. Segment(m, n) = <<>> <=> Len(Segment(m, n)) = 0
  BY <1>2
<1> QED BY <1>1, <1>2, <1>3, <1>4

LEMMA SegmentJoined ==
  ASSUME NEW l \in Nat, NEW m \in Nat, NEW n \in Nat, l <= m, m <= n
  PROVE  Segment(l, m) \o Segment(m, n) = Segment(l, n)
<1> DEFINE a == Segment(l, m)
           b == Segment(m, n)
           c == Segment(l, n)
<1>1. a \in Seq(Nat) /\ Len(a) = m - l /\ \A i \in 1..m - l : a[i] = l + i
  BY SegmentShape
<1>2. b \in Seq(Nat) /\ Len(b) = n - m /\ \A i \in 1..n - m : b[i] = m + i
  BY SegmentShape
<1>3. l <= n
  OBVIOUS
<1>4. c \in Seq(Nat) /\ Len(c) = n - l /\ \A i \in 1..n - l : c[i] = l + i
  BY <1>3, SegmentShape
<1> HIDE DEF a, b, c
<1>5. /\ a \o b \in Seq(Nat) /\ Len(a \o b) = Len(a) + Len(b)
      /\ \A i \in 1..Len(a) + Len(b) :
           (a \o b)[i] = IF i <= Len(a) THEN a[i] ELSE b[i - Len(a)]
  BY <1>1, <1>2, ConcatProperties
<1> DEFINE d == a \o b
<1>8. Len(a) = m - l /\ Len(b) = n - m /\ Len(c) = n - l /\ Len(a) + Len(b) = n - l
  BY <1>1, <1>2, <1>4
<1>9. d \in Seq(Nat) /\ Len(d) = n - l
  BY <1>5, <1>8
<1>10. \A i \in 1..n - l : d[i] = IF i <= m - l THEN a[i] ELSE b[i - (m - l)]
  BY <1>5, <1>8
<1> HIDE DEF d
<1>6. ASSUME NEW i \in 1..Len(d) PROVE d[i] = c[i]
  <2>0. i \in 1..n - l /\ c[i] = l + i
    BY <1>4, <1>9
  <2>1. CASE i <= m - l
    <3>1. i \in 1..m - l
      BY <2>0, <2>1
    <3> QED BY <1>1, <1>10, <2>0, <2>1, <3>1
  <2>2. CASE i > m - l
    <3>1. i - (m - l) \in 1..n - m
      BY <2>0, <2>2
    <3>2. d[i] = b[i - (m - l)]
      BY <1>10, <2>0, <2>2
    <3>3. b[i - (m - l)] = m + (i - (m - l))
      BY <1>2, <3>1
    <3> QED BY <2>0, <3>2, <3>3
  <2> QED BY <2>0, <2>1, <2>2
<1>7. a \o b = c
  <2>1. d = c
    BY <1>4, <1>8, <1>9, <1>6, SeqEqual
  <2> QED BY <2>1 DEF d
<1> QED BY <1>7 DEF a, b, c

\* The first k rows of a segment, and the others.
FirstOf(s, k) == SubSeq(s, 1, k)
LeftOf(s, k)  == SubSeq(s, k + 1, Len(s))

LEMMA SegmentCut ==
  ASSUME NEW m \in Nat, NEW n \in Nat, NEW k \in Nat, m + k <= n,
         NEW s, s = Segment(m, n)
  PROVE  FirstOf(s, k) = Segment(m, m + k) /\ LeftOf(s, k) = Segment(m + k, n)
<1> DEFINE a == Segment(m, m + k)
           b == Segment(m + k, n)
<1>0. m <= n /\ m + k \in Nat /\ m <= m + k
  OBVIOUS
<1>1. s \in Seq(Nat) /\ Len(s) = n - m /\ \A i \in 1..n - m : s[i] = m + i
  BY <1>0, SegmentShape
<1>2. a \in Seq(Nat) /\ Len(a) = k /\ \A i \in 1..k : a[i] = m + i
  <2>1. PICK e \in Nat : e = m + k
    BY <1>0
  <2>2. m <= e /\ e - m = k
    BY <2>1
  <2>3. /\ Segment(m, e) \in Seq(Nat) /\ Len(Segment(m, e)) = e - m
        /\ \A i \in 1..e - m : Segment(m, e)[i] = m + i
    BY <2>2, SegmentShape
  <2> QED BY <2>1, <2>2, <2>3
<1>3. /\ b \in Seq(Nat) /\ Len(b) = n - (m + k)
      /\ \A i \in 1..n - (m + k) : b[i] = (m + k) + i
  BY <1>0, SegmentShape
<1> HIDE DEF a, b
<1>4. SubSeq(s, 1, k) = a
  <2>1. SubSeq(s, 1, k) \in Seq(Nat) /\ Len(SubSeq(s, 1, k)) = k
    BY <1>1
  <2>2. \A i \in 1..k : SubSeq(s, 1, k)[i] = a[i]
    BY <1>1, <1>2
  <2> QED BY <1>2, <2>1, <2>2, SeqEqual
<1>5. SubSeq(s, k + 1, Len(s)) = b
  <2>1. /\ SubSeq(s, k + 1, Len(s)) \in Seq(Nat)
        /\ Len(SubSeq(s, k + 1, Len(s))) = n - (m + k)
    BY <1>1
  <2>2. ASSUME NEW i \in 1..n - (m + k)
        PROVE  SubSeq(s, k + 1, Len(s))[i] = b[i]
    <3>1. SubSeq(s, k + 1, Len(s))[i] = s[k + i] /\ k + i \in 1..n - m
      BY <1>1
    <3> QED BY <1>1, <1>3, <3>1
  <2> QED BY <1>3, <2>1, <2>2, SeqEqual
<1> QED BY <1>4, <1>5 DEF a, b, FirstOf, LeftOf

-----------------------------------------------------------------------------
\* Steps that keep the stream's invariant.

\* Nothing changes for the others.
OnlyFor(r) ==
  \A q \in Requests \ {r} :
    /\ at'[q] = at[q] /\ rows'[q] = rows[q] /\ fetched'[q] = fetched[q]
    /\ pending'[q] = pending[q] /\ buffer'[q] = buffer[q] /\ inHand'[q] = inHand[q]
    /\ closed'[q] = closed[q] /\ pipeAt'[q] = pipeAt[q] /\ writerAt'[q] = writerAt[q]
    /\ sent'[q] = sent[q] /\ outcome'[q] = outcome[q]

FlowUnchanged(r) ==
  /\ rows'[r] = rows[r] /\ fetched'[r] = fetched[r]
  /\ pending'[r] = pending[r] /\ buffer'[r] = buffer[r] /\ inHand'[r] = inHand[r]
  /\ closed'[r] = closed[r] /\ pipeAt'[r] = pipeAt[r] /\ writerAt'[r] = writerAt[r]
  /\ sent'[r] = sent[r] /\ outcome'[r] = outcome[r]

LEMMA FlowStays ==
  ASSUME NEW r \in Requests, FlowAt(r), at'[r] = at[r], FlowUnchanged(r)
  PROVE  FlowAt(r)'
<1>1. Bounded(r)'
  BY DEF FlowUnchanged, FlowAt, Bounded
<1>2. RunsAt(r)'
  BY DEF FlowUnchanged, FlowAt, RunsAt
<1>3. FetchedAt(r)'
  BY DEF FlowUnchanged, FlowAt, FetchedAt
<1>4. Passed(r)' = Passed(r) /\ Buffered(r)' = Buffered(r)
  BY DEF FlowUnchanged, Passed, Buffered
<1>5. RowsInOrder(r)'
  BY <1>4 DEF FlowUnchanged, FlowAt, RowsInOrder
<1>6. OutcomeAt(r)'
  BY DEF FlowUnchanged, FlowAt, OutcomeAt
<1> QED BY <1>1, <1>2, <1>3, <1>5, <1>6 DEF FlowAt

LEMMA OneRequest ==
  ASSUME StreamInv, NEW r \in Requests, OnlyFor(r), StreamTypes', FlowAt(r)'
  PROVE  StreamInv'
<1>1. ASSUME NEW q \in Requests, q # r PROVE FlowAt(q)'
  <2>1. at'[q] = at[q] /\ FlowUnchanged(q)
    BY <1>1 DEF OnlyFor, FlowUnchanged
  <2> QED BY <2>1, FlowStays DEF StreamInv
<1> QED BY <1>1 DEF StreamInv

\* Places where a request goes with everything else of the stream as it is.
Ways ==
  {<<"connect", "acquire">>, <<"connect", "threw">>, <<"acquire", "threw">>,
   <<"begin", "declare">>, <<"begin", "threw">>, <<"declare", "fetch">>, <<"declare", "undo">>,
   <<"fetch", "undo">>, <<"fetch", "closeAborted">>, <<"close", "end">>, <<"close", "undo">>,
   <<"closeAborted", "undo">>, <<"end", "done">>, <<"end", "undo">>, <<"undo", "threw">>,
   <<"reserve", "threw">>}

LEMMA NothingBuffered ==
  Segment(0, 0) = <<>> /\ Len(<<>>) = 0
<1>1. 0 \in Nat /\ 0 <= 0
  OBVIOUS
<1> QED BY <1>1, SegmentShape

LEMMA FlowGoes ==
  ASSUME StreamInv, NEW r \in Requests, NEW from, NEW to, <<from, to>> \in Ways,
         at[r] = from, at'[r] = to, FlowUnchanged(r)
  PROVE  FlowAt(r)'
<1> USE DEF FlowUnchanged
<1>0. FlowAt(r)
  BY DEF StreamInv
<1>1. Bounded(r)'
  BY <1>0 DEF FlowAt, Bounded
<1>2. RunsAt(r)'
  BY <1>0 DEF FlowAt, RunsAt, Ways
<1>3. FetchedAt(r)'
  <2>1. to = "declare" => from = "begin"
    BY DEF Ways
  <2>2. to = "fetch" => from = "declare" /\ fetched[r] = 0 /\ rows[r] \in Nat
    BY <1>0 DEF Ways, FlowAt, FetchedAt, StreamInv, StreamTypes
  <2>3. to = "acquire" => from = "connect"
    BY DEF Ways
  <2>4. /\ to \in {"acquire", "threw", "declare", "fetch", "undo", "closeAborted", "end", "done"}
        /\ from \notin {"put", "putLast"}
    BY DEF Ways
  <2>5. "buffer" \in closed[r] => to # "fetch" /\ to # "declare"
    BY <1>0, <2>1, <2>2 DEF FlowAt, FetchedAt
  <2>6. pending[r] = <<>>
    BY <1>0, <2>4 DEF FlowAt, FetchedAt
  <2>7. to \in {"acquire", "declare"} =>
          fetched[r] = 0 /\ buffer[r] = <<>> /\ inHand[r] = <<>> /\ closed[r] = {}
    BY <1>0, <2>1, <2>3 DEF FlowAt, FetchedAt
  <2>8. to = "declare" => sent[r] = <<>>
    BY <1>0, <2>1 DEF FlowAt, FetchedAt
  <2>9. to = "fetch" => fetched[r] <= rows[r]
    BY <2>2
  <2> QED BY <2>4, <2>5, <2>6, <2>7, <2>8, <2>9 DEF FetchedAt
<1>4. RowsInOrder(r)'
  <2>1. ASSUME pipeAt[r] \in {"take", "put"}, to \in {"fetch", "put", "putLast"}
        PROVE  /\ fetched[r] = Buffered(r) + Len(pending[r])
               /\ pending[r] = Segment(Buffered(r), fetched[r])
    <3>1. at[r] = "declare"
      BY <2>1 DEF Ways
    <3>2. /\ fetched[r] = 0 /\ buffer[r] = <<>> /\ inHand[r] = <<>> /\ sent[r] = <<>>
          /\ pending[r] = <<>>
      BY <1>0, <3>1 DEF FlowAt, FetchedAt
    <3> QED BY <3>2, NothingBuffered DEF Buffered, Passed
  <2> QED BY <1>0, <2>1 DEF FlowAt, RowsInOrder, Passed, Buffered
<1>5. OutcomeAt(r)'
  BY <1>0 DEF FlowAt, OutcomeAt, Ways
<1> QED BY <1>1, <1>2, <1>3, <1>4, <1>5 DEF FlowAt

LEMMA WayStep ==
  ASSUME ClientInv, StreamInv, NEW r \in Requests, UNCHANGED streamVars,
         NEW to, at' = [at EXCEPT ![r] = to], <<at[r], to>> \in Ways \/ to = at[r]
  PROVE  StreamInv'
<1>1. at'[r] = to /\ \A q \in Requests \ {r} : at'[q] = at[q]
  BY DEF ClientInv, ClientTypes
<1>2. FlowUnchanged(r) /\ OnlyFor(r)
  BY <1>1 DEF streamVars, FlowUnchanged, OnlyFor
<1>3. StreamTypes'
  BY DEF streamVars, StreamInv, StreamTypes
<1>4. FlowAt(r)'
  <2>1. FlowAt(r)
    BY DEF StreamInv
  <2> QED BY <1>1, <1>2, <2>1, FlowStays, FlowGoes
<1> QED BY <1>2, <1>3, <1>4, OneRequest

LEMMA ExecuteGoes ==
  ASSUME NEW r, NEW statement, NEW ok, NEW failed, Execute(r, statement, ok, failed)
  PROVE  \E to \in {ok, failed} : at' = [at EXCEPT ![r] = to]
BY DEF Execute, Goto

\* The query process, where it moves no rows.
LEMMA QuietStream ==
  ASSUME ClientInv, StreamInv, NEW r \in Requests,
         \/ Admit(r) /\ UNCHANGED streamVars
         \/ Transaction(r) \/ Declare(r) \/ Close(r) \/ Reserve(r)
         \/ at[r] = "fetch" /\ (Enqueue(r) \/ Grant(r) \/ SlotTimeout(r, "undo"))
                             /\ UNCHANGED streamVars
  PROVE  StreamInv'
<1>0. UNCHANGED streamVars
  BY DEF Transaction, Declare, Close, Reserve
<1>1. ASSUME NEW to, at' = [at EXCEPT ![r] = to], <<at[r], to>> \in Ways \/ to = at[r]
      PROVE  StreamInv'
  BY <1>0, <1>1, WayStep
<1>2. CASE Enqueue(r) \/ Grant(r)
  <2>1. at' = [at EXCEPT ![r] = at[r]]
    BY <1>2, Known DEF Enqueue, Grant
  <2> QED BY <1>1, <2>1
<1>3. CASE Admit(r)
  <2>1. PICK to \in {"acquire", "threw"} : at' = [at EXCEPT ![r] = to]
    BY <1>3 DEF Admit, Goto
  <2>2. <<at[r], to>> \in Ways
    BY <1>3 DEF Admit, Ways
  <2> QED BY <1>1, <2>1, <2>2
<1>4. CASE Transaction(r)
  <2>1. CASE Begin(r, "declare")
    <3>1. PICK to \in {"declare", "threw"} : at' = [at EXCEPT ![r] = to]
      BY <2>1, ExecuteGoes DEF Begin, Goto
    <3>2. <<at[r], to>> \in Ways
      BY <2>1 DEF Begin, Ways
    <3> QED BY <1>1, <3>1, <3>2
  <2>2. CASE End(r)
    <3>1. PICK to \in {"done", "undo"} : at' = [at EXCEPT ![r] = to]
      BY <2>2, ExecuteGoes DEF End, Run
    <3>2. <<at[r], to>> \in Ways
      BY <2>2 DEF End, Ways
    <3> QED BY <1>1, <3>1, <3>2
  <2>3. CASE Undo(r)
    <3>1. at' = [at EXCEPT ![r] = "threw"]
      BY <2>3, ExecuteGoes DEF Undo, Run
    <3>2. <<at[r], "threw">> \in Ways
      BY <2>3 DEF Undo, Ways
    <3> QED BY <1>1, <3>1, <3>2
  <2> QED BY <1>4, <2>1, <2>2, <2>3 DEF Transaction
<1>5. CASE at[r] \in {"declare", "fetch"} /\ SlotTimeout(r, "undo")
  <2>1. at' = [at EXCEPT ![r] = "undo"] /\ <<at[r], "undo">> \in Ways
    BY <1>5 DEF SlotTimeout, Goto, Ways
  <2> QED BY <1>1, <2>1
<1>6. CASE at[r] = "declare" /\ RunInSlot(r, "DECLARE", "fetch", "undo", CatchAbort)
  <2>1. PICK to \in {"fetch", "undo"} : at' = [at EXCEPT ![r] = to]
    BY <1>6, ExecuteGoes DEF RunInSlot, Goto, CatchAbort
  <2>2. <<at[r], to>> \in Ways
    BY <1>6 DEF Ways
  <2> QED BY <1>1, <2>1, <2>2
<1>7. CASE Close(r)
  <2>1. CASE at[r] = "close"
    <3>1. PICK to \in {"end", "undo"} : at' = [at EXCEPT ![r] = to]
      BY <1>7, <2>1, ExecuteGoes DEF Close, Run
    <3>2. <<at[r], to>> \in Ways
      BY <2>1 DEF Ways
    <3> QED BY <1>1, <3>1, <3>2
  <2>2. CASE at[r] = "closeAborted"
    <3>1. at' = [at EXCEPT ![r] = "undo"]
      BY <1>7, <2>2, ExecuteGoes DEF Close, Run, CatchAbort
    <3>2. <<at[r], "undo">> \in Ways
      BY <2>2 DEF Ways
    <3> QED BY <1>1, <3>1, <3>2
  <2> QED BY <1>7, <2>1, <2>2 DEF Close
<1>8. CASE Reserve(r)
  <2>1. CASE SlotTimeout(r, "threw")
    <3>1. at' = [at EXCEPT ![r] = "threw"] /\ <<at[r], "threw">> \in Ways
      BY <1>8, <2>1 DEF Reserve, SlotTimeout, Goto, Ways
    <3> QED BY <1>1, <3>1
  <2> QED BY <1>2, <1>8, <2>1 DEF Reserve
<1>9. CASE Declare(r)
  BY <1>2, <1>5, <1>6, <1>9 DEF Declare
<1> QED BY <1>2, <1>3, <1>4, <1>5, <1>7, <1>8, <1>9

LEMMA Sizes ==
  /\ FetchSize \in Nat /\ FetchSize > 0 /\ BufferSize \in Nat /\ BufferSize > 0
  /\ BatchSize \in Nat /\ BatchSize > 0 /\ MaxRows \in Nat /\ MaxRows > 0
BY ResponseStreamAssumption

LEMMA Counts ==
  ASSUME StreamInv, NEW r \in Requests
  PROVE  /\ rows[r] \in Nat /\ rows[r] <= MaxRows /\ fetched[r] \in Nat
         /\ pending[r] \in Seq(Nat) /\ buffer[r] \in Seq(Nat) /\ inHand[r] \in Seq(Nat)
         /\ sent[r] \in Seq(Nat)
         /\ Len(pending[r]) \in Nat /\ Len(buffer[r]) \in Nat /\ Len(inHand[r]) \in Nat
         /\ Len(sent[r]) \in Nat /\ Passed(r) \in Nat /\ Buffered(r) \in Nat
         /\ FlowAt(r)
<1>1. /\ rows[r] \in 0..MaxRows /\ fetched[r] \in Nat
      /\ pending[r] \in Seq(Nat) /\ buffer[r] \in Seq(Nat) /\ inHand[r] \in Seq(Nat)
      /\ sent[r] \in Seq(Nat)
  BY DEF StreamInv, StreamTypes
<1>2. /\ Len(pending[r]) \in Nat /\ Len(buffer[r]) \in Nat /\ Len(inHand[r]) \in Nat
      /\ Len(sent[r]) \in Nat
  BY <1>1
<1>3. Passed(r) \in Nat /\ Buffered(r) \in Nat
  <2> DEFINE a == Len(sent[r])
             b == Len(inHand[r])
             c == Len(buffer[r])
  <2>1. a \in Nat /\ b \in Nat /\ c \in Nat
    BY <1>2
  <2> HIDE DEF a, b, c
  <2>2. a + b \in Nat /\ a + b + c \in Nat
    BY <2>1
  <2>3. Passed(r) = a + b /\ Buffered(r) = a + b + c
    BY DEF Passed, Buffered, a, b, c
  <2> QED BY <2>2, <2>3
<1> QED BY <1>1, <1>2, <1>3, Sizes DEF StreamInv

\* The same as numbers: what has been sent, is in hand, and in the buffer.
LEMMA CountsOf ==
  ASSUME StreamInv, NEW r \in Requests
  PROVE  \E s, h, b \in Nat :
           /\ s = Len(sent[r]) /\ h = Len(inHand[r]) /\ b = Len(buffer[r])
           /\ Passed(r) = s + h /\ Buffered(r) = s + h + b
<1>1. Len(sent[r]) \in Nat /\ Len(inHand[r]) \in Nat /\ Len(buffer[r]) \in Nat
  BY Counts
<1>2. /\ Passed(r) = Len(sent[r]) + Len(inHand[r])
      /\ Buffered(r) = Len(sent[r]) + Len(inHand[r]) + Len(buffer[r])
  BY DEF Passed, Buffered
<1> QED BY <1>1, <1>2

LEMMA FetchStream ==
  ASSUME ClientInv, StreamInv, NEW r \in Requests, Fetch(r)
  PROVE  StreamInv'
<1> DEFINE f == fetched[r]
           n == rows[r]
           to == IF f + FetchSize < n THEN f + FetchSize ELSE n
           batch == NextBatch(r)
           next == IF IsLastBatch(batch) THEN "putLast" ELSE "put"
<1>0. CASE Enqueue(r) \/ Grant(r) \/ SlotTimeout(r, "undo")
  BY <1>0, QuietStream DEF Fetch, Enqueue, Grant, SlotTimeout, RunInSlot
<1>1. /\ at[r] = "fetch" /\ f \in Nat /\ n \in Nat /\ f <= n /\ pending[r] = <<>>
      /\ "buffer" \notin closed[r]
  BY Counts DEF Fetch, FlowAt, FetchedAt
<1>2. to \in Nat /\ f <= to /\ to <= n /\ to - f <= FetchSize
  BY <1>1, Sizes
<1>3. batch = Segment(f, to) /\ Len(batch) = to - f /\ batch \in Seq(Nat)
  <2>1. batch = Segment(f, to)
    BY DEF NextBatch, Segment
  <2> HIDE DEF to, batch
  <2> QED BY <1>1, <1>2, <2>1, SegmentShape
<1>4. next = "putLast" => to = n
  BY <1>1, <1>2, <1>3, Sizes DEF IsLastBatch
<1>5. next \in {"put", "putLast"}
  OBVIOUS
<1> HIDE DEF to, batch, next
<1>6. CASE /\ RunInSlot(r, "FETCH", next, "undo", "closeAborted")
           /\ IF at'[r] = next
              THEN /\ pending' = [pending EXCEPT ![r] = batch]
                   /\ fetched' = [fetched EXCEPT ![r] = f + Len(batch)]
              ELSE UNCHANGED <<pending, fetched>>
           /\ UNCHANGED <<buffer, closed, httpVars>>
  <2>1. PICK place \in {next, "undo", "closeAborted"} : at' = [at EXCEPT ![r] = place]
    BY <1>6, ExecuteGoes DEF RunInSlot, Goto
  <2>2. at'[r] = place /\ \A q \in Requests \ {r} : at'[q] = at[q]
    BY <2>1 DEF ClientInv, ClientTypes
  <2>3. CASE place # next
    <3>1. UNCHANGED streamVars
      BY <1>6, <2>2, <2>3 DEF streamVars, httpVars
    <3>2. <<at[r], place>> \in Ways
      BY <1>1, <2>1, <2>3 DEF Ways
    <3> QED BY <2>1, <3>1, <3>2, WayStep
  <2>4. CASE place = next
    <3>1. /\ pending' = [pending EXCEPT ![r] = batch] /\ fetched' = [fetched EXCEPT ![r] = to]
          /\ UNCHANGED <<buffer, closed, rows, inHand, pipeAt, writerAt, sent, outcome>>
      BY <1>1, <1>2, <1>3, <1>6, <2>2, <2>4 DEF httpVars
    <3>2. StreamTypes'
      BY <1>2, <1>3, <3>1 DEF StreamInv, StreamTypes
    <3>3. pending'[r] = batch /\ fetched'[r] = to
      BY <3>1 DEF StreamInv, StreamTypes
    <3>4. OnlyFor(r)
      BY <2>2, <3>1 DEF OnlyFor, StreamInv, StreamTypes
    <3>5. Bounded(r)'
      BY <1>2, <1>3, <3>1, <3>3, Counts DEF FlowAt, Bounded
    <3>6. RunsAt(r)'
      BY <1>1, <1>5, <2>2, <2>4, <3>1, Counts DEF FlowAt, RunsAt
    <3>7. FetchedAt(r)'
      BY <1>1, <1>2, <1>4, <1>5, <2>2, <2>4, <3>1, <3>3 DEF FetchedAt
    <3>8. RowsInOrder(r)'
      <4>1. RowsInOrder(r)
        BY Counts DEF FlowAt
      <4>2. Passed(r)' = Passed(r) /\ Buffered(r)' = Buffered(r)
        BY <3>1 DEF Passed, Buffered
      <4>3. ASSUME pipeAt[r] \in {"take", "put"}
            PROVE  /\ to = Buffered(r) + Len(batch)
                   /\ batch = Segment(Buffered(r), to)
        <5>1. f = Buffered(r)
          BY <1>1, <4>1, <4>3, NothingBuffered, Counts DEF RowsInOrder
        <5> QED BY <1>1, <1>2, <1>3, <5>1
      <4> QED BY <3>1, <3>3, <4>1, <4>2, <4>3 DEF RowsInOrder
    <3>9. OutcomeAt(r)'
      BY <1>1, <1>5, <2>2, <2>4, <3>1, Counts DEF FlowAt, OutcomeAt
    <3> QED BY <3>2, <3>4, <3>5, <3>6, <3>7, <3>8, <3>9, OneRequest DEF FlowAt
  <2> QED BY <2>3, <2>4
<1> QED BY <1>0, <1>6 DEF Fetch, batch, next

LEMMA PutStream ==
  ASSUME ClientInv, StreamInv, NEW r \in Requests, Put(r)
  PROVE  StreamInv'
<1> DEFINE p == pending[r]
           b == buffer[r]
           count == IF Room(r) < Len(p) THEN Room(r) ELSE Len(p)
           put == SubSeq(p, 1, count)
           p2 == SubSeq(p, count + 1, Len(p))
           b2 == b \o put
<1>0. /\ buffer' = [buffer EXCEPT ![r] = b2] /\ pending' = [pending EXCEPT ![r] = p2]
      /\ UNCHANGED <<at, fetched, closed, rows, inHand, pipeAt, writerAt, sent, outcome>>
      /\ at[r] \in {"put", "putLast"} /\ Room(r) > 0 /\ p # <<>>
  BY DEF Put, clientVars, httpVars
<1>1. /\ p \in Seq(Nat) /\ b \in Seq(Nat) /\ Len(p) \in Nat /\ Len(b) \in Nat
      /\ count \in Nat /\ count <= Len(p) /\ Len(b) + count <= BufferSize
  <2>1. p \in Seq(Nat) /\ b \in Seq(Nat) /\ Len(p) \in Nat /\ Len(b) \in Nat
    BY Counts
  <2>2. Room(r) \in Int /\ Len(b) + Room(r) = BufferSize
    BY <2>1, Sizes DEF Room
  <2>3. PICK lp, lb \in Nat : lp = Len(p) /\ lb = Len(b)
    BY <2>1
  <2>4. count = IF Room(r) < lp THEN Room(r) ELSE lp
    BY <2>3
  <2>5. count \in Nat /\ count <= lp /\ lb + count <= BufferSize
    <3>1. Room(r) \in Int /\ Room(r) > 0 /\ lb + Room(r) = BufferSize
      BY <1>0, <2>2, <2>3
    <3> HIDE DEF count, p, b
    <3> QED BY <2>3, <2>4, <3>1, Sizes
  <2> QED BY <2>1, <2>3, <2>5
<1> HIDE DEF count
<1>2. put \in Seq(Nat) /\ Len(put) = count
  BY <1>1
<1>4. p2 \in Seq(Nat) /\ Len(p2) = Len(p) - count
  BY <1>1
<1> HIDE DEF put
<1>3. b2 \in Seq(Nat) /\ Len(b2) = Len(b) + count
  BY <1>1, <1>2, ConcatProperties
<1>5. StreamTypes'
  BY <1>0, <1>3, <1>4 DEF StreamInv, StreamTypes
<1>6. buffer'[r] = b2 /\ pending'[r] = p2
  BY <1>0 DEF StreamInv, StreamTypes
<1>7. OnlyFor(r)
  BY <1>0 DEF OnlyFor, StreamInv, StreamTypes
<1>14. pipeAt[r] # "off"
  BY <1>0, Counts DEF FlowAt, RunsAt
<1> DEFINE seen == Buffered(r)
           got == fetched[r]
           passed == Passed(r)
<1>15. ASSUME pipeAt[r] \in {"take", "put"}
       PROVE  /\ b2 = Segment(passed, seen + count) /\ seen + count <= rows[r]
              /\ got = (seen + count) + Len(p2) /\ p2 = Segment(seen + count, got)
  <2>1. /\ b = Segment(passed, seen) /\ got = seen + Len(p) /\ p = Segment(seen, got) /\ got <= rows[r]
    BY <1>0, <1>15, Counts DEF RowsInOrder, FlowAt, FetchedAt
  <2>2. seen \in Nat /\ got \in Nat /\ passed \in Nat /\ rows[r] \in Nat /\ seen = passed + Len(b)
    BY Counts DEF Buffered
  <2> HIDE DEF seen, got, passed, p, b
  <2>3. seen + count <= got /\ passed <= seen /\ seen <= seen + count /\ seen + count \in Nat /\ seen + count <= rows[r]
    BY <1>1, <2>1, <2>2
  <2>4. put = Segment(seen, seen + count) /\ p2 = Segment(seen + count, got)
    <3>1. /\ FirstOf(p, count) = Segment(seen, seen + count)
          /\ LeftOf(p, count) = Segment(seen + count, got)
      BY <1>1, <2>1, <2>2, <2>3, SegmentCut
    <3> QED BY <3>1 DEF put, FirstOf, LeftOf
  <2>5. Segment(passed, seen) \o Segment(seen, seen + count) = Segment(passed, seen + count)
    BY <2>2, <2>3, SegmentJoined
  <2>6. got = (seen + count) + Len(p2)
    <3> HIDE DEF p2
    <3> QED BY <1>1, <1>4, <2>1, <2>2
  <2> QED BY <2>1, <2>3, <2>4, <2>5, <2>6
<1> HIDE DEF p2, b2
<1>8. RowsInOrder(r)'
  <2>1. RowsInOrder(r)
    BY Counts DEF FlowAt
  <2>2. Passed(r)' = passed
    BY <1>0 DEF Passed
  <2>3. Buffered(r)' = seen + count
    <3>1. passed \in Nat /\ seen = passed + Len(b)
      BY Counts DEF Buffered
    <3>2. Buffered(r)' = passed + Len(b2)
      BY <1>6, <2>2 DEF Buffered
    <3> HIDE DEF seen, passed
    <3> QED BY <1>1, <1>3, <3>1, <3>2
  <2>5. "buffer" \notin closed[r]
    BY <1>0, Counts DEF FlowAt, FetchedAt
  <2> HIDE DEF seen
  <2> QED BY <1>0, <1>6, <1>15, <2>1, <2>2, <2>3, <2>5 DEF RowsInOrder
<1>9. Bounded(r)'
  <2>1. Len(p) - count <= FetchSize
    BY <1>1, Counts, Sizes DEF FlowAt, Bounded
  <2> QED BY <1>0, <1>1, <1>3, <1>4, <1>6, <2>1, Counts DEF FlowAt, Bounded
<1>10. RunsAt(r)'
  BY <1>0, <1>14, Counts DEF FlowAt, RunsAt
<1>11. FetchedAt(r)'
  BY <1>0, <1>6, Counts DEF FlowAt, FetchedAt
<1>12. OutcomeAt(r)'
  BY <1>0, Counts DEF FlowAt, OutcomeAt
<1> QED BY <1>5, <1>7, <1>8, <1>9, <1>10, <1>11, <1>12, OneRequest DEF FlowAt

LEMMA PutAbortedStream ==
  ASSUME ClientInv, StreamInv, NEW r \in Requests, PutAborted(r)
  PROVE  StreamInv'
<1>0. /\ pending' = [pending EXCEPT ![r] = <<>>] /\ at' = [at EXCEPT ![r] = "closeAborted"]
      /\ UNCHANGED <<fetched, buffer, closed, rows, inHand, pipeAt, writerAt, sent, outcome>>
      /\ at[r] \in {"put", "putLast"}
  BY DEF PutAborted, httpVars, Goto
<1>1. at'[r] = "closeAborted" /\ pending'[r] = <<>> /\ OnlyFor(r)
  BY <1>0 DEF ClientInv, ClientTypes, StreamInv, StreamTypes, OnlyFor
<1>2. StreamTypes'
  BY <1>0 DEF StreamInv, StreamTypes
<1>3. FlowAt(r)
  BY Counts
<1>4. Bounded(r)'
  BY <1>0, <1>1, <1>3, NothingBuffered, Sizes DEF FlowAt, Bounded
<1>5. RunsAt(r)' /\ OutcomeAt(r)'
  BY <1>0, <1>1, <1>3 DEF FlowAt, RunsAt, OutcomeAt
<1>6. FetchedAt(r)'
  BY <1>0, <1>1, <1>3 DEF FlowAt, FetchedAt
<1>7. RowsInOrder(r)'
  BY <1>0, <1>1, <1>3 DEF FlowAt, RowsInOrder, Passed, Buffered
<1> QED BY <1>1, <1>2, <1>4, <1>5, <1>6, <1>7, OneRequest DEF FlowAt

LEMMA BatchPutStream ==
  ASSUME ClientInv, StreamInv, NEW r \in Requests, BatchPut(r)
  PROVE  StreamInv'
<1> DEFINE place == IF at[r] = "putLast" THEN "close" ELSE "fetch"
           ends  == IF at[r] = "putLast" THEN closed[r] \cup {"buffer"} ELSE closed[r]
<1>0. /\ at' = [at EXCEPT ![r] = place] /\ closed' = [closed EXCEPT ![r] = ends]
      /\ UNCHANGED <<fetched, pending, buffer, rows, inHand, pipeAt, writerAt, sent, outcome>>
      /\ at[r] \in {"put", "putLast"} /\ pending[r] = <<>>
  BY DEF BatchPut, httpVars, Goto, StreamInv, StreamTypes
<1>1. at'[r] = place /\ closed'[r] = ends /\ OnlyFor(r)
  BY <1>0 DEF ClientInv, ClientTypes, StreamInv, StreamTypes, OnlyFor
<1>2. StreamTypes'
  BY <1>0 DEF StreamInv, StreamTypes
<1>3. FlowAt(r) /\ "buffer" \notin closed[r]
  BY <1>0, Counts DEF FlowAt, FetchedAt
<1>4. Bounded(r)'
  BY <1>0, <1>3 DEF FlowAt, Bounded
<1>5. RunsAt(r)' /\ OutcomeAt(r)'
  BY <1>0, <1>1, <1>3 DEF FlowAt, RunsAt, OutcomeAt
<1>6. FetchedAt(r)'
  BY <1>0, <1>1, <1>3 DEF FlowAt, FetchedAt
<1>7. RowsInOrder(r)'
  <2>1. ASSUME pipeAt[r] \in {"take", "put"}
        PROVE  /\ fetched[r] = Buffered(r) + Len(pending[r])
               /\ pending[r] = Segment(Buffered(r), fetched[r])
               /\ at[r] = "putLast" => Buffered(r) = rows[r]
    <3>1. /\ fetched[r] = Buffered(r) + Len(pending[r])
          /\ pending[r] = Segment(Buffered(r), fetched[r])
      BY <1>0, <1>3, <2>1 DEF FlowAt, RowsInOrder
    <3>2. Buffered(r) = fetched[r]
      BY <1>0, <3>1, NothingBuffered, Counts
    <3> QED BY <1>3, <3>1, <3>2 DEF FlowAt, FetchedAt
  <2>2. Passed(r)' = Passed(r) /\ Buffered(r)' = Buffered(r)
    BY <1>0 DEF Passed, Buffered
  <2> QED BY <1>0, <1>1, <1>3, <2>1, <2>2 DEF FlowAt, RowsInOrder
<1> QED BY <1>1, <1>2, <1>4, <1>5, <1>6, <1>7, OneRequest DEF FlowAt

LEMMA QueryStream ==
  ASSUME ClientInv, StreamInv, NEW r \in Requests, QueryInSlot(r)
  PROVE  StreamInv'
<1> DEFINE f == IF at'[r] = "reserve" THEN fetched[r] + 1 ELSE 0
<1>0. /\ fetched' = [fetched EXCEPT ![r] = f] /\ at[r] = "reserve"
      /\ UNCHANGED <<pending, buffer, closed, rows, inHand, pipeAt, writerAt, sent, outcome>>
  BY DEF QueryInSlot, httpVars
<1>1. PICK place \in {"reserve", "answer", "threw"} : at' = [at EXCEPT ![r] = place]
  <2>1. CASE r \in aborted
    BY <2>1 DEF QueryInSlot, Goto
  <2>2. CASE r \notin aborted
    BY <2>2, ExecuteGoes DEF QueryInSlot
  <2> QED BY <2>1, <2>2
<1>2. f \in Nat
  BY Counts
<1> HIDE DEF f
<1>3. at'[r] = place /\ OnlyFor(r)
  BY <1>0, <1>1 DEF ClientInv, ClientTypes, StreamInv, StreamTypes, OnlyFor
<1>4. StreamTypes'
  BY <1>0, <1>2 DEF StreamInv, StreamTypes
<1>5. FlowAt(r) /\ pipeAt[r] = "off"
  BY <1>0, Counts DEF FlowAt, RunsAt
<1>6. Bounded(r)'
  BY <1>0, <1>5 DEF FlowAt, Bounded
<1>7. RunsAt(r)' /\ OutcomeAt(r)'
  BY <1>0, <1>1, <1>3, <1>5 DEF FlowAt, RunsAt, OutcomeAt
<1>8. FetchedAt(r)'
  BY <1>0, <1>1, <1>3, <1>5 DEF FlowAt, FetchedAt, RunsAt
<1>9. RowsInOrder(r)'
  BY <1>0, <1>5 DEF FlowAt, RowsInOrder
<1> QED BY <1>3, <1>4, <1>6, <1>7, <1>8, <1>9, OneRequest DEF FlowAt

LEMMA AnswerStream ==
  ASSUME ClientInv, StreamInv, NEW r \in Requests, Answer(r)
  PROVE  StreamInv'
<1> DEFINE b == [i \in 1..rows[r] |-> i]
           ends == closed[r] \cup {"buffer"}
<1>0. /\ at[r] = "answer" /\ at' = [at EXCEPT ![r] = "done"]
      /\ buffer' = [buffer EXCEPT ![r] = b] /\ closed' = [closed EXCEPT ![r] = ends]
      /\ pipeAt' = [pipeAt EXCEPT ![r] = "take"] /\ writerAt' = [writerAt EXCEPT ![r] = "take"]
      /\ UNCHANGED <<fetched, pending, rows, inHand, sent, outcome>>
  BY DEF Answer, Goto
<1>1. FlowAt(r)
  BY Counts
<1>2. pipeAt[r] = "off" /\ writerAt[r] = "off" /\ rows[r] = 1
  BY <1>0, <1>1 DEF FlowAt, RunsAt
<1>3. /\ pending[r] = <<>> /\ inHand[r] = <<>> /\ sent[r] = <<>> /\ outcome[r] = "none"
      /\ closed[r] = {}
  BY <1>0, <1>1, <1>2 DEF FlowAt, RunsAt, OutcomeAt
<1>4. b = Segment(0, 1) /\ Len(b) = 1 /\ b \in Seq(Nat)
  BY <1>2 DEF Segment
<1> HIDE DEF b
<1>5. StreamTypes'
  BY <1>0, <1>4 DEF StreamInv, StreamTypes
<1>6. /\ at'[r] = "done" /\ buffer'[r] = b /\ closed'[r] = {"buffer"} /\ pipeAt'[r] = "take"
      /\ writerAt'[r] = "take" /\ OnlyFor(r)
  BY <1>0, <1>3 DEF ClientInv, ClientTypes, StreamInv, StreamTypes, OnlyFor
<1>7. Bounded(r)'
  <2>1. pending'[r] = <<>> /\ inHand'[r] = <<>> /\ Len(buffer'[r]) = 1
    BY <1>0, <1>3, <1>4, <1>6
  <2>2. 0 <= FetchSize /\ 1 <= BufferSize /\ 0 <= BatchSize
    BY Sizes
  <2> QED BY <2>1, <2>2, NothingBuffered DEF Bounded
<1>8. RunsAt(r)' /\ OutcomeAt(r)'
  BY <1>0, <1>1, <1>3, <1>6 DEF FlowAt, RunsAt, OutcomeAt
<1>9. FetchedAt(r)'
  BY <1>0, <1>3, <1>6 DEF FetchedAt
<1>10. RowsInOrder(r)'
  <2>1. Passed(r)' = 0 /\ Buffered(r)' = 1
    BY <1>0, <1>3, <1>4, <1>6, NothingBuffered DEF Passed, Buffered
  <2> QED BY <1>0, <1>2, <1>3, <1>4, <1>6, <2>1, NothingBuffered DEF RowsInOrder
<1> QED BY <1>5, <1>6, <1>7, <1>8, <1>9, <1>10, OneRequest DEF FlowAt

\* The pipe and the writer start with a transaction.
LEMMA AcquireStream ==
  ASSUME ClientInv, StreamInv, NEW r \in Requests, Connect(r), ~ Admit(r)
  PROVE  StreamInv'
<1> DEFINE begin == IF at'[r] = "begin" THEN "take" ELSE "off"
<1>0. /\ at[r] = "acquire"
      /\ pipeAt' = [pipeAt EXCEPT ![r] = begin] /\ writerAt' = [writerAt EXCEPT ![r] = begin]
      /\ UNCHANGED <<fetched, pending, buffer, closed, rows, inHand, sent, outcome>>
  BY DEF Connect, Acquire, queryVars
<1>1. PICK place \in {"begin", "reserve", "threw"} :
        /\ at' = [at EXCEPT ![r] = place]
        /\ place = "begin" => r \in Streaming
        /\ place = "reserve" => r \notin Streaming
  BY DEF Connect, Acquire, Goto
<1>2. begin \in {"take", "off"}
  OBVIOUS
<1>3. at'[r] = place
  BY <1>1 DEF ClientInv, ClientTypes
<1>4. begin = "take" <=> place = "begin"
  BY <1>3
<1> HIDE DEF begin
<1>5. StreamTypes'
  BY <1>0, <1>2 DEF StreamInv, StreamTypes
<1>6. pipeAt'[r] = begin /\ writerAt'[r] = begin /\ OnlyFor(r)
  BY <1>0, <1>1 DEF ClientInv, ClientTypes, StreamInv, StreamTypes, OnlyFor
<1>7. /\ FlowAt(r) /\ pipeAt[r] = "off" /\ writerAt[r] = "off" /\ fetched[r] = 0
      /\ pending[r] = <<>> /\ buffer[r] = <<>> /\ inHand[r] = <<>> /\ closed[r] = {}
      /\ sent[r] = <<>> /\ outcome[r] = "none"
  BY <1>0, Counts DEF FlowAt, RunsAt, FetchedAt, OutcomeAt
<1>8. Bounded(r)'
  BY <1>0, <1>7 DEF FlowAt, Bounded
<1>9. RunsAt(r)' /\ OutcomeAt(r)'
  BY <1>0, <1>1, <1>2, <1>3, <1>4, <1>6, <1>7 DEF FlowAt, RunsAt, OutcomeAt
<1>10. FetchedAt(r)'
  BY <1>0, <1>1, <1>3, <1>7 DEF FetchedAt
<1>11. RowsInOrder(r)'
  <2>1. Passed(r)' = 0 /\ Buffered(r)' = 0
    BY <1>0, <1>7, NothingBuffered DEF Passed, Buffered
  <2> QED BY <1>0, <1>1, <1>2, <1>3, <1>6, <1>7, <2>1, Counts, NothingBuffered DEF RowsInOrder
<1> QED BY <1>5, <1>6, <1>8, <1>9, <1>10, <1>11, OneRequest DEF FlowAt

LEMMA ArriveStream ==
  ASSUME ClientInv, StreamInv, NEW r \in Requests, Arrive(r)
  PROVE  StreamInv'
<1>0. /\ at[r] = "idle" /\ at' = [at EXCEPT ![r] = "connect"]
      /\ sent' = [sent EXCEPT ![r] = <<>>] /\ outcome' = [outcome EXCEPT ![r] = "none"]
      /\ UNCHANGED <<fetched, pending, buffer, closed, inHand, pipeAt, writerAt>>
  BY DEF Arrive, Goto, queryVars
<1>1. PICK n \in IF r \in Streaming THEN 0..MaxRows ELSE {1} : rows' = [rows EXCEPT ![r] = n]
  BY DEF Arrive
<1>2. n \in 0..MaxRows /\ (r \notin Streaming => n = 1)
  BY Sizes
<1>3. StreamTypes'
  BY <1>0, <1>1, <1>2 DEF StreamInv, StreamTypes
<1>4. /\ at'[r] = "connect" /\ rows'[r] = n /\ sent'[r] = <<>> /\ outcome'[r] = "none"
      /\ OnlyFor(r)
  BY <1>0, <1>1 DEF ClientInv, ClientTypes, StreamInv, StreamTypes, OnlyFor
<1>5. /\ FlowAt(r) /\ pipeAt[r] = "off" /\ writerAt[r] = "off" /\ fetched[r] = 0
      /\ pending[r] = <<>> /\ buffer[r] = <<>> /\ inHand[r] = <<>> /\ closed[r] = {}
  BY <1>0, Counts DEF FlowAt, RunsAt, FetchedAt
<1>6. Bounded(r)'
  BY <1>0, <1>5 DEF FlowAt, Bounded
<1>7. RunsAt(r)' /\ OutcomeAt(r)'
  BY <1>0, <1>2, <1>4, <1>5 DEF RunsAt, OutcomeAt
<1>8. FetchedAt(r)'
  BY <1>0, <1>4, <1>5 DEF FetchedAt
<1>9. RowsInOrder(r)'
  BY <1>0, <1>2, <1>4, <1>5, NothingBuffered DEF RowsInOrder
<1> QED BY <1>3, <1>4, <1>6, <1>7, <1>8, <1>9, OneRequest DEF FlowAt

LEMMA FinishStream ==
  ASSUME ClientInv, StreamInv, NEW r \in Requests, FinishRequest(r)
  PROVE  StreamInv'
<1> DEFINE result == IF Threw(r) THEN OutcomeOfFailure(r) ELSE outcome[r]
<1>0. /\ at[r] \in {"done", "threw"} /\ {pipeAt[r], writerAt[r]} \subseteq {"off", "done", "threw"}
      /\ at' = [at EXCEPT ![r] = "idle"] /\ outcome' = [outcome EXCEPT ![r] = result]
      /\ fetched' = [fetched EXCEPT ![r] = 0] /\ pending' = [pending EXCEPT ![r] = <<>>]
      /\ buffer' = [buffer EXCEPT ![r] = <<>>] /\ closed' = [closed EXCEPT ![r] = {}]
      /\ pipeAt' = [pipeAt EXCEPT ![r] = "off"] /\ writerAt' = [writerAt EXCEPT ![r] = "off"]
      /\ UNCHANGED <<rows, inHand, sent>>
  BY DEF FinishRequest, Goto
<1>1. FlowAt(r)
  BY Counts
<1>2. inHand[r] = <<>>
  BY <1>0, <1>1 DEF FlowAt, RowsInOrder
<1>3. result \in {"none", "ended", "error", "destroyed"}
  BY DEF StreamInv, StreamTypes, OutcomeOfFailure
<1>4. result # "none"
  <2>1. CASE Threw(r)
    BY <2>1 DEF OutcomeOfFailure
  <2>2. CASE ~ Threw(r)
    <3>1. at[r] = "done" /\ writerAt[r] \in {"off", "done"}
      BY <1>0, <2>2 DEF Threw
    <3>2. pipeAt[r] # "off" /\ writerAt[r] = "done"
      BY <1>1, <3>1 DEF FlowAt, RunsAt
    <3> QED BY <1>1, <2>2, <3>1, <3>2 DEF FlowAt, OutcomeAt
  <2> QED BY <2>1, <2>2
<1> HIDE DEF result
<1>5. StreamTypes'
  BY <1>0, <1>3 DEF StreamInv, StreamTypes
<1>6. /\ at'[r] = "idle" /\ outcome'[r] = result /\ fetched'[r] = 0 /\ pending'[r] = <<>>
      /\ buffer'[r] = <<>> /\ closed'[r] = {} /\ pipeAt'[r] = "off" /\ writerAt'[r] = "off"
      /\ OnlyFor(r)
  BY <1>0 DEF ClientInv, ClientTypes, StreamInv, StreamTypes, OnlyFor
<1>7. Bounded(r)'
  BY <1>0, <1>2, <1>6, NothingBuffered, Sizes DEF Bounded
<1>8. RunsAt(r)' /\ OutcomeAt(r)'
  BY <1>0, <1>2, <1>4, <1>6 DEF RunsAt, OutcomeAt
<1>9. FetchedAt(r)'
  BY <1>0, <1>2, <1>6 DEF FetchedAt
<1>10. RowsInOrder(r)'
  BY <1>0, <1>1, <1>2, <1>6 DEF FlowAt, RowsInOrder
<1> QED BY <1>5, <1>6, <1>7, <1>8, <1>9, <1>10, OneRequest DEF FlowAt

LEMMA PipeTakesStream ==
  ASSUME ClientInv, StreamInv, NEW r \in Requests, PipeTakes(r)
  PROVE  StreamInv'
<1>0. /\ pipeAt[r] = "take"
      /\ UNCHANGED <<at, rows, fetched, pending, writerAt, sent, outcome>>
  BY DEF PipeTakes, clientVars
<1>1. FlowAt(r) /\ inHand[r] = <<>> /\ at[r] # "idle"
  BY <1>0, Counts DEF FlowAt, RowsInOrder, RunsAt
<1>2. PICK s, h, b \in Nat :
        /\ s = Len(sent[r]) /\ h = Len(inHand[r]) /\ b = Len(buffer[r])
        /\ Passed(r) = s + h /\ Buffered(r) = s + h + b
  BY CountsOf
<1>5. PICK seen \in Nat : seen = Buffered(r)
  BY Counts
<1>6. /\ h = 0 /\ Passed(r) = s /\ seen = s + b /\ seen <= rows[r]
      /\ buffer[r] = Segment(s, seen)
      /\ "buffer" \in closed[r] => seen = rows[r]
  <2>1. h = 0
    BY <1>1, <1>2, NothingBuffered
  <2>2. Passed(r) = s /\ seen = s + b
    BY <1>2, <1>5, <2>1
  <2> QED BY <1>0, <1>1, <1>5, <2>1, <2>2 DEF FlowAt, RowsInOrder
<1>3. CASE buffer[r] # <<>>
  <2> DEFINE count == Shorter(BatchSize, Len(buffer[r]))
             hand == SubSeq(buffer[r], 1, count)
             left == SubSeq(buffer[r], count + 1, Len(buffer[r]))
  <2>1. /\ inHand' = [inHand EXCEPT ![r] = hand] /\ buffer' = [buffer EXCEPT ![r] = left]
        /\ pipeAt' = [pipeAt EXCEPT ![r] = "put"] /\ closed' = closed
    BY <1>3 DEF PipeTakes
  <2>2. buffer[r] \in Seq(Nat) /\ count \in Nat /\ count <= b /\ count <= BatchSize /\ count > 0
    <3>1. buffer[r] \in Seq(Nat)
      BY Counts
    <3>2. b > 0
      BY <1>2, <1>3, <3>1
    <3>3. count = Shorter(BatchSize, b)
      BY <1>2
    <3> HIDE DEF count
    <3> QED BY <3>1, <3>2, <3>3, Sizes DEF Shorter
  <2> HIDE DEF count
  <2>3. hand \in Seq(Nat) /\ Len(hand) = count /\ left \in Seq(Nat) /\ Len(left) = b - count
    BY <1>2, <2>2
  <2>4. s + count <= seen
    BY <1>6, <2>2
  <2>5. hand = Segment(s, s + count) /\ left = Segment(s + count, seen)
    <3>1. /\ FirstOf(buffer[r], count) = Segment(s, s + count)
          /\ LeftOf(buffer[r], count) = Segment(s + count, seen)
      BY <1>6, <2>2, <2>4, SegmentCut
    <3> QED BY <3>1 DEF FirstOf, LeftOf
  <2> HIDE DEF hand, left
  <2>6. hand # <<>>
    BY <2>2, <2>3, NothingBuffered
  <2>7. StreamTypes'
    BY <1>0, <2>1, <2>3 DEF StreamInv, StreamTypes
  <2>8. /\ inHand'[r] = hand /\ buffer'[r] = left /\ pipeAt'[r] = "put" /\ OnlyFor(r)
    BY <1>0, <2>1 DEF StreamInv, StreamTypes, OnlyFor
  <2>9. Bounded(r)'
    <3>1. b - count <= BufferSize
      BY <1>1, <1>2, <2>2, Sizes DEF FlowAt, Bounded
    <3> QED BY <1>0, <1>1, <2>2, <2>3, <2>8, <3>1 DEF FlowAt, Bounded
  <2>10. RunsAt(r)' /\ OutcomeAt(r)'
    BY <1>0, <1>1, <2>1, <2>8 DEF FlowAt, RunsAt, OutcomeAt
  <2>11. FetchedAt(r)'
    <3>1. at[r] \notin {"idle", "connect", "acquire", "begin", "declare"}
      BY <1>1, <1>3 DEF FlowAt, FetchedAt
    <3> QED BY <1>0, <1>1, <2>1, <3>1 DEF FlowAt, FetchedAt
  <2>12. RowsInOrder(r)'
    <3>1. Passed(r)' = s + count
      BY <1>0, <1>2, <2>3, <2>8 DEF Passed
    <3>2. Buffered(r)' = seen
      <4>1. Buffered(r)' = (s + count) + Len(left)
        BY <2>8, <3>1 DEF Buffered
      <4> QED BY <1>6, <2>2, <2>3, <4>1
    <3>3. "http" \notin closed[r]
      BY <1>0, <1>1 DEF FlowAt, RowsInOrder
    <3> QED BY <1>0, <1>1, <2>1, <2>5, <2>6, <2>8, <3>1, <3>2, <3>3, <1>2, <1>5, <1>6 DEF FlowAt, RowsInOrder
  <2> QED BY <2>7, <2>8, <2>9, <2>10, <2>11, <2>12, OneRequest DEF FlowAt
<1>4. CASE buffer[r] = <<>>
  <2> DEFINE ends == closed[r] \cup {"http"}
  <2>1. /\ closed' = [closed EXCEPT ![r] = ends] /\ pipeAt' = [pipeAt EXCEPT ![r] = "done"]
        /\ UNCHANGED <<inHand, buffer>> /\ "buffer" \in closed[r]
    BY <1>4 DEF PipeTakes
  <2>2. StreamTypes'
    BY <1>0, <2>1 DEF StreamInv, StreamTypes
  <2>3. closed'[r] = ends /\ pipeAt'[r] = "done" /\ OnlyFor(r)
    BY <1>0, <2>1 DEF StreamInv, StreamTypes, OnlyFor
  <2>4. Bounded(r)'
    BY <1>0, <1>1, <2>1 DEF FlowAt, Bounded
  <2>5. RunsAt(r)' /\ OutcomeAt(r)'
    BY <1>0, <1>1, <2>3 DEF FlowAt, RunsAt, OutcomeAt
  <2>6. FetchedAt(r)'
    <3>1. at[r] \notin {"idle", "connect", "acquire", "begin", "declare"}
      BY <1>1, <2>1 DEF FlowAt, FetchedAt
    <3> QED BY <1>0, <1>1, <2>1, <2>3, <3>1 DEF FlowAt, FetchedAt
  <2>7. Len(sent[r]) = rows[r]
    <3>1. b = 0
      BY <1>2, <1>4, NothingBuffered
    <3> QED BY <1>2, <1>6, <2>1, <3>1
  <2>8. RowsInOrder(r)'
    BY <1>0, <1>1, <2>1, <2>3, <2>7 DEF FlowAt, RowsInOrder
  <2> QED BY <2>2, <2>3, <2>4, <2>5, <2>6, <2>8, OneRequest DEF FlowAt
<1> QED BY <1>3, <1>4

LEMMA WriterTakesStream ==
  ASSUME ClientInv, StreamInv, NEW r \in Requests, WriterTakes(r)
  PROVE  /\ StreamInv' /\ sent'[r] = Segment(0, Len(sent'[r]))
         /\ Len(sent'[r]) > Len(sent[r]) /\ Len(sent'[r]) <= rows[r] /\ outcome[r] = "none"
         /\ \E s : sent' = [sent EXCEPT ![r] = s]
<1> DEFINE count == Shorter(BatchSize, Len(inHand[r]))
           first == SubSeq(inHand[r], 1, count)
           hand == SubSeq(inHand[r], count + 1, Len(inHand[r]))
           written == sent[r] \o first
           place == IF count = Len(inHand[r]) THEN "take" ELSE "put"
           goesOn == IF unread'[r] < HighWaterMark THEN "take" ELSE "drain"
<1>0. /\ writerAt[r] = "take" /\ pipeAt[r] = "put"
      /\ inHand' = [inHand EXCEPT ![r] = hand] /\ sent' = [sent EXCEPT ![r] = written]
      /\ pipeAt' = [pipeAt EXCEPT ![r] = place] /\ writerAt' = [writerAt EXCEPT ![r] = goesOn]
      /\ UNCHANGED <<at, rows, fetched, pending, buffer, closed, outcome>>
  BY DEF WriterTakes, clientVars
<1>1. FlowAt(r) /\ inHand[r] # <<>> /\ at[r] # "idle" /\ outcome[r] = "none"
  BY <1>0, Counts DEF FlowAt, RowsInOrder, RunsAt, OutcomeAt
<1>2. goesOn \in {"take", "drain"}
  OBVIOUS
<1> HIDE DEF goesOn
<1>20. PICK start, h, b \in Nat :
        /\ start = Len(sent[r]) /\ h = Len(inHand[r]) /\ b = Len(buffer[r])
        /\ Passed(r) = start + h /\ Buffered(r) = start + h + b
  BY CountsOf
<1>21. PICK passed \in Nat : passed = start + h /\ passed = Passed(r) /\ Buffered(r) = passed + b
  <2>1. start + h \in Nat
    OBVIOUS
  <2> QED BY <1>20, <2>1
<1>3. /\ inHand[r] \in Seq(Nat) /\ sent[r] \in Seq(Nat)
      /\ count \in Nat /\ count <= h /\ count > 0
  <2>1. inHand[r] \in Seq(Nat) /\ sent[r] \in Seq(Nat)
    BY Counts
  <2>2. h > 0
    BY <1>1, <1>20, <2>1
  <2>3. count = Shorter(BatchSize, h)
    BY <1>20
  <2>4. count \in Nat /\ count <= h /\ count > 0
    <3> HIDE DEF count
    <3> QED BY <2>2, <2>3, Sizes DEF Shorter
  <2> QED BY <2>1, <2>4
<1> HIDE DEF count
<1>4. /\ first \in Seq(Nat) /\ Len(first) = count
      /\ hand \in Seq(Nat) /\ Len(hand) = h - count
  <2>1. /\ first \in Seq(Nat) /\ Len(first) = count
        /\ hand \in Seq(Nat) /\ Len(hand) = Len(inHand[r]) - count
    BY <1>3, <1>20
  <2> QED BY <1>20, <2>1
<1>5. sent[r] = Segment(0, start) /\ inHand[r] = Segment(start, passed) /\ passed <= rows[r]
  <2>1. passed + b <= rows[r]
    BY <1>0, <1>1, <1>21 DEF FlowAt, RowsInOrder
  <2>2. passed <= rows[r]
    BY <2>1, Counts
  <2> QED BY <1>0, <1>1, <1>20, <1>21, <2>2 DEF FlowAt, RowsInOrder
<1>6. start + count <= passed
  BY <1>3, <1>21
<1>7. first = Segment(start, start + count) /\ hand = Segment(start + count, passed)
  <2>1. /\ FirstOf(inHand[r], count) = Segment(start, start + count)
        /\ LeftOf(inHand[r], count) = Segment(start + count, passed)
    BY <1>3, <1>5, <1>6, SegmentCut
  <2> QED BY <2>1 DEF FirstOf, LeftOf
<1> HIDE DEF first, hand
<1>8. written = Segment(0, start + count)
  <2>1. start + count \in Nat /\ start <= start + count /\ 0 \in Nat /\ 0 <= start
    BY <1>3
  <2>2. Segment(0, start) \o Segment(start, start + count) = Segment(0, start + count)
    BY <1>3, <2>1, SegmentJoined
  <2> QED BY <1>5, <1>7, <2>2
<1>9. written \in Seq(Nat) /\ Len(written) = start + count
  <2>1. written \in Seq(Nat) /\ Len(written) = Len(sent[r]) + Len(first)
    BY <1>3, <1>4, ConcatProperties
  <2> HIDE DEF written
  <2> QED BY <1>4, <1>20, <2>1
<1> HIDE DEF written
<1>10. place = "put" <=> hand # <<>>
  <2>1. hand = <<>> <=> Len(hand) = 0
    BY <1>4
  <2>2. place = IF count = h THEN "take" ELSE "put"
    BY <1>20
  <2> QED BY <1>3, <1>4, <2>1, <2>2
<1>11. place \in {"take", "put"}
  OBVIOUS
<1> HIDE DEF place
<1>12. StreamTypes'
  BY <1>0, <1>2, <1>4, <1>9, <1>11 DEF StreamInv, StreamTypes
<1>13. /\ inHand'[r] = hand /\ sent'[r] = written /\ pipeAt'[r] = place
       /\ writerAt'[r] = goesOn /\ OnlyFor(r)
  BY <1>0 DEF StreamInv, StreamTypes, OnlyFor
<1>14. Bounded(r)'
  <2>1. h - count <= BatchSize
    BY <1>1, <1>3, <1>20, Sizes DEF FlowAt, Bounded
  <2> QED BY <1>0, <1>1, <1>4, <1>13, <2>1 DEF FlowAt, Bounded
<1>15. RunsAt(r)' /\ OutcomeAt(r)'
  BY <1>0, <1>1, <1>2, <1>11, <1>13 DEF FlowAt, RunsAt, OutcomeAt
<1>16. FetchedAt(r)'
  <2>1. at[r] \notin {"idle", "connect", "acquire", "begin", "declare"}
    BY <1>1 DEF FlowAt, FetchedAt
  <2> QED BY <1>0, <1>1, <2>1 DEF FlowAt, FetchedAt
<1>17. RowsInOrder(r)'
  <2>1. Passed(r)' = passed
    <3>1. Passed(r)' = (start + count) + (h - count)
      BY <1>4, <1>9, <1>13 DEF Passed
    <3> QED BY <1>3, <1>21, <3>1
  <2>2. Buffered(r)' = Buffered(r)
    BY <1>0, <1>21, <2>1 DEF Buffered
  <2>3. "http" \notin closed[r]
    BY <1>0, <1>1 DEF FlowAt, RowsInOrder
  <2>4. start + count <= rows[r]
    <3> QED BY <1>3, <1>5, <1>6, Counts
  <2>5. sent'[r] = Segment(0, Len(sent'[r])) /\ Len(sent'[r]) = start + count
    BY <1>8, <1>9, <1>13
  <2> QED BY <1>0, <1>1, <1>7, <1>10, <1>11, <1>13, <1>21, <2>1, <2>2, <2>3, <2>4, <2>5
          DEF FlowAt, RowsInOrder
<1>18. Len(sent'[r]) > Len(sent[r]) /\ sent'[r] = Segment(0, Len(sent'[r])) /\ Len(sent'[r]) <= rows[r]
  <2>1. sent'[r] = Segment(0, start + count) /\ Len(sent'[r]) = start + count
    BY <1>8, <1>9, <1>13
  <2>2. start + count > start /\ start + count <= rows[r]
    BY <1>3, <1>5, <1>6, Counts
  <2> QED BY <1>20, <2>1, <2>2
<1>19. StreamInv'
  BY <1>12, <1>13, <1>14, <1>15, <1>16, <1>17, OneRequest DEF FlowAt
<1> QED BY <1>0, <1>1, <1>18, <1>19, <1>20

LEMMA WriterGoesOnStream ==
  ASSUME ClientInv, StreamInv, NEW r \in Requests, WriterGoesOn(r)
  PROVE  StreamInv'
<1>0. /\ UNCHANGED <<at, rows, fetched, pending, buffer, inHand, closed, pipeAt, sent>>
      /\ FlowAt(r) /\ writerAt[r] # "off"
  BY Counts DEF WriterGoesOn, clientVars
<1>1. at[r] # "idle"
  BY <1>0 DEF FlowAt, RunsAt
<1>2. PICK place \in {"finish", "take", "done"}, result \in {"none", "ended"} :
        /\ writerAt' = [writerAt EXCEPT ![r] = place] /\ outcome' = [outcome EXCEPT ![r] = result]
        /\ place = "take" => result = "none"
        /\ place \in {"finish", "done"} => result = "ended"
  <2>1. CASE writerAt[r] = "take"
    BY <2>1 DEF WriterGoesOn
  <2>2. outcome = [outcome EXCEPT ![r] = outcome[r]]
    BY DEF StreamInv, StreamTypes
  <2>3. CASE writerAt[r] = "drain"
    <3>1. outcome[r] = "none" /\ outcome' = outcome /\ writerAt' = [writerAt EXCEPT ![r] = "take"]
      BY <1>0, <1>1, <2>3 DEF WriterGoesOn, FlowAt, OutcomeAt
    <3> QED BY <2>2, <3>1
  <2>4. CASE writerAt[r] = "finish"
    <3>1. outcome[r] = "ended" /\ outcome' = outcome /\ writerAt' = [writerAt EXCEPT ![r] = "done"]
      BY <1>0, <1>1, <2>4 DEF WriterGoesOn, FlowAt, OutcomeAt
    <3> QED BY <2>2, <3>1
  <2> QED BY <2>1, <2>3, <2>4 DEF WriterGoesOn
<1>3. StreamTypes'
  BY <1>0, <1>2 DEF StreamInv, StreamTypes
<1>4. writerAt'[r] = place /\ outcome'[r] = result /\ OnlyFor(r)
  BY <1>0, <1>2 DEF StreamInv, StreamTypes, OnlyFor
<1>5. Bounded(r)' /\ FetchedAt(r)'
  BY <1>0 DEF FlowAt, Bounded, FetchedAt
<1>6. RunsAt(r)' /\ OutcomeAt(r)'
  BY <1>0, <1>1, <1>2, <1>4 DEF FlowAt, RunsAt, OutcomeAt
<1>7. RowsInOrder(r)'
  BY <1>0 DEF FlowAt, RowsInOrder, Passed, Buffered
<1> QED BY <1>3, <1>4, <1>5, <1>6, <1>7, OneRequest DEF FlowAt

LEMMA AbortedStream ==
  ASSUME ClientInv, StreamInv, NEW r \in Requests, PipeAborted(r) \/ WriterAborted(r)
  PROVE  StreamInv'
<1>0. /\ UNCHANGED <<at, rows, fetched, pending, buffer, closed, sent, outcome>>
      /\ FlowAt(r) /\ writerAt[r] # "off" /\ pipeAt[r] # "off"
  BY Counts DEF PipeAborted, WriterAborted, clientVars, queryVars, FlowAt, RunsAt
<1>1. at[r] # "idle"
  BY <1>0 DEF FlowAt, RunsAt
<1>2. CASE PipeAborted(r)
  <2>1. /\ pipeAt' = [pipeAt EXCEPT ![r] = "threw"] /\ inHand' = [inHand EXCEPT ![r] = <<>>]
        /\ writerAt' = writerAt /\ pipeAt[r] \in {"take", "put"}
    BY <1>2 DEF PipeAborted
  <2>2. StreamTypes'
    BY <1>0, <2>1 DEF StreamInv, StreamTypes
  <2>3. pipeAt'[r] = "threw" /\ inHand'[r] = <<>> /\ OnlyFor(r)
    BY <1>0, <2>1 DEF StreamInv, StreamTypes, OnlyFor
  <2>4. Bounded(r)'
    BY <1>0, <2>3, NothingBuffered, Sizes DEF FlowAt, Bounded
  <2>5. RunsAt(r)' /\ OutcomeAt(r)' /\ FetchedAt(r)'
    BY <1>0, <1>1, <2>1, <2>3 DEF FlowAt, RunsAt, OutcomeAt, FetchedAt
  <2>6. RowsInOrder(r)'
    BY <1>0, <2>1, <2>3 DEF FlowAt, RowsInOrder
  <2> QED BY <2>2, <2>3, <2>4, <2>5, <2>6, OneRequest DEF FlowAt
<1>3. CASE WriterAborted(r)
  <2>1. /\ writerAt' = [writerAt EXCEPT ![r] = "threw"] /\ UNCHANGED <<pipeAt, inHand>>
        /\ writerAt[r] \in {"take", "drain", "finish"}
    BY <1>3 DEF WriterAborted
  <2>2. StreamTypes'
    BY <1>0, <2>1 DEF StreamInv, StreamTypes
  <2>3. writerAt'[r] = "threw" /\ OnlyFor(r)
    BY <1>0, <2>1 DEF StreamInv, StreamTypes, OnlyFor
  <2>4. Bounded(r)' /\ RunsAt(r)' /\ OutcomeAt(r)' /\ FetchedAt(r)'
    BY <1>0, <1>1, <2>1, <2>3 DEF FlowAt, Bounded, RunsAt, OutcomeAt, FetchedAt
  <2>5. RowsInOrder(r)'
    BY <1>0, <2>1 DEF FlowAt, RowsInOrder, Passed, Buffered
  <2> QED BY <2>2, <2>3, <2>4, <2>5, OneRequest DEF FlowAt
<1> QED BY <1>2, <1>3

\* Steps that move nothing.
StreamSame ==
  UNCHANGED <<at, rows, fetched, pending, buffer, inHand, closed, pipeAt, writerAt, sent, outcome>>

LEMMA StreamStays ==
  ASSUME StreamInv, StreamSame
  PROVE  StreamInv'
<1>1. StreamTypes'
  BY DEF StreamSame, StreamInv, StreamTypes
<1>2. ASSUME NEW r \in Requests PROVE FlowAt(r)'
  BY FlowStays DEF StreamSame, StreamInv, FlowUnchanged
<1> QED BY <1>1, <1>2 DEF StreamInv

LEMMA StreamStep ==
  ASSUME ClientInv, StreamInv, StreamNext
  PROVE  StreamInv'
<1>1. PICK r \in Requests :
        \/ Arrive(r) \/ QueryProcess(r)
        \/ PipeTakes(r) \/ PipeAborted(r)
        \/ WriterTakes(r) \/ WriterGoesOn(r) \/ WriterAborted(r)
        \/ AbortOthers(r) \/ Read(r) \/ Leave(r) \/ FinishRequest(r)
  BY DEF StreamNext
<1>2. CASE QueryProcess(r)
  <2>1. CASE Connect(r)
    <3>1. CASE Admit(r)
      <4>1. at[r] = "connect"
        BY <3>1 DEF Admit
      <4>2. UNCHANGED streamVars
        BY <2>1, <4>1 DEF Connect, Acquire
      <4> QED BY <3>1, <4>2, QuietStream
    <3> QED BY <2>1, <3>1, AcquireStream
  <2> QED BY <1>2, <2>1, QuietStream, FetchStream, PutStream, PutAbortedStream, BatchPutStream,
             QueryStream, AnswerStream DEF QueryProcess
<1>3. CASE AbortOthers(r) \/ Read(r) \/ Leave(r)
  <2>1. StreamSame
    BY <1>3 DEF AbortOthers, Read, Leave, StreamSame, streamVars, clientVars, queryVars
  <2> QED BY <2>1, StreamStays
<1> QED BY <1>1, <1>2, <1>3, ArriveStream, FinishStream, PipeTakesStream, WriterTakesStream,
           WriterGoesOnStream, AbortedStream

\* Connections, slots and rows are where the invariants say, for any requests,
\* connections, slots and sizes.
THEOREM RequestInvHolds == StreamSpec => []RequestInv
<1>1. StreamInit => StreamInv
  <2> SUFFICES ASSUME StreamInit PROVE StreamInv
    OBVIOUS
  <2>1. StreamTypes
    <3>1. 0 \in 0..MaxRows
      BY Sizes
    <3> QED BY <3>1 DEF StreamInit, StreamTypes
  <2>2. ASSUME NEW r \in Requests PROVE FlowAt(r)
    <3>1. /\ at[r] = "idle" /\ rows[r] = 0 /\ fetched[r] = 0 /\ pending[r] = <<>>
          /\ buffer[r] = <<>> /\ inHand[r] = <<>> /\ closed[r] = {} /\ pipeAt[r] = "off"
          /\ writerAt[r] = "off" /\ sent[r] = <<>> /\ outcome[r] = "none"
      BY DEF StreamInit, ClientInit
    <3>2. Bounded(r)
      BY <3>1, NothingBuffered, Sizes DEF Bounded
    <3>3. RunsAt(r) /\ FetchedAt(r) /\ OutcomeAt(r)
      BY <3>1 DEF RunsAt, FetchedAt, OutcomeAt
    <3>4. RowsInOrder(r)
      BY <3>1, NothingBuffered DEF RowsInOrder
    <3> QED BY <3>2, <3>3, <3>4 DEF FlowAt
  <2> QED BY <2>1, <2>2 DEF StreamInv
<1>2. ClientInv /\ StreamInv /\ [StreamNext]_allVars => StreamInv'
  <2>1. UNCHANGED allVars => StreamSame
    BY DEF allVars, clientVars, streamVars, StreamSame
  <2> QED BY <2>1, StreamStep, StreamStays
<1> QED BY <1>1, <1>2, ClientInvHolds, PTL DEF StreamSpec, RequestInv

\* A connection in the pool is in no transaction, or will be replaced.
THEOREM PoolStaysClean == StreamSpec => []CleanInPool
<1>1. RequestInv => CleanInPool
  BY DEF RequestInv, ClientInv
<1> QED BY <1>1, RequestInvHolds, PTL

\* Who holds a query slot has a connection and is at a query: no slot waits
\* for a connection or for the HTTP client.
THEOREM SlotsStayUsed == StreamSpec => []SlotsAreUsed
<1>1. RequestInv => SlotsAreUsed
  BY DEF RequestInv, ClientInv, HeldAt, SlotAt, SlotsAreUsed, InQuery, Outside
<1> QED BY <1>1, RequestInvHolds, PTL

-----------------------------------------------------------------------------
\* The stream implements Transfer.

MemoryOK == [r \in Requests |-> InMemory(r)] \in Transferred!Kept

LEMMA MemoryBounded ==
  ASSUME StreamInv
  PROVE  MemoryOK
<1>1. ASSUME NEW r \in Requests
      PROVE  InMemory(r) \in 0..(FetchSize + BufferSize + BatchSize)
  <2> DEFINE p == Len(pending[r])
             b == Len(buffer[r])
             h == Len(inHand[r])
  <2>1. /\ p \in Nat /\ b \in Nat /\ h \in Nat
        /\ p <= FetchSize /\ b <= BufferSize /\ h <= BatchSize
    BY Counts DEF FlowAt, Bounded
  <2>2. InMemory(r) = p + b + h
    BY DEF InMemory
  <2> HIDE DEF p, b, h
  <2> QED BY <2>1, <2>2, Sizes
<1> QED BY <1>1 DEF MemoryOK, Transferred!Kept

\* Only these steps show: a request comes, rows are written, the response
\* ends, and a request that failed is answered with an error or broken.
LEMMA VisibleSteps ==
  ASSUME ClientInv, StreamInv, NEW r \in Requests,
         \/ Arrive(r) \/ WriterTakes(r) \/ WriterGoesOn(r) \/ FinishRequest(r)
  PROVE  \/ UNCHANGED <<rows, sent, outcome>>
         \/ Transferred!Begin(r) \/ Transferred!Send(r) \/ Transferred!End(r)
         \/ Transferred!Fail(r) \/ Transferred!Break(r)
<1>0. FlowAt(r)
  BY Counts
<1>1. CASE Arrive(r)
  <2>1. sent[r] # <<>> => outcome[r] # "none"
    BY <1>0, <1>1 DEF Arrive, FlowAt, OutcomeAt
  <2>2. \E n \in 0..MaxRows : rows' = [rows EXCEPT ![r] = n]
    <3>1. PICK n \in IF r \in Streaming THEN 0..MaxRows ELSE {1} : rows' = [rows EXCEPT ![r] = n]
      BY <1>1 DEF Arrive
    <3>2. n \in 0..MaxRows
      BY Sizes
    <3> QED BY <3>1, <3>2
  <2>3. sent' = [sent EXCEPT ![r] = <<>>] /\ outcome' = [outcome EXCEPT ![r] = "none"]
    BY <1>1 DEF Arrive
  <2> QED BY <2>1, <2>2, <2>3 DEF Transferred!Begin
<1>2. CASE WriterTakes(r)
  <2> DEFINE s == sent'[r]
  <2>1. /\ s = Segment(0, Len(s)) /\ Len(s) > Len(sent[r]) /\ Len(s) <= rows[r]
        /\ outcome[r] = "none" /\ StreamInv'
    BY <1>2, WriterTakesStream
  <2>2. PICK n : n = Len(s)
    OBVIOUS
  <2>3. n \in Nat
    BY <2>1, <2>2 DEF StreamInv, StreamTypes
  <2>4. n \in Len(sent[r]) + 1..rows[r]
    BY <2>1, <2>2, <2>3, Counts
  <2>5. sent' = [sent EXCEPT ![r] = s]
    BY <1>2, WriterTakesStream DEF StreamInv, StreamTypes
  <2>6. s = [i \in 1..n |-> i]
    <3>1. s = Segment(0, n)
      BY <2>1, <2>2
    <3>2. Segment(0, n) = [i \in 1..n |-> i]
      BY <2>3 DEF Segment
    <3> QED BY <3>1, <3>2
  <2> HIDE DEF s
  <2>7. sent' = [sent EXCEPT ![r] = [i \in 1..n |-> i]]
    BY <2>5, <2>6
  <2>8. UNCHANGED <<rows, outcome>>
    BY <1>2 DEF WriterTakes
  <2>9. Transferred!Send(r)
    BY <2>1, <2>4, <2>7, <2>8 DEF Transferred!Send
  <2> QED BY <2>9
<1>3. CASE WriterGoesOn(r)
  <2>1. CASE writerAt[r] = "take"
    <3>1. /\ "http" \in closed[r] /\ outcome' = [outcome EXCEPT ![r] = "ended"]
          /\ UNCHANGED <<rows, sent>>
      BY <1>3, <2>1 DEF WriterGoesOn
    <3>2. Len(sent[r]) = rows[r] /\ at[r] # "idle"
      BY <1>0, <2>1, <3>1 DEF FlowAt, RowsInOrder, RunsAt
    <3>3. outcome[r] = "none"
      BY <1>0, <2>1, <3>2 DEF FlowAt, OutcomeAt
    <3> QED BY <3>1, <3>2, <3>3 DEF Transferred!End
  <2>2. CASE writerAt[r] # "take"
    BY <1>3, <2>2 DEF WriterGoesOn
  <2> QED BY <2>1, <2>2
<1>4. CASE FinishRequest(r)
  <2>1. UNCHANGED <<rows, sent>>
    BY <1>4 DEF FinishRequest
  <2>2. CASE Threw(r)
    <3>1. outcome' = [outcome EXCEPT ![r] = OutcomeOfFailure(r)]
      BY <1>4, <2>2 DEF FinishRequest
    <3>2. outcome[r] \in {"none", "ended"}
      <4>1. at[r] # "idle" /\ writerAt[r] \in {"off", "done", "threw"}
        BY <1>4 DEF FinishRequest
      <4> QED BY <1>0, <4>1 DEF FlowAt, OutcomeAt
    <3>3. CASE OutcomeOfFailure(r) = "error"
      <4>1. outcome[r] = "none" /\ sent[r] = <<>>
        BY <3>3 DEF OutcomeOfFailure
      <4> QED BY <2>1, <3>1, <3>3, <4>1 DEF Transferred!Fail
    <3>4. CASE OutcomeOfFailure(r) = "destroyed"
      BY <2>1, <3>1, <3>2, <3>4 DEF Transferred!Break
    <3> QED BY <3>3, <3>4 DEF OutcomeOfFailure
  <2>3. CASE ~ Threw(r)
    <3>1. outcome' = [outcome EXCEPT ![r] = outcome[r]]
      BY <1>4, <2>3 DEF FinishRequest
    <3>2. outcome' = outcome
      BY <3>1 DEF StreamInv, StreamTypes
    <3> QED BY <2>1, <3>2
  <2> QED BY <2>2, <2>3
<1> QED BY <1>1, <1>2, <1>3, <1>4

\* A response that ends properly has every row once and in order, nothing
\* follows an error, and the rows in memory stay bounded, for any requests,
\* rows and sizes, whatever fails and whoever leaves.
THEOREM StreamImplements == StreamSpec => ImplementsTransfer
<1>0. RequestInv => MemoryOK
  BY MemoryBounded DEF RequestInv
<1>1. StreamInit /\ MemoryOK => Transferred!Init
  BY DEF MemoryOK, StreamInit, Transferred!Init
<1>2. RequestInv /\ MemoryOK' /\ [StreamNext]_allVars => [Transferred!Next]_(Transferred!vars)
  <2> SUFFICES ASSUME RequestInv, MemoryOK', [StreamNext]_allVars
               PROVE  [Transferred!Next]_(Transferred!vars)
    OBVIOUS
  <2>1. ClientInv /\ StreamInv
    BY DEF RequestInv
  <2>2. CASE UNCHANGED allVars
    BY <2>2 DEF allVars, streamVars, Transferred!vars, InMemory
  <2>3. CASE StreamNext
    <3>1. ASSUME UNCHANGED <<rows, sent, outcome>> PROVE Transferred!Next
      BY <3>1 DEF MemoryOK, Transferred!Next, Transferred!Keep
    <3>2. PICK r \in Requests :
            \/ Arrive(r) \/ QueryProcess(r)
            \/ PipeTakes(r) \/ PipeAborted(r)
            \/ WriterTakes(r) \/ WriterGoesOn(r) \/ WriterAborted(r)
            \/ AbortOthers(r) \/ Read(r) \/ Leave(r) \/ FinishRequest(r)
      BY <2>3 DEF StreamNext
    <3>3. CASE QueryProcess(r)
      <4>1. UNCHANGED <<rows, sent, outcome>>
        BY <3>3 DEF QueryProcess, Connect, Transaction, Declare, Fetch, Put, PutAborted, BatchPut,
                    Close, Reserve, QueryInSlot, Answer, streamVars, httpVars
      <4> QED BY <3>1, <4>1
    <3>4. CASE PipeTakes(r) \/ PipeAborted(r) \/ WriterAborted(r)
               \/ AbortOthers(r) \/ Read(r) \/ Leave(r)
      <4>1. UNCHANGED <<rows, sent, outcome>>
        BY <3>4 DEF PipeTakes, PipeAborted, WriterAborted, AbortOthers, Read, Leave, streamVars
      <4> QED BY <3>1, <4>1
    <3>5. CASE Arrive(r) \/ WriterTakes(r) \/ WriterGoesOn(r) \/ FinishRequest(r)
      <4>1. \/ UNCHANGED <<rows, sent, outcome>>
            \/ Transferred!Begin(r) \/ Transferred!Send(r) \/ Transferred!End(r)
            \/ Transferred!Fail(r) \/ Transferred!Break(r)
        BY <2>1, <3>5, VisibleSteps
      <4> QED BY <3>1, <4>1 DEF MemoryOK, Transferred!Next
    <3> QED BY <3>2, <3>3, <3>4, <3>5
  <2> QED BY <2>2, <2>3
<1> QED BY <1>0, <1>1, <1>2, RequestInvHolds, PTL
        DEF StreamSpec, ImplementsTransfer, Transferred!Spec
=============================================================================
