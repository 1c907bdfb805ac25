---------------------------- MODULE DistScheduler ----------------------------
(***************************************************************************)
(* The distributed scheduler: API worker processes ask the master process  *)
(* for a slot, run when they are told READY, and report COMPLETE.          *)
(*                                                                         *)
(* Master: the loop runDistScheduler (dist-scheduler-master.js) around a   *)
(* scheduler object, and the dispatcher of messaging-master.js. Workers:   *)
(* dist-scheduler-client.js over messaging-worker.js. There is one such    *)
(* master for queries and one for connections; which of the two this is,   *)
(* that is of which class its scheduler object is, the start chooses.      *)
(*                                                                         *)
(* Everything the master does between two events is one turn of its event  *)
(* loop. The loop "while canRunTask" is one turn too, but one action per   *)
(* started task here (pc = "drain"): during it the master takes no message *)
(* and no timer, only the workers move.                                    *)
(***************************************************************************)
EXTENDS Naturals, Sequences, FiniteSets, SequencesExt

CONSTANTS TaskIds, Workers, Sources,
          WorkerOf, SourceOf,   \* of each task id: who draws it, for which client
          Durations             \* running times, as the master's clock sees them

CONSTANTS Slots, SlotsPerSource, PrioritySlots, InitialPriorityOffset

ASSUME TasksAssumption ==
  /\ WorkerOf \in [TaskIds -> Workers]
  /\ SourceOf \in [TaskIds -> Sources]

ASSUME SchedulerOptionsAssumption ==
  /\ {Slots, SlotsPerSource} \subseteq Nat \ {0}
  /\ {PrioritySlots, InitialPriorityOffset} \subseteq Nat

VARIABLES
  \* chosen at the start: TRUE if nobody dies and no timer fires
  reliable,
  \* workers
  alive,             \* the workers that have not died
  client,            \* the process that schedule() started for each task
  entries,           \* ids with a descriptor in the tasks map of their worker
  \* pipes between the processes
  toMaster, toWorker,
  \* master
  pc,                \* "select", "drain", or "dead": the loop has thrown
  scheduler,         \* the scheduler object
  taskMap,           \* ids in taskMap
  subscriptions,     \* ids with a receiveOnce subscription for COMPLETE
  awaiting,          \* ids whose receiveOnce has neither resolved nor timed out
  enqueueChannel, completeChannel, timeoutChannel

-----------------------------------------------------------------------------
\* The scheduler object and the calls of its methods

Query == INSTANCE QuerySchedulerOps
Connection == INSTANCE ConnectionSchedulerOps

IsQuery(s) == "priorities" \in DOMAIN s

NewSchedulers == {Query!NewScheduler, Connection!NewScheduler}

SchedulerTasks(s) == IF IsQuery(s) THEN Query!TasksOf(s) ELSE Connection!TasksOf(s)

SchedulerExceeds(s, source) ==
  IF IsQuery(s) THEN Query!exceedsQueueLimit(s, source)
                ELSE Connection!exceedsQueueLimit(s, source)

SchedulerSchedule(s, source, id) ==
  IF IsQuery(s) THEN Query!scheduleTask(s, source, id)
                ELSE Connection!scheduleTask(s, source, id)

\* What runTask may start; none if canRunTask is false.
SchedulerRunnable(s) ==
  IF IsQuery(s) THEN Query!runnableTasks(s) ELSE Connection!runnableTasks(s)

SchedulerRun(s, task) ==
  IF IsQuery(s) THEN Query!runTask(s, task) ELSE Connection!runTask(s, task)

SchedulerThrows(s, id) ==
  IF IsQuery(s) THEN Query!completeTaskThrows(s, id) ELSE Connection!completeTaskThrows(s, id)

SchedulerComplete(s, id, duration) ==
  IF IsQuery(s) THEN Query!completeTask(s, id, duration)
                ELSE Connection!completeTask(s, id, duration)

-----------------------------------------------------------------------------
workerVars == <<alive, client, entries>>
pipeVars   == <<toMaster, toWorker>>
loopVars   == <<pc, scheduler, taskMap>>
waitVars   == <<subscriptions, awaiting>>
chanVars   == <<enqueueChannel, completeChannel, timeoutChannel>>
vars == <<workerVars, pipeVars, loopVars, waitVars, chanVars>>

ClientStates ==
  {"new",        \* not scheduled yet
   "waiting",    \* in takeWithTimeout
   "running",    \* taskFn is running: the slot is in use
   "done",       \* taskFn has ended
   "rejected",   \* REJECT received, TimeoutErrorClass thrown
   "timedout",   \* no answer in time, TimeoutErrorClass thrown
   "lost"}       \* the worker died

Message(type) == [type : {type}, task : TaskIds]
Post(pipe, w, type, t) == [pipe EXCEPT ![w] = Append(@, [type |-> type, task |-> t])]

Init ==
  /\ reliable \in BOOLEAN
  /\ alive = Workers
  /\ client = [t \in TaskIds |-> "new"]
  /\ entries = {}
  /\ toMaster = [w \in Workers |-> <<>>]
  /\ toWorker = [w \in Workers |-> <<>>]
  /\ pc = "select"
  /\ scheduler \in NewSchedulers
  /\ taskMap = {}
  /\ subscriptions = {}
  /\ awaiting = {}
  /\ enqueueChannel = <<>>
  /\ completeChannel = <<>>
  /\ timeoutChannel = <<>>

-----------------------------------------------------------------------------
\* Workers

\* schedule(clientId, taskFn, timeout). Without a client id the code runs
\* taskFn at once, outside the scheduler: such calls are not tasks here.
Schedule(t) ==
  /\ client[t] = "new"
  /\ WorkerOf[t] \in alive
  /\ client' = [client EXCEPT ![t] = "waiting"]
  /\ entries' = entries \cup {t}
  /\ toMaster' = Post(toMaster, WorkerOf[t], "ENQUEUE", t)
  /\ UNCHANGED <<alive, toWorker, loopVars, waitVars, chanVars>>

\* Slip: the worker forgets the task it gave up on.
ClientTimeout_DropsEntry(t) ==
  /\ ~reliable
  /\ client[t] = "waiting"
  /\ client' = [client EXCEPT ![t] = "timedout"]
  /\ entries' = entries \ {t}
  /\ UNCHANGED <<alive, pipeVars, loopVars, waitVars, chanVars>>

\* takeWithTimeout gives up. The descriptor stays, the master is not told.
ClientTimeout(t) ==
  /\ ~reliable
  /\ client[t] = "waiting"
  /\ client' = [client EXCEPT ![t] = "timedout"]
  /\ UNCHANGED <<alive, entries, pipeVars, loopVars, waitVars, chanVars>>

\* Slip: COMPLETE is sent without waiting for taskFn.
HandleReady_EarlyComplete(t) ==
  /\ entries' = entries \ {t}
  /\ client' = [client EXCEPT ![t] = IF @ = "waiting" THEN "running" ELSE @]
  /\ toMaster' = Post(toMaster, WorkerOf[t], "COMPLETE", t)

\* READY: the waiting process runs taskFn; COMPLETE follows when it ends. A
\* process that has given up has ended already: COMPLETE goes out at once.
HandleReady(t) ==
  /\ entries' = entries \ {t}
  /\ IF client[t] = "waiting"
     THEN client' = [client EXCEPT ![t] = "running"] /\ UNCHANGED toMaster
     ELSE toMaster' = Post(toMaster, WorkerOf[t], "COMPLETE", t) /\ UNCHANGED client

HandleReject(t) ==
  /\ entries' = entries \ {t}
  /\ client' = [client EXCEPT ![t] = IF @ = "waiting" THEN "rejected" ELSE @]
  /\ UNCHANGED toMaster

\* "Unexpected": the task has no descriptor; COMPLETE is sent all the same.
HandleUnexpected(t) ==
  /\ toMaster' = Post(toMaster, WorkerOf[t], "COMPLETE", t)
  /\ UNCHANGED <<client, entries>>

\* The client's loop over readyChannel and rejectChannel.
ReceiveAnswer(w) ==
  /\ w \in alive
  /\ toWorker[w] # <<>>
  /\ LET answer == Head(toWorker[w])
     IN  IF answer.task \notin entries  THEN HandleUnexpected(answer.task)
         ELSE IF answer.type = "READY" THEN HandleReady(answer.task)
                                       ELSE HandleReject(answer.task)
  /\ toWorker' = [toWorker EXCEPT ![w] = Tail(@)]
  /\ UNCHANGED <<alive, loopVars, waitVars, chanVars>>

\* taskFn returns, throws or is aborted.
Finish(t) ==
  /\ client[t] = "running"
  /\ client' = [client EXCEPT ![t] = "done"]
  /\ toMaster' = Post(toMaster, WorkerOf[t], "COMPLETE", t)
  /\ UNCHANGED <<alive, entries, toWorker, loopVars, waitVars, chanVars>>

\* A worker process dies. What it had not flushed is lost, what was sent to it
\* too. The master respawns it under a new id, which is another member of
\* Workers. Nothing tells the scheduler.
Crash(w) ==
  /\ ~reliable
  /\ w \in alive
  /\ alive' = alive \ {w}
  /\ client' = [t \in TaskIds |->
                  IF WorkerOf[t] = w /\ client[t] \in {"waiting", "running"}
                  THEN "lost" ELSE client[t]]
  /\ entries' = {t \in entries : WorkerOf[t] # w}
  /\ \E n \in 0..Len(toMaster[w]) :
       toMaster' = [toMaster EXCEPT ![w] = SubSeq(@, 1, n)]
  /\ toWorker' = [toWorker EXCEPT ![w] = <<>>]
  /\ UNCHANGED <<loopVars, waitVars, chanVars>>

-----------------------------------------------------------------------------
\* Master: messages and timers

\* send(): a message to a worker that is gone is only logged.
Send(w, type, t) ==
  toWorker' = IF w \in alive THEN Post(toWorker, w, type, t) ELSE toWorker

\* Slip: the timer of receiveOnce is not settled by the message.
HandleComplete_TimerStays(t) ==
  /\ completeChannel' = IF t \in awaiting THEN Append(completeChannel, t) ELSE completeChannel
  /\ subscriptions' = subscriptions \ {t}
  /\ UNCHANGED awaiting

\* The subscription of the task is removed. The process behind it passes the
\* id on unless its timer fired first. Without a subscription the message is
\* lost.
HandleComplete(t) ==
  /\ completeChannel' = IF t \in awaiting THEN Append(completeChannel, t) ELSE completeChannel
  /\ subscriptions' = subscriptions \ {t}
  /\ awaiting' = awaiting \ {t}

\* The dispatcher of messaging-master.
Dispatch(w) ==
  /\ pc # "drain"
  /\ toMaster[w] # <<>>
  /\ toMaster' = [toMaster EXCEPT ![w] = Tail(@)]
  /\ LET message == Head(toMaster[w])
     IN  IF message.type = "ENQUEUE"
         THEN /\ enqueueChannel' = Append(enqueueChannel, message.task)
              /\ UNCHANGED <<completeChannel, waitVars>>
         ELSE HandleComplete(message.task) /\ UNCHANGED enqueueChannel
  /\ UNCHANGED <<workerVars, toWorker, loopVars, timeoutChannel>>

\* Slip: the error of receiveOnce is only logged.
TimerFires_Swallowed(t) ==
  /\ awaiting' = awaiting \ {t}
  /\ UNCHANGED <<subscriptions, timeoutChannel>>

TimerFires(t) ==
  /\ awaiting' = awaiting \ {t}
  /\ timeoutChannel' = Append(timeoutChannel, t)
  /\ UNCHANGED subscriptions

\* receiveOnce times out, whether the task is running or still queued: the
\* timer was started when the task was enqueued. The subscription stays.
MasterTimeout(t) ==
  /\ ~reliable
  /\ pc # "drain"
  /\ t \in awaiting
  /\ TimerFires(t)
  /\ UNCHANGED <<workerVars, pipeVars, loopVars, enqueueChannel, completeChannel>>

-----------------------------------------------------------------------------
\* Master: the loop

TakeEnqueue ==
  /\ pc = "select"
  /\ enqueueChannel # <<>>
  /\ LET t == Head(enqueueChannel)
     IN  IF SchedulerExceeds(scheduler, SourceOf[t])
         THEN /\ Send(WorkerOf[t], "REJECT", t)
              /\ UNCHANGED <<scheduler, taskMap, waitVars>>
         ELSE /\ scheduler' = SchedulerSchedule(scheduler, SourceOf[t], t)
              /\ taskMap' = taskMap \cup {t}
              /\ subscriptions' = subscriptions \cup {t}
              /\ awaiting' = awaiting \cup {t}
              /\ UNCHANGED toWorker
  /\ enqueueChannel' = Tail(enqueueChannel)
  /\ pc' = "drain"
  /\ UNCHANGED <<workerVars, toMaster, completeChannel, timeoutChannel>>

\* Slip: taskMap is not cleaned.
Release_KeepsEntry(t) ==
  /\ pc' = "drain"
  /\ \E d \in Durations : scheduler' = SchedulerComplete(scheduler, t, d)
  /\ UNCHANGED taskMap

\* Slip: nothing is started in the freed slot.
Release_Undrained(t) ==
  /\ pc' = "select"
  /\ taskMap' = taskMap \ {t}
  /\ \E d \in Durations : scheduler' = SchedulerComplete(scheduler, t, d)

\* Both branches of the loop: completeTask, unless it throws.
Release(t) ==
  /\ taskMap' = taskMap \ {t}
  /\ IF SchedulerThrows(scheduler, t)
     THEN pc' = "dead" /\ UNCHANGED scheduler
     ELSE /\ pc' = "drain"
          /\ \E d \in Durations : scheduler' = SchedulerComplete(scheduler, t, d)

TakeComplete ==
  /\ pc = "select"
  /\ completeChannel # <<>>
  /\ Release(Head(completeChannel))
  /\ completeChannel' = Tail(completeChannel)
  /\ UNCHANGED <<workerVars, pipeVars, waitVars, enqueueChannel, timeoutChannel>>

TakeTimeout ==
  /\ pc = "select"
  /\ timeoutChannel # <<>>
  /\ Release(Head(timeoutChannel))
  /\ timeoutChannel' = Tail(timeoutChannel)
  /\ UNCHANGED <<workerVars, pipeVars, waitVars, enqueueChannel, completeChannel>>

\* One round of "while canRunTask". A started task that taskMap does not
\* know makes the loop throw.
RunTask ==
  /\ pc = "drain"
  /\ \E task \in SchedulerRunnable(scheduler) :
       /\ scheduler' = SchedulerRun(scheduler, task)
       /\ IF task.id \in taskMap
          THEN Send(WorkerOf[task.id], "READY", task.id) /\ UNCHANGED pc
          ELSE pc' = "dead" /\ UNCHANGED toWorker
  /\ UNCHANGED <<workerVars, toMaster, taskMap, waitVars, chanVars>>

Drained ==
  /\ pc = "drain"
  /\ SchedulerRunnable(scheduler) = {}
  /\ pc' = "select"
  /\ UNCHANGED <<workerVars, pipeVars, scheduler, taskMap, waitVars, chanVars>>

\* Nothing is in flight and every task of a living worker has had its end.
Quiet ==
  /\ pc = "select"
  /\ \A w \in Workers : toMaster[w] = <<>> /\ toWorker[w] = <<>>
  /\ chanVars = <<<<>>, <<>>, <<>>>>
  /\ \A t \in TaskIds : client[t] = "new" => WorkerOf[t] \notin alive
  /\ \A t \in TaskIds : client[t] \notin {"waiting", "running"}
  /\ UNCHANGED vars

Next ==
  \/ \E t \in TaskIds : Schedule(t)
  \/ \E t \in TaskIds : ClientTimeout(t)
  \/ \E w \in Workers : ReceiveAnswer(w)
  \/ \E t \in TaskIds : Finish(t)
  \/ \E w \in Workers : Crash(w)
  \/ \E w \in Workers : Dispatch(w)
  \/ \E t \in TaskIds : MasterTimeout(t)
  \/ TakeEnqueue
  \/ TakeComplete
  \/ TakeTimeout
  \/ RunTask
  \/ Drained
  \/ Quiet

Spec == Init /\ [][Next /\ UNCHANGED reliable]_<<reliable, vars>>

\* Event loops keep turning and timers fire; tasks end (a query has a
\* statement timeout). Nobody has to call schedule, and no timer has to beat
\* the event it guards against.
Fairness ==
  /\ \A w \in Workers : WF_vars(ReceiveAnswer(w)) /\ WF_vars(Dispatch(w))
  /\ \A t \in TaskIds : WF_vars(Finish(t)) /\ WF_vars(MasterTimeout(t))
  /\ WF_vars(TakeEnqueue) /\ WF_vars(TakeComplete) /\ WF_vars(TakeTimeout)
  /\ WF_vars(RunTask) /\ WF_vars(Drained)

FairSpec == Spec /\ Fairness

-----------------------------------------------------------------------------
HeldIds == {t.id : t \in SchedulerTasks(scheduler)}

GivenUp == subscriptions \ awaiting   \* the master's timer has fired

InFlight(w, type) == {m.task : m \in {x \in ToSet(toMaster[w]) \cup ToSet(toWorker[w]) :
                                         x.type = type}}

\* Types.
TypeOK ==
  /\ alive \subseteq Workers
  /\ client \in [TaskIds -> ClientStates]
  /\ \A w \in Workers : /\ ToSet(toMaster[w]) \subseteq Message("ENQUEUE") \cup Message("COMPLETE")
                        /\ ToSet(toWorker[w]) \subseteq Message("READY") \cup Message("REJECT")
  /\ pc \in {"select", "drain", "dead"}
  /\ UNION {entries, taskMap, subscriptions, awaiting} \subseteq TaskIds
  /\ awaiting \subseteq subscriptions

\* The loop never throws: completeTask is only called for a task the
\* scheduler holds, although the answer of the worker and the timer race,
\* and a started task is in taskMap. A throw would end the loop, and no
\* query would get a slot until the master is restarted.
MasterAlive == pc # "dead"

\* taskMap is exactly what the scheduler holds: no entry leaks, and every
\* task that can start knows its worker.
TaskMapExact == taskMap = HeldIds

\* Every task the scheduler holds will be released: its receiveOnce is
\* pending, or its id is on the way to the loop, once in one channel.
EveryTaskHasARelease ==
  LET completed == ToSet(completeChannel)
      timedOut  == ToSet(timeoutChannel)
  IN  /\ IsInjective(completeChannel) /\ IsInjective(timeoutChannel)
      /\ completed \cap timedOut = {}
      /\ awaiting \cap (completed \cup timedOut) = {}
      /\ awaiting \cup completed \cup timedOut = HeldIds

\* No slot leaks and none is given back twice: what the master knows of a
\* task is consistent at any time.
TasksAreTracked == TypeOK /\ TaskMapExact /\ EveryTaskHasARelease

\* No message is "unexpected". While a COMPLETE is on its way its subscription
\* is there, also when the master gave up on the task in the meantime; a READY
\* or REJECT on its way to a living worker finds its descriptor, and a task
\* gets at most one answer.
MessagesExpected ==
  \A w \in Workers :
    /\ InFlight(w, "COMPLETE") \subseteq subscriptions
    /\ InFlight(w, "READY") \cup InFlight(w, "REJECT") \subseteq entries
    /\ \A i, j \in DOMAIN toWorker[w] : toWorker[w][i].task = toWorker[w][j].task => i = j

\* What runs in the workers, apart from tasks the master gave up waiting for.
InUse == {t \in TaskIds : client[t] = "running"} \ GivenUp

\* The limits the scheduler keeps in its own books hold where they matter, in
\* the workers: what runs there is among the tasks it counts as started, so it
\* never exceeds the slots, nor, of one client, the share of a client.
RunningIsAccounted ==
  /\ InUse \subseteq {x.id : x \in scheduler.started}
  /\ Cardinality(InUse) <= Slots
  /\ \A source \in Sources :
       Cardinality({t \in InUse : SourceOf[t] = source}) <= SlotsPerSource

\* Whatever dies, a slot is not held for ever: every task leaves the scheduler.
SlotsAreReleased == \A t \in TaskIds : t \in HeldIds ~> t \notin HeldIds

\* When nobody dies and no timer fires, every task is run or rejected: the
\* handshake itself loses nobody.
EveryTaskAnswered ==
  \A t \in TaskIds :
    reliable /\ client[t] = "waiting" ~> client[t] \in {"done", "rejected"}
==============================================================================
