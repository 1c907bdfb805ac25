------------------------------ MODULE TaskList -------------------------------
(***************************************************************************)
(* The array of tasks both scheduler classes keep, oldest first. A task    *)
(* is [id, source]; ids are unique in an array.                            *)
(***************************************************************************)
EXTENDS Naturals, Sequences

Elements(tasks) == {tasks[i] : i \in DOMAIN tasks}

UniqueIdsIn(tasks) ==
  \A i, j \in DOMAIN tasks : tasks[i].id = tasks[j].id => i = j

\* Slip: last in, first out.
oldest_Newest(tasks, S) ==
  LET positions == {i \in DOMAIN tasks : tasks[i] \in S}
  IN  tasks[CHOOSE i \in positions : \A j \in positions : i >= j]

\* The oldest task that is in S.
oldest(tasks, S) ==
  LET positions == {i \in DOMAIN tasks : tasks[i] \in S}
  IN  tasks[CHOOSE i \in positions : \A j \in positions : i <= j]

\* The ids of the tasks in S that one source has.
idsOf(S, source) == {t.id : t \in {u \in S : u.source = source}}

\* The pairs of ids of which the first comes before the second.
olderIn(tasks) ==
  LET ids == {tasks[i].id : i \in DOMAIN tasks}
  IN  {pair \in ids \X ids :
         \E i, j \in DOMAIN tasks : i < j /\ pair = <<tasks[i].id, tasks[j].id>>}

\* tasks.filter(task => task.taskId !== id), for the id of one task.
without(tasks, id) ==
  LET n == CHOOSE i \in DOMAIN tasks : tasks[i].id = id
  IN  [i \in 1..(Len(tasks) - 1) |-> IF i < n THEN tasks[i] ELSE tasks[i + 1]]
==============================================================================
