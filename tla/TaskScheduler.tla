---------------------------- MODULE TaskScheduler ----------------------------
(***************************************************************************)
(* What both scheduler classes promise their owner: the waiting tasks of a *)
(* source start in the order they came, never more than SlotsPerSource     *)
(* tasks of one source run, and never more than Slots in all. Which source *)
(* is served next is left open. A task may leave at any time, running or   *)
(* not.                                                                    *)
(***************************************************************************)
EXTENDS Naturals, FiniteSets

CONSTANTS TaskIds, Sources, Slots, SlotsPerSource

VARIABLES waiting,   \* of each source: its tasks that have not started
          running,   \* of each source: its tasks that have
          older      \* the pairs <<x, y>> of tasks where x came before y

vars == <<waiting, running, older>>

Init ==
  /\ waiting = [s \in Sources |-> {}]
  /\ running = [s \in Sources |-> {}]
  /\ older = {}

Held == UNION {waiting[s] \cup running[s] : s \in Sources}

Submit(s, id) ==
  /\ id \notin Held
  /\ waiting' = [waiting EXCEPT ![s] = @ \cup {id}]
  /\ older' = older \cup (Held \X {id})
  /\ UNCHANGED running

Start(s, id) ==
  /\ id \in waiting[s]
  /\ \A x \in waiting[s] : <<x, id>> \notin older
  /\ Cardinality(running[s]) < SlotsPerSource
  /\ Cardinality(UNION {running[r] : r \in Sources}) < Slots
  /\ waiting' = [waiting EXCEPT ![s] = @ \ {id}]
  /\ running' = [running EXCEPT ![s] = @ \cup {id}]
  /\ UNCHANGED older

Leave(s, id) ==
  /\ id \in waiting[s] \cup running[s]
  /\ waiting' = [waiting EXCEPT ![s] = @ \ {id}]
  /\ running' = [running EXCEPT ![s] = @ \ {id}]
  /\ older' = {pair \in older : id \notin {pair[1], pair[2]}}

Next ==
  \E s \in Sources, id \in TaskIds : Submit(s, id) \/ Start(s, id) \/ Leave(s, id)

Spec == Init /\ [][Next]_vars
==============================================================================
