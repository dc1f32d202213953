------------------------------ MODULE TaskPool ------------------------------
(***************************************************************************)
(* What the work threads promise to whoever gives them a task: it is       *)
(* executed once, or, when the program ends, thrown away once; it never    *)
(* disappears.                                                             *)
(***************************************************************************)
CONSTANT Task

VARIABLES
  waiting,   \* tasks that were given and not yet begun
  finished   \* tasks that were executed or thrown away

vars == <<waiting, finished>>

Init == waiting = {} /\ finished = {}

Give(k) ==
  /\ k \notin waiting \cup finished
  /\ waiting' = waiting \cup {k}
  /\ UNCHANGED finished

\* Some of the waiting tasks are done with: one when it was executed, all of
\* a thread's when the thread object is deleted.
Finish(K) ==
  /\ K # {} /\ K \subseteq waiting
  /\ waiting' = waiting \ K
  /\ finished' = finished \cup K

Next == \/ \E k \in Task : Give(k)
        \/ \E K \in SUBSET waiting : Finish(K)

Spec == Init /\ [][Next]_vars

=============================================================================
