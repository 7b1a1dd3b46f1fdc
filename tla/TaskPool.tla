------------------------------ MODULE TaskPool ------------------------------
(***************************************************************************)
(* What TaskThreadPool promises those who submit tasks, with no thread, no *)
(* lock and no condition variable: a task is accepted only while the pool  *)
(* runs, an accepted task is begun and ended once, even if the pool is     *)
(* told to stop, and the pool has stopped only when nothing is left.  This *)
(* is all that RpcServer uses of it.                                       *)
(***************************************************************************)
CONSTANT Tasks

VARIABLES pool, state

poolVars == <<pool, state>>

Init ==
  /\ pool = "NOT_START"
  /\ state = [t \in Tasks |-> "new"]

\* A start() that fails is a stop at once.
PoolMoves == {<<"NOT_START", "RUNNING">>, <<"NOT_START", "STOPPING">>, <<"RUNNING", "STOPPING">>}

Control ==
  /\ <<pool, pool'>> \in PoolMoves
  /\ UNCHANGED state

Drained ==
  /\ pool = "STOPPING"
  /\ \A t \in Tasks : state[t] \notin {"accepted", "running"}
  /\ pool' = "STOPPED"
  /\ UNCHANGED state

\* One task takes one step.
TaskMoves == {<<"new", "refused">>, <<"accepted", "running">>, <<"running", "done">>}

Task(t) ==
  /\ \/ <<state[t], state'[t]>> \in TaskMoves
     \/ pool = "RUNNING" /\ state[t] = "new" /\ state'[t] = "accepted"
  /\ \A u \in Tasks \ {t} : state'[u] = state[u]
  /\ UNCHANGED pool

Next == Control \/ Drained \/ \E t \in Tasks : Task(t)

Spec == Init /\ [][Next]_poolVars
=============================================================================
