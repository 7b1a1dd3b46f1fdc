------------------------ MODULE TaskThreadPoolProofs ------------------------
(***************************************************************************)
(* Proofs about TaskThreadPool, for any number of workers, controllers and *)
(* tasks.                                                                  *)
(***************************************************************************)
EXTENDS TaskThreadPool, TLAPS

-----------------------------------------------------------------------------
(***************************************************************************)
(* Queues                                                                  *)
(***************************************************************************)
In(t, s)     == \E k \in DOMAIN s : s[k] = t
Distinct(s)  == \A k, l \in DOMAIN s : s[k] = s[l] => k = l

\* Adding at the end (tasks_.emplace, queueInLoop): exactly the new element is
\* added, and a queue without duplicates to which it is new stays one.
LEMMA AppendFacts ==
  ASSUME NEW S, NEW s \in Seq(S), NEW e \in S
  PROVE  /\ Append(s, e) \in Seq(S)
         /\ Append(s, e) # <<>>
         /\ \A t \in S : In(t, Append(s, e)) <=> In(t, s) \/ t = e
         /\ Distinct(s) /\ ~In(e, s) => Distinct(Append(s, e))
<1>1. /\ Append(s, e) \in Seq(S) /\ Append(s, e) # <<>>
      /\ Len(s) \in Nat /\ DOMAIN s = 1..Len(s)
      /\ DOMAIN Append(s, e) = 1..(Len(s) + 1)
      /\ \A k \in 1..Len(s) : Append(s, e)[k] = s[k]
      /\ Append(s, e)[Len(s) + 1] = e
  OBVIOUS
<1>2. ASSUME NEW t \in S PROVE In(t, Append(s, e)) <=> In(t, s) \/ t = e
  BY <1>1 DEF In
<1>3. Distinct(s) /\ ~In(e, s) => Distinct(Append(s, e))
  BY <1>1 DEF In, Distinct
<1> QED BY <1>1, <1>2, <1>3

\* Taking from the front (tasks_.pop, the loop running a functor): exactly the
\* first element is removed.
LEMMA TailFacts ==
  ASSUME NEW S, NEW s \in Seq(S), s # <<>>, Distinct(s)
  PROVE  /\ Head(s) \in S /\ In(Head(s), s)
         /\ Tail(s) \in Seq(S)
         /\ Distinct(Tail(s))
         /\ \A t : In(t, Tail(s)) <=> In(t, s) /\ t # Head(s)
<1> DEFINE u == Tail(s)
<1>1. Len(s) \in Nat \ {0} /\ u \in Seq(S) /\ Len(u) = Len(s) - 1
      /\ Head(s) = s[1] /\ s[1] \in S
      /\ \A k \in 1..Len(u) : u[k] = s[k + 1]
  OBVIOUS
<1>2. DOMAIN s = 1..Len(s) /\ DOMAIN u = 1..(Len(s) - 1)
  BY <1>1
<1> HIDE DEF u
<1>3. Distinct(u)
  <2> SUFFICES ASSUME NEW k \in DOMAIN u, NEW l \in DOMAIN u, u[k] = u[l] PROVE k = l
    BY DEF Distinct
  <2>1. k + 1 \in DOMAIN s /\ l + 1 \in DOMAIN s /\ s[k + 1] = s[l + 1]
    BY <1>1, <1>2
  <2> QED BY <2>1, <1>2 DEF Distinct
<1>4. ASSUME NEW t, In(t, u) PROVE In(t, s) /\ t # Head(s)
  <2>1. PICK k \in DOMAIN u : u[k] = t
    BY <1>4 DEF In
  <2>2. k + 1 \in DOMAIN s /\ s[k + 1] = t /\ 1 \in DOMAIN s /\ k + 1 # 1
    BY <1>1, <1>2, <2>1
  <2> QED BY <1>1, <2>2 DEF In, Distinct
<1>5. ASSUME NEW t, In(t, s), t # Head(s) PROVE In(t, u)
  <2>1. PICK k \in DOMAIN s : s[k] = t
    BY <1>5 DEF In
  <2>2. k # 1
    BY <2>1, <1>5, <1>1
  <2>3. k - 1 \in DOMAIN u /\ u[k - 1] = s[(k - 1) + 1] /\ (k - 1) + 1 = k
    BY <1>1, <1>2, <2>2
  <2> QED BY <2>1, <2>3 DEF In
<1>6. In(Head(s), s)
  BY <1>1, <1>2 DEF In
<1> QED BY <1>1, <1>3, <1>4, <1>5, <1>6 DEF u

Ascending(s) == \A k, l \in DOMAIN s : k < l => s[k] < s[l]

\* A queue of ascending numbers stays one when a larger number joins it.
LEMMA AppendAscending ==
  ASSUME NEW s \in Seq(Nat), NEW e \in Nat, Ascending(s), \A t \in Nat : In(t, s) => t < e
  PROVE  Ascending(Append(s, e))
<1>1. /\ Len(s) \in Nat /\ DOMAIN s = 1..Len(s)
      /\ DOMAIN Append(s, e) = 1..(Len(s) + 1)
      /\ \A k \in 1..Len(s) : Append(s, e)[k] = s[k]
      /\ Append(s, e)[Len(s) + 1] = e
  OBVIOUS
<1>2. \A k \in DOMAIN s : s[k] < e
  BY <1>1 DEF In
<1> SUFFICES ASSUME NEW k \in 1..(Len(s) + 1), NEW l \in 1..(Len(s) + 1), k < l
             PROVE  Append(s, e)[k] < Append(s, e)[l]
  BY <1>1 DEF Ascending
<1>3. k \in DOMAIN s
  BY <1>1
<1>4. CASE l = Len(s) + 1
  BY <1>1, <1>2, <1>3, <1>4
<1>5. CASE l # Len(s) + 1
  <2>1. l \in DOMAIN s
    BY <1>1, <1>5
  <2> QED BY <1>1, <1>3, <2>1 DEF Ascending
<1> QED BY <1>4, <1>5

\* Its first element is the smallest, and the rest is ascending too.
LEMMA TailAscending ==
  ASSUME NEW s \in Seq(Nat), s # <<>>, Ascending(s)
  PROVE  Ascending(Tail(s)) /\ \A t : In(t, Tail(s)) => Head(s) < t
<1> DEFINE u == Tail(s)
<1>1. Len(s) \in Nat \ {0} /\ u \in Seq(Nat) /\ Len(u) = Len(s) - 1 /\ Head(s) = s[1]
      /\ \A k \in 1..Len(u) : u[k] = s[k + 1]
  OBVIOUS
<1>2. DOMAIN s = 1..Len(s) /\ DOMAIN u = 1..(Len(s) - 1)
  BY <1>1
<1> HIDE DEF u
<1>3. Ascending(u)
  <2> SUFFICES ASSUME NEW k \in 1..(Len(s) - 1), NEW l \in 1..(Len(s) - 1), k < l
               PROVE  u[k] < u[l]
    BY <1>2 DEF Ascending
  <2>1. k + 1 \in DOMAIN s /\ l + 1 \in DOMAIN s /\ k + 1 < l + 1
    BY <1>1, <1>2
  <2>2. s[k + 1] < s[l + 1]
    BY <2>1 DEF Ascending
  <2>3. u[k] = s[k + 1] /\ u[l] = s[l + 1]
    BY <1>1, <1>2
  <2> QED BY <2>2, <2>3
<1>4. ASSUME NEW t, In(t, u) PROVE Head(s) < t
  <2>1. PICK k \in DOMAIN u : u[k] = t
    BY <1>4 DEF In
  <2>2. 1 \in DOMAIN s /\ k + 1 \in DOMAIN s /\ 1 < k + 1 /\ s[k + 1] = t
    BY <1>1, <1>2, <2>1
  <2>3. s[1] < s[k + 1]
    BY <2>2 DEF Ascending
  <2> QED BY <1>1, <2>2, <2>3
<1> QED BY <1>3, <1>4 DEF u
-----------------------------------------------------------------------------
(***************************************************************************)
(* The inductive invariant                                                 *)
(***************************************************************************)
\* Who may still be running.  A running pool has all its workers; a worker
\* that is alive is one that stop() joins; a queue that holds a task has a
\* worker alive; only one controller at a time is in stop(), and the pool is
\* not stopped before it has joined every thread.
Staffed ==
  /\ status = "NOT_START" => tasks = <<>> /\ \A w \in Workers : worker[w] = "absent"
  /\ status = "RUNNING" => \A w \in Workers : Live(w)
  /\ status = "STOPPED" => threads = {}
  /\ \A w \in Workers : Live(w) => w \in threads
  /\ tasks # <<>> => \E w \in Workers : Live(w)
  /\ \A c \in Controllers : control[c] # "idle" => status = "STOPPING"
  /\ \A c \in Controllers : control[c] = "finish" => threads = {}
  /\ \A c, d \in Controllers : control[c] # "idle" /\ control[d] # "idle" => c = d

\* addTask() has not used the numbers from nextTask on.
Fresh == \A t \in Tasks : t >= nextTask => result[t] = "none"

PoolInv == TypeOK /\ TasksConserved /\ Staffed /\ Fresh

USE PoolAssumption DEF Tasks

\* A pool that has just been constructed satisfies the invariant.
LEMMA PoolInit == Init => PoolInv
<1> SUFFICES ASSUME Init PROVE PoolInv
  OBVIOUS
<1>1. TypeOK
  BY DEF Init, TypeOK, WorkerStates, SubmitResults
<1>2. TasksConserved
  BY DEF Init, TasksConserved, Queued, Taken
<1>3. Staffed
  BY DEF Init, Staffed, Live
<1>4. Fresh
  BY DEF Init, Fresh
<1> QED BY <1>1, <1>2, <1>3, <1>4 DEF PoolInv

\* Type correctness: the base of everything else.
LEMMA TypeStep == TypeOK /\ Staffed /\ [Next]_vars => TypeOK'
<1> SUFFICES ASSUME TypeOK, Staffed, [Next]_vars PROVE TypeOK'
  OBVIOUS
<1> USE DEF TypeOK, WorkerStates, SubmitResults
<1>1. CASE setMaxQueueTasks
  BY <1>1 DEF setMaxQueueTasks, workerVars, submitVars
<1>2. ASSUME NEW c \in Controllers, start(c) PROVE TypeOK'
  BY <1>2 DEF start, Staffed, queueVars, submitVars
<1>3. ASSUME NEW c \in Controllers, stop(c) PROVE TypeOK'
  BY <1>3 DEF stop, queueVars, workerVars, submitVars
<1>4. ASSUME NEW c \in Controllers, NotifyAll(c) PROVE TypeOK'
  BY <1>4 DEF NotifyAll, WakeAll, queueVars, submitVars
<1>5. ASSUME NEW c \in Controllers, JoinAll(c) PROVE TypeOK'
  BY <1>5 DEF JoinAll, queueVars, workerVars, submitVars
<1>6. ASSUME NEW c \in Controllers, FinishStop(c) PROVE TypeOK'
  BY <1>6 DEF FinishStop, queueVars, workerVars, submitVars
<1>7. CASE addTask
  <2>1. nextTask \in Tasks /\ Append(tasks, nextTask) \in Seq(Tasks)
    BY <1>7 DEF addTask
  <2>2. nextTask' \in 1..(MaxTasks + 1)
    BY <1>7 DEF addTask
  <2>3. result' \in [Tasks -> SubmitResults \cup {"none"}]
    BY <1>7 DEF addTask
  <2>4. tasks' \in Seq(Tasks) /\ notifying' \subseteq Tasks
    BY <1>7, <2>1 DEF addTask, PushTask
  <2> QED BY <1>7, <2>2, <2>3, <2>4 DEF addTask, workerVars
<1>8. ASSUME NEW t \in Tasks, NotifyOne(t) PROVE TypeOK'
  BY <1>8 DEF NotifyOne, WakeOne, queueVars
<1>9. ASSUME NEW w \in Workers, WorkerWait(w) \/ WorkerExit(w) \/ SpuriousWakeup(w)
      PROVE TypeOK'
  BY <1>9 DEF WorkerWait, WorkerExit, SpuriousWakeup, queueVars, submitVars
<1>10. ASSUME NEW w \in Workers, WorkerTake(w) PROVE TypeOK'
  <2>1. Head(tasks) \in Tasks /\ Tail(tasks) \in Seq(Tasks) /\ Head(tasks) # 0
    BY <1>10 DEF WorkerTake
  <2>2. /\ tasks' \in Seq(Tasks)
        /\ holding' \in [Workers -> Tasks \cup {0}]
        /\ worker' \in [Workers -> WorkerStates]
    BY <1>10, <2>1 DEF WorkerTake, PopTask
  <2>3. \A v \in Workers : holding'[v] # 0 <=> worker'[v] = "running"
    BY <1>10, <2>1 DEF WorkerTake
  <2> QED BY <1>10, <2>2, <2>3 DEF WorkerTake, submitVars
<1>11. ASSUME NEW w \in Workers, WorkerRun(w) PROVE TypeOK'
  <2>1. holding[w] \in Tasks /\ executed[holding[w]] + 1 \in Nat
    BY <1>11 DEF WorkerRun
  <2> QED BY <1>11, <2>1 DEF WorkerRun, DropTask, queueVars, submitVars
<1>12. CASE UNCHANGED vars
  BY <1>12 DEF vars, queueVars, workerVars, submitVars
<1> QED
  BY <1>1, <1>2, <1>3, <1>4, <1>5, <1>6, <1>7, <1>8, <1>9, <1>10, <1>11, <1>12
  DEF Next, ControlStep, WorkerStep

\* No step loses or repeats an accepted task.
LEMMA ConservedStep == PoolInv /\ [Next]_vars => TasksConserved'
<1> SUFFICES ASSUME PoolInv, [Next]_vars PROVE TasksConserved'
  OBVIOUS
<1> USE DEF PoolInv
<1>a. Distinct(tasks) /\ tasks \in Seq(Tasks) /\ \A t : Queued(t) <=> In(t, tasks)
  BY DEF TasksConserved, TypeOK, Distinct, Queued, In
<1>1. CASE addTask
  <2>1. nextTask \in Tasks /\ result[nextTask] = "none"
    BY <1>1 DEF addTask, Fresh, TypeOK
  <2>2. ~Queued(nextTask) /\ ~Taken(nextTask) /\ executed[nextTask] = 0
    BY <2>1 DEF TasksConserved
  <2>3. UNCHANGED <<holding, executed>>
    BY <1>1 DEF addTask, workerVars
  <2>4. \A t \in Tasks : t # nextTask => result'[t] = result[t]
    BY <1>1, <2>1 DEF addTask, TypeOK
  <2>5. CASE tasks' = tasks /\ result'[nextTask] # "kAccepted"
    BY <2>2, <2>3, <2>4, <2>5 DEF TasksConserved, Queued, Taken
  <2>6. CASE tasks' = Append(tasks, nextTask) /\ result'[nextTask] = "kAccepted"
    <3>1. Distinct(tasks') /\ \A t \in Tasks : In(t, tasks') <=> In(t, tasks) \/ t = nextTask
      BY <1>a, <2>1, <2>2, <2>6, AppendFacts
    <3>2. \A t \in Tasks : Queued(t)' <=> Queued(t) \/ t = nextTask
      BY <1>a, <3>1 DEF Queued, In
    <3>3. \A t \in Tasks : Taken(t)' <=> Taken(t)
      BY <2>3 DEF Taken
    <3> QED BY <2>1, <2>2, <2>3, <2>4, <2>6, <3>1, <3>2, <3>3 DEF TasksConserved, Distinct
  <2>7. \/ tasks' = tasks /\ result'[nextTask] # "kAccepted"
        \/ tasks' = Append(tasks, nextTask) /\ result'[nextTask] = "kAccepted"
    BY <1>1, <2>1 DEF addTask, PushTask, TypeOK
  <2> QED BY <2>5, <2>6, <2>7
<1>2. ASSUME NEW w \in Workers, WorkerTake(w) PROVE TasksConserved'
  <2> DEFINE h == Head(tasks)
  <2>1. /\ h \in Tasks /\ In(h, tasks)
        /\ Distinct(tasks')
        /\ \A t \in Tasks : In(t, tasks') <=> In(t, tasks) /\ t # h
    BY <1>2, <1>a, TailFacts DEF WorkerTake, PopTask
  <2> HIDE DEF h
  <2>2. Queued(h) /\ ~Taken(h) /\ executed[h] = 0 /\ result[h] = "kAccepted" /\ h # 0
    BY <1>a, <2>1 DEF TasksConserved
  <2>3. holding[w] = 0
    BY <1>2 DEF WorkerTake, TypeOK
  <2>4. UNCHANGED <<executed, result>> /\ holding' = [holding EXCEPT ![w] = h]
    BY <1>2 DEF WorkerTake, submitVars, h
  <2>5. \A t \in Tasks : Queued(t)' <=> Queued(t) /\ t # h
    BY <1>a, <2>1 DEF Queued, In
  <2>6. \A t \in Tasks : Taken(t)' <=> Taken(t) \/ t = h
    BY <2>1, <2>3, <2>4 DEF Taken, TypeOK
  <2>7. \A v, u \in Workers : holding'[v] = holding'[u] /\ holding'[v] # 0 => v = u
    BY <2>2, <2>4 DEF TasksConserved, TypeOK, Taken
  <2>8. \A t \in Tasks : IF result'[t] = "kAccepted"
        THEN \/ Queued(t)' /\ ~Taken(t)' /\ executed'[t] = 0
             \/ ~Queued(t)' /\ Taken(t)' /\ executed'[t] = 0
             \/ ~Queued(t)' /\ ~Taken(t)' /\ executed'[t] = 1
        ELSE ~Queued(t)' /\ ~Taken(t)' /\ executed'[t] = 0
    BY <2>2, <2>4, <2>5, <2>6 DEF TasksConserved
  <2> QED BY <2>1, <2>4, <2>7, <2>8 DEF TasksConserved, Distinct
<1>3. ASSUME NEW w \in Workers, WorkerRun(w) PROVE TasksConserved'
  <2> DEFINE h == holding[w]
  <2>1. h \in Tasks /\ h # 0
    BY <1>3 DEF WorkerRun, TypeOK
  <2>2. Taken(h)
    BY <2>1 DEF Taken
  <2>3. ~Queued(h) /\ executed[h] = 0 /\ result[h] = "kAccepted"
    BY <2>1, <2>2 DEF TasksConserved
  <2>4. /\ UNCHANGED <<tasks, result>>
        /\ holding' = [holding EXCEPT ![w] = 0]
        /\ executed' = [executed EXCEPT ![h] = @ + 1]
    BY <1>3 DEF WorkerRun, DropTask, queueVars, submitVars
  <2>5. \A v \in Workers : v # w => holding[v] # h
    BY <2>1 DEF TasksConserved
  <2>6. executed'[h] = 1 /\ \A t \in Tasks : t # h => executed'[t] = executed[t]
    BY <2>1, <2>3, <2>4 DEF TypeOK
  <2>7. \A t \in Tasks : Taken(t)' <=> Taken(t) /\ t # h
    BY <2>1, <2>4, <2>5 DEF Taken, TypeOK
  <2>8. \A t \in Tasks : Queued(t)' <=> Queued(t)
    BY <2>4 DEF Queued
  <2>9. \A v, u \in Workers : holding'[v] = holding'[u] /\ holding'[v] # 0 => v = u
    BY <2>4 DEF TasksConserved, TypeOK
  <2> HIDE DEF h
  <2>10. \A t \in Tasks : executed'[t] \in {0, 1} /\ IF result'[t] = "kAccepted"
        THEN \/ Queued(t)' /\ ~Taken(t)' /\ executed'[t] = 0
             \/ ~Queued(t)' /\ Taken(t)' /\ executed'[t] = 0
             \/ ~Queued(t)' /\ ~Taken(t)' /\ executed'[t] = 1
        ELSE ~Queued(t)' /\ ~Taken(t)' /\ executed'[t] = 0
    BY <2>2, <2>3, <2>4, <2>6, <2>7, <2>8 DEF TasksConserved
  <2> QED BY <2>4, <2>9, <2>10 DEF TasksConserved
<1>4. CASE UNCHANGED <<tasks, holding, result, executed>>
  BY <1>4 DEF TasksConserved, Queued, Taken
<1> QED
  BY <1>1, <1>2, <1>3, <1>4
  DEF Next, ControlStep, WorkerStep, setMaxQueueTasks, start, stop, NotifyAll, JoinAll,
      FinishStop, NotifyOne, WorkerWait, WorkerExit, SpuriousWakeup, vars, queueVars,
      workerVars, submitVars

\* The workers outlive the tasks, and stop() outlives the workers.
LEMMA StaffedStep == PoolInv /\ [Next]_vars => Staffed'
<1> SUFFICES ASSUME PoolInv, [Next]_vars PROVE Staffed'
  OBVIOUS
<1> USE DEF PoolInv, Staffed, TypeOK, Live
<1>1. CASE setMaxQueueTasks
  BY <1>1 DEF setMaxQueueTasks, workerVars, submitVars
<1>2. ASSUME NEW c \in Controllers, start(c) PROVE Staffed'
  <2>1. PICK created \in SUBSET Workers :
          /\ threads' = created
          /\ worker' = [w \in Workers |-> IF w \in created THEN "ready" ELSE "absent"]
          /\ IF created = Workers
             THEN status' = "RUNNING" /\ UNCHANGED control
             ELSE status' = "STOPPING" /\ control' = [control EXCEPT ![c] = "notify"]
    BY <1>2 DEF start
  <2>2. tasks' = <<>> /\ \A d \in Controllers : control[d] = "idle"
    BY <1>2 DEF start, queueVars
  <2> QED BY <2>1, <2>2
<1>3. ASSUME NEW c \in Controllers, stop(c) PROVE Staffed'
  BY <1>3 DEF stop, MayStop, queueVars, workerVars
<1>4. ASSUME NEW c \in Controllers, NotifyAll(c) PROVE Staffed'
  BY <1>4 DEF NotifyAll, WakeAll, queueVars
<1>5. ASSUME NEW c \in Controllers, JoinAll(c) PROVE Staffed'
  BY <1>5 DEF JoinAll, Joinable, queueVars, workerVars
<1>6. ASSUME NEW c \in Controllers, FinishStop(c) PROVE Staffed'
  BY <1>6 DEF FinishStop, queueVars, workerVars
<1>7. CASE addTask
  <2>1. tasks' = tasks \/ status = "RUNNING"
    BY <1>7 DEF addTask, Open
  <2>2. UNCHANGED <<status, threads, worker, control>>
    BY <1>7 DEF addTask, workerVars
  <2> QED BY <2>1, <2>2
<1>8. ASSUME NEW t \in Tasks, NotifyOne(t) PROVE Staffed'
  BY <1>8 DEF NotifyOne, WakeOne, queueVars
<1>9. ASSUME NEW w \in Workers, WorkerWait(w) \/ WorkerExit(w) \/ SpuriousWakeup(w)
      PROVE Staffed'
  <2>1. CASE WorkerExit(w)
    BY <2>1 DEF WorkerExit, MayExit, queueVars
  <2>2. CASE WorkerWait(w) \/ SpuriousWakeup(w)
    <3>1. UNCHANGED <<status, threads, tasks, control>> /\ worker[w] \in {"ready", "waiting"}
      BY <2>2 DEF WorkerWait, SpuriousWakeup, queueVars
    <3>2. \A v \in Workers : Live(v)' <=> Live(v)
      BY <2>2 DEF WorkerWait, SpuriousWakeup
    <3> QED BY <3>1, <3>2
  <2> QED BY <1>9, <2>1, <2>2
<1>10. ASSUME NEW w \in Workers, WorkerTake(w) PROVE Staffed'
  BY <1>10 DEF WorkerTake, PopTask
<1>11. ASSUME NEW w \in Workers, WorkerRun(w) PROVE Staffed'
  BY <1>11 DEF WorkerRun, queueVars
<1>12. CASE UNCHANGED vars
  BY <1>12 DEF vars, queueVars, workerVars
<1> QED
  BY <1>1, <1>2, <1>3, <1>4, <1>5, <1>6, <1>7, <1>8, <1>9, <1>10, <1>11, <1>12
  DEF Next, ControlStep, WorkerStep

\* addTask() numbers its calls one after the other.
LEMMA FreshStep == PoolInv /\ [Next]_vars => Fresh'
<1> SUFFICES ASSUME PoolInv, [Next]_vars PROVE Fresh'
  OBVIOUS
<1>1. CASE addTask
  BY <1>1 DEF addTask, PoolInv, TypeOK, Fresh
<1>2. CASE UNCHANGED <<nextTask, result>>
  BY <1>2 DEF PoolInv, Fresh
<1> QED
  BY <1>1, <1>2
  DEF Next, ControlStep, WorkerStep, setMaxQueueTasks, start, stop, NotifyAll, JoinAll,
      FinishStop, NotifyOne, WorkerWait, WorkerExit, WorkerTake, WorkerRun, SpuriousWakeup,
      vars, submitVars

\* The invariant of the pool, from which the theorems below follow.
THEOREM PoolInvariant == Spec => []PoolInv
<1>1. PoolInv /\ [Next]_vars => PoolInv'
  BY TypeStep, ConservedStep, StaffedStep, FreshStep DEF PoolInv
<1> QED BY <1>1, PoolInit, PTL DEF Spec
-----------------------------------------------------------------------------
(***************************************************************************)
(* Theorems                                                                *)
(***************************************************************************)
\* Every variable keeps its type, and exactly the running workers hold a task.
THEOREM TypeCorrect == Spec => []TypeOK
<1>1. PoolInv => TypeOK
  BY DEF PoolInv
<1> QED BY <1>1, PoolInvariant, PTL

\* addTask(), run() and stop(): no accepted task is lost or run twice.
THEOREM TasksAreConserved == Spec => []TasksConserved
<1>1. PoolInv => TasksConserved
  BY DEF PoolInv
<1> QED BY <1>1, PoolInvariant, PTL

\* A pool that stop(), or a failed start(), has declared STOPPED has run all it
\* accepted and has no thread left.
THEOREM StoppedPoolIsDrained == Spec => []StoppedIsDrained
<1>1. PoolInv => StoppedIsDrained
  <2> SUFFICES ASSUME PoolInv, status = "STOPPED" PROVE StoppedIsDrained
    BY DEF StoppedIsDrained
  <2>1. threads = {} /\ \A w \in Workers : ~Live(w)
    BY DEF PoolInv, Staffed
  <2>2. tasks = <<>>
    BY <2>1 DEF PoolInv, Staffed
  <2>3. \A w \in Workers : holding[w] = 0
    BY <2>1 DEF PoolInv, TypeOK, Live
  <2>4. \A t \in Tasks : ~Queued(t) /\ ~Taken(t)
    BY <2>2, <2>3 DEF Queued, Taken
  <2>5. \A t \in Tasks : result[t] = "kAccepted" => executed[t] = 1
    BY <2>4 DEF PoolInv, TasksConserved
  <2> QED BY <2>1, <2>5 DEF StoppedIsDrained
<1> QED BY <1>1, PoolInvariant, PTL

\* addTask() and run(): the queue is ascending, since the tasks are numbered as
\* they are accepted, so that none is overtaken however many workers take them.
THEOREM TasksTakenInOrder == Spec => []TakenInOrder
<1> DEFINE Ordered == Ascending(tasks) /\ TakenInOrder
<1>1. Init => Ordered
  BY DEF Init, TakenInOrder, Queued, Ascending
<1>2. PoolInv /\ Ordered /\ [Next]_vars => Ordered'
  <2> SUFFICES ASSUME PoolInv, Ordered, [Next]_vars PROVE Ordered'
    OBVIOUS
  <2>a. /\ tasks \in Seq(Tasks) /\ tasks \in Seq(Nat) /\ Distinct(tasks) /\ nextTask \in Nat
        /\ \A t : Queued(t) <=> In(t, tasks)
    BY DEF PoolInv, TasksConserved, TypeOK, Distinct, Queued, In
  <2>b. \A t \in Tasks : result[t] = "kAccepted" => t < nextTask
    BY <2>a DEF PoolInv, Fresh
  <2>c. \A t \in Nat : Queued(t) => t \in Tasks /\ result[t] = "kAccepted"
    BY DEF PoolInv, TasksConserved, TypeOK, Queued
  <2>1. CASE addTask
    <3>1. nextTask \in Tasks /\ \A t \in Tasks : t # nextTask => result'[t] = result[t]
      BY <2>1 DEF addTask, PoolInv, TypeOK
    <3>2. CASE tasks' = tasks /\ result'[nextTask] # "kAccepted"
      BY <3>1, <3>2 DEF TakenInOrder, Queued, Ascending
    <3>3. CASE tasks' = Append(tasks, nextTask)
      <4>1. Ascending(tasks')
        <5>1. \A t \in Nat : In(t, tasks) => t < nextTask
          BY <2>a, <2>b, <2>c
        <5> QED BY <2>a, <3>3, <5>1, AppendAscending
      <4>2. \A t \in Tasks : Queued(t)' <=> Queued(t) \/ t = nextTask
        <5>1. \A t \in Tasks : In(t, tasks') <=> In(t, tasks) \/ t = nextTask
          BY <2>a, <3>1, <3>3, AppendFacts
        <5> QED BY <2>a, <5>1 DEF Queued, In
      <4>3. ASSUME NEW t \in Tasks, NEW u \in Tasks, t < u, result'[u] = "kAccepted",
                   Queued(t)'
            PROVE  Queued(u)'
        <5>1. CASE u = nextTask
          BY <4>2, <5>1
        <5>2. CASE u # nextTask
          <6>1. result[u] = "kAccepted" /\ u < nextTask
            BY <2>b, <3>1, <4>3, <5>2
          <6>2. t # nextTask
            BY <2>a, <4>3, <6>1
          <6> QED BY <4>2, <4>3, <6>1, <6>2 DEF TakenInOrder
        <5> QED BY <5>1, <5>2
      <4> QED BY <4>1, <4>3 DEF TakenInOrder
    <3>4. (tasks' = tasks /\ result'[nextTask] # "kAccepted") \/ tasks' = Append(tasks, nextTask)
      BY <2>1, <3>1 DEF addTask, PushTask, PoolInv, TypeOK
    <3> QED BY <3>2, <3>3, <3>4
  <2>2. ASSUME NEW w \in Workers, WorkerTake(w) PROVE Ordered'
    <3>1. tasks # <<>> /\ tasks' = Tail(tasks) /\ UNCHANGED result
      BY <2>2 DEF WorkerTake, PopTask, submitVars
    <3>2. /\ Ascending(tasks') /\ Head(tasks) \in Tasks
          /\ \A t : In(t, tasks') => Head(tasks) < t
          /\ \A t : In(t, tasks') <=> In(t, tasks) /\ t # Head(tasks)
      BY <2>a, <3>1, TailAscending, TailFacts
    <3>3. \A t : Queued(t)' <=> In(t, tasks')
      BY DEF Queued, In
    <3>4. ASSUME NEW t \in Tasks, NEW u \in Tasks, t < u, result'[u] = "kAccepted", Queued(t)'
          PROVE  Queued(u)'
      <4>1. Queued(t) /\ Head(tasks) < t
        BY <2>a, <3>2, <3>3, <3>4
      <4>2. Queued(u)
        BY <3>1, <3>4, <4>1 DEF TakenInOrder
      <4>3. u # Head(tasks)
        BY <3>2, <3>4, <4>1
      <4> QED BY <2>a, <3>2, <3>3, <4>2, <4>3
    <3> QED BY <3>2, <3>4 DEF TakenInOrder
  <2>3. CASE UNCHANGED <<tasks, result>>
    BY <2>3 DEF TakenInOrder, Queued
  <2> QED
    BY <2>1, <2>2, <2>3
    DEF Next, ControlStep, WorkerStep, setMaxQueueTasks, start, stop, NotifyAll, JoinAll,
        FinishStop, NotifyOne, WorkerWait, WorkerExit, WorkerRun, SpuriousWakeup, vars,
        queueVars, submitVars
<1> QED BY <1>1, <1>2, PoolInvariant, PTL DEF Spec

\* addTask() notifies outside the lock, and yet no task is left in the queue
\* with every worker asleep and no notification to come.
THEOREM WakeupsAreNotLost == Spec => []NoLostWakeup
<1>1. Init => NoLostWakeup
  BY DEF Init, NoLostWakeup
<1>2. PoolInv /\ NoLostWakeup /\ [Next]_vars => NoLostWakeup'
  <2> SUFFICES ASSUME PoolInv, NoLostWakeup, [Next]_vars PROVE NoLostWakeup'
    OBVIOUS
  <2> USE DEF NoLostWakeup, PoolInv, TypeOK
  <2>1. ASSUME NEW c \in Controllers, start(c) PROVE NoLostWakeup'
    BY <2>1 DEF start, Staffed, queueVars
  <2>2. ASSUME NEW c \in Controllers, NotifyAll(c) PROVE NoLostWakeup'
    BY <2>2 DEF NotifyAll, WakeAll, queueVars, submitVars
  <2>3. CASE addTask
    BY <2>3 DEF addTask, workerVars
  <2>4. ASSUME NEW t \in Tasks, NotifyOne(t) PROVE NoLostWakeup'
    <3>1. tasks' = tasks
      BY <2>4 DEF NotifyOne, queueVars
    <3>2. CASE \E w \in Workers : worker[w] = "waiting" /\ worker' = [worker EXCEPT ![w] = "ready"]
      BY <3>2
    <3>3. CASE (\A w \in Workers : worker[w] # "waiting") /\ UNCHANGED worker
      BY <3>1, <3>3 DEF Staffed, Live, WorkerStates
    <3> QED BY <2>4, <3>2, <3>3 DEF NotifyOne, WakeOne
  <2>5. ASSUME NEW w \in Workers, WorkerWait(w) \/ WorkerExit(w) PROVE NoLostWakeup'
    BY <2>5 DEF WorkerWait, WorkerExit, MayExit, queueVars
  <2>6. ASSUME NEW w \in Workers, SpuriousWakeup(w) \/ WorkerTake(w) \/ WorkerRun(w)
        PROVE NoLostWakeup'
    BY <2>6 DEF SpuriousWakeup, WorkerTake, WorkerRun
  <2>7. CASE UNCHANGED <<tasks, worker, notifying>>
    BY <2>7
  <2> QED
    BY <2>1, <2>2, <2>3, <2>4, <2>5, <2>6, <2>7
    DEF Next, ControlStep, WorkerStep, setMaxQueueTasks, stop, JoinAll, FinishStop, vars,
        queueVars, workerVars, submitVars
<1> QED BY <1>1, <1>2, PoolInvariant, PTL DEF Spec
-----------------------------------------------------------------------------
(***************************************************************************)
(* The pool implements TaskPool                                            *)
(***************************************************************************)
\* Where an accepted task is, as StateOf sees it.
LEMMA StateFacts ==
  ASSUME PoolInv, NEW t \in Tasks
  PROVE  /\ StateOf(t) = "new" <=> result[t] = "none"
         /\ Queued(t) <=> StateOf(t) = "accepted"
         /\ Taken(t) <=> StateOf(t) = "running"
  BY DEF PoolInv, TasksConserved, StateOf

\* A step that leaves the tasks where they are.
LEMMA StateKept ==
  ASSUME UNCHANGED <<result, executed, holding>>
  PROVE  [t \in Tasks |-> StateOf(t)]' = [t \in Tasks |-> StateOf(t)]
<1>1. \A t \in Tasks : StateOf(t)' = StateOf(t)
  BY DEF StateOf, Taken
<1> QED BY <1>1

\* A step in which one task moves is a step of TaskPool.
LEMMA OneTaskMoves ==
  ASSUME NEW t \in Tasks, UNCHANGED status,
         \A u \in Tasks : u # t => StateOf(u)' = StateOf(u),
         \/ <<StateOf(t), StateOf(t)'>> \in Promise!TaskMoves
         \/ status = "RUNNING" /\ StateOf(t) = "new" /\ StateOf(t)' = "accepted"
  PROVE  Promise!Next
<1>1. /\ [u \in Tasks |-> StateOf(u)][t] = StateOf(t)
      /\ [u \in Tasks |-> StateOf(u)]'[t] = StateOf(t)'
      /\ \A u \in Tasks \ {t} :
           [v \in Tasks |-> StateOf(v)]'[u] = [v \in Tasks |-> StateOf(v)][u]
  OBVIOUS
<1>2. Promise!Task(t)
  BY <1>1 DEF Promise!Task
<1> QED BY <1>2 DEF Promise!Next

\* Every step of the pool is a step of TaskPool, or none.
LEMMA PromiseStep ==
  PoolInv /\ [Next]_vars => [Promise!Next]_(Promise!poolVars)
<1> SUFFICES ASSUME PoolInv, [Next]_vars PROVE [Promise!Next]_(Promise!poolVars)
  OBVIOUS
<1> DEFINE states == [t \in Tasks |-> StateOf(t)]
<1>1. CASE UNCHANGED <<status, result, executed, holding>>
  BY <1>1, StateKept DEF Promise!poolVars
<1>2. ASSUME UNCHANGED <<result, executed, holding>>,
             <<status, status'>> \in Promise!PoolMoves
      PROVE  Promise!Next
  BY <1>2, StateKept DEF Promise!Next, Promise!Control
<1>3. ASSUME NEW c \in Controllers, start(c) PROVE Promise!Next
  <2>1. UNCHANGED <<result, executed, holding>>
    BY <1>3 DEF start, submitVars
  <2>2. status = "NOT_START" /\ status' \in {"RUNNING", "STOPPING"}
    BY <1>3 DEF start
  <2> QED BY <1>2, <2>1, <2>2 DEF Promise!PoolMoves
<1>4. ASSUME NEW c \in Controllers, stop(c) PROVE [Promise!Next]_(Promise!poolVars)
  <2>1. UNCHANGED <<result, executed, holding>>
    BY <1>4 DEF stop, submitVars, workerVars
  <2>2. CASE status = "RUNNING" /\ status' = "STOPPING"
    BY <1>2, <2>1, <2>2 DEF Promise!PoolMoves
  <2>3. CASE status' = status
    BY <1>1, <2>1, <2>3
  <2> QED BY <1>4, <2>2, <2>3 DEF stop, MayStop
<1>5. ASSUME NEW c \in Controllers, FinishStop(c) PROVE Promise!Next
  <2>1. UNCHANGED <<result, executed, holding>> /\ status' = "STOPPED"
    BY <1>5 DEF FinishStop, submitVars, workerVars
  <2>2. status = "STOPPING" /\ threads = {}
    BY <1>5 DEF FinishStop, PoolInv, Staffed
  <2>3. tasks = <<>> /\ \A w \in Workers : holding[w] = 0
    BY <2>2 DEF PoolInv, Staffed, TypeOK, Live
  <2>4. \A t \in Tasks : ~Queued(t) /\ ~Taken(t)
    BY <2>3 DEF Queued, Taken
  <2>5. \A t \in Tasks : StateOf(t) \notin {"accepted", "running"}
    BY <2>4, StateFacts
  <2>6. states' = states
    BY <2>1, StateKept
  <2> QED BY <2>1, <2>2, <2>5, <2>6 DEF Promise!Next, Promise!Drained
<1>6. CASE addTask
  <2>1. PICK n \in Tasks : n = nextTask /\ result[n] = "none"
    BY <1>6 DEF addTask, PoolInv, Fresh, TypeOK
  <2>2. executed[n] = 0 /\ ~Taken(n)
    BY <2>1 DEF PoolInv, TasksConserved
  <2>3. UNCHANGED <<status, executed, holding>>
    BY <1>6 DEF addTask, workerVars
  <2>4. \A u \in Tasks : u # n => result'[u] = result[u]
    BY <1>6, <2>1 DEF addTask, PoolInv, TypeOK
  <2>5. \A u \in Tasks : u # n => StateOf(u)' = StateOf(u)
    BY <2>3, <2>4 DEF StateOf, Taken
  <2>6. \/ result'[n] \in {"kEmptyTask", "kNotRunning", "kQueueFull"}
        \/ result'[n] = "kAccepted" /\ status = "RUNNING"
    BY <1>6, <2>1 DEF addTask, Open, PoolInv, TypeOK
  <2>7. StateOf(n) = "new"
    BY <2>1 DEF StateOf
  <2>8. StateOf(n)' = IF result'[n] = "kAccepted" THEN "accepted" ELSE "refused"
    BY <2>2, <2>3, <2>6 DEF StateOf, Taken
  <2>9. \/ <<StateOf(n), StateOf(n)'>> \in Promise!TaskMoves
        \/ /\ status = "RUNNING" /\ StateOf(n) = "new"
           /\ StateOf(n)' = "accepted"
    BY <2>6, <2>7, <2>8 DEF Promise!TaskMoves
  <2> QED BY <2>1, <2>3, <2>5, <2>9, OneTaskMoves
<1>7. ASSUME NEW w \in Workers, WorkerTake(w) PROVE Promise!Next
  <2>1. PICK h \in Tasks : h = Head(tasks) /\ Queued(h) /\ h # 0
    BY <1>7 DEF WorkerTake, PoolInv, TypeOK, Queued
  <2>2. UNCHANGED <<status, result, executed>> /\ holding' = [holding EXCEPT ![w] = h]
    BY <1>7, <2>1 DEF WorkerTake, submitVars
  <2>3. holding[w] = 0 /\ holding \in [Workers -> Tasks \cup {0}]
    BY <1>7 DEF WorkerTake, PoolInv, TypeOK
  <2>4. \A t \in Tasks : Taken(t)' <=> Taken(t) \/ t = h
    BY <2>1, <2>2, <2>3 DEF Taken
  <2>5. StateOf(h) = "accepted" /\ executed[h] = 0 /\ result[h] = "kAccepted"
    BY <2>1, StateFacts DEF PoolInv, TasksConserved
  <2>6. \A u \in Tasks : u # h => StateOf(u)' = StateOf(u)
    BY <2>2, <2>4 DEF StateOf
  <2>7. StateOf(h)' = "running"
    BY <2>1, <2>2, <2>4, <2>5 DEF StateOf
  <2>8. <<StateOf(h), StateOf(h)'>> \in Promise!TaskMoves
    BY <2>5, <2>7 DEF Promise!TaskMoves
  <2> QED BY <2>1, <2>2, <2>6, <2>8, OneTaskMoves
<1>8. ASSUME NEW w \in Workers, WorkerRun(w) PROVE Promise!Next
  <2>1. PICK h \in Tasks : h = holding[w] /\ h # 0 /\ Taken(h)
    BY <1>8 DEF WorkerRun, PoolInv, TypeOK, Taken
  <2>2. /\ UNCHANGED <<status, result>>
        /\ holding' = [holding EXCEPT ![w] = 0]
        /\ executed' = [executed EXCEPT ![h] = @ + 1]
    BY <1>8, <2>1 DEF WorkerRun, DropTask, submitVars
  <2>3. executed[h] = 0 /\ result[h] = "kAccepted" /\ StateOf(h) = "running"
    BY <2>1, StateFacts DEF PoolInv, TasksConserved
  <2>4. executed'[h] = 1 /\ \A u \in Tasks : u # h => executed'[u] = executed[u]
    BY <2>1, <2>2, <2>3 DEF PoolInv, TypeOK
  <2>5. \A u \in Tasks : u # h => (Taken(u)' <=> Taken(u))
    BY <2>1, <2>2 DEF Taken, PoolInv, TypeOK
  <2>6. \A u \in Tasks : u # h => StateOf(u)' = StateOf(u)
    BY <2>2, <2>4, <2>5 DEF StateOf
  <2>7. StateOf(h)' = "done"
    BY <2>2, <2>3, <2>4 DEF StateOf
  <2>8. <<StateOf(h), StateOf(h)'>> \in Promise!TaskMoves
    BY <2>3, <2>7 DEF Promise!TaskMoves
  <2> QED BY <2>1, <2>2, <2>6, <2>8, OneTaskMoves
<1> QED
  BY <1>1, <1>3, <1>4, <1>5, <1>6, <1>7, <1>8
  DEF Next, ControlStep, WorkerStep, setMaxQueueTasks, NotifyAll, JoinAll, NotifyOne,
      WorkerWait, WorkerExit, SpuriousWakeup, vars, queueVars, workerVars, submitVars

\* The pool with its threads, lock and condition variable implements TaskPool:
\* what RpcServer relies on holds for any number of workers, submitters and
\* stopping threads.
THEOREM PoolImplementsTaskPool == Spec => ImplementsTaskPool
<1>1. Init => Promise!Init
  BY DEF Init, Promise!Init, StateOf
<1> QED BY <1>1, PromiseStep, PoolInvariant, PTL DEF Spec, ImplementsTaskPool, Promise!Spec
=============================================================================
