--------------------------- MODULE TaskThreadPool ---------------------------
(***************************************************************************)
(* TaskThreadPool (src/src/TaskThreadPool.cc): the worker threads that run *)
(* asynchronous handlers.                                                  *)
(*                                                                         *)
(* A section guarded by mutex_ is one step.  What the code does after it   *)
(* unlocks is a step of its own: notify_one in addTask, notify_all, the    *)
(* joins and the last status change in stop() and in a failed start().     *)
(* condition_ is a set of waiting workers; a wakeup may be spurious.       *)
(***************************************************************************)
EXTENDS Naturals, Sequences, FiniteSets

CONSTANTS
  Workers,       \* the threads that start() creates, threadCnt_ of them
  Controllers,   \* the threads that call start() and stop()
  MaxTasks,      \* bound: how often addTask() is called
  MaxQueue       \* bound: largest argument of setMaxQueueTasks()

Tasks == 1..MaxTasks

ASSUME PoolAssumption ==
  /\ Workers # {} /\ IsFiniteSet(Workers)
  /\ MaxTasks \in Nat
  /\ MaxQueue \in Nat

VARIABLES
  status,      \* status_
  maxQueue,    \* maxQueueTasks_, 0: no limit
  threads,     \* threads_
  tasks,       \* tasks_
  worker,      \* where each thread is in run()
  holding,     \* the task a worker has taken from the queue, 0: none
  control,     \* where each controller is in stop() or in a failed start()
  notifying,   \* tasks whose addTask() has unlocked and not yet notified
  nextTask,    \* the next call of addTask()
  result,      \* history: what addTask() returned
  executed,    \* history: how often a task was run
  stopReturned \* history: controllers whose stop() of a started pool returned

queueVars   == <<tasks, maxQueue>>
workerVars  == <<worker, holding>>
submitVars  == <<notifying, nextTask, result>>
vars == <<status, threads, queueVars, workerVars, control, submitVars, executed,
          stopReturned>>

\* "ready": about to lock mutex_ and evaluate the wait predicate
WorkerStates  == {"absent", "ready", "waiting", "running", "exited"}
SubmitResults == {"kAccepted", "kNotRunning", "kQueueFull", "kEmptyTask"}

\* The types of the variables, and that exactly the workers that are running
\* hold a task.
TypeOK ==
  /\ status \in {"NOT_START", "RUNNING", "STOPPING", "STOPPED"}
  /\ maxQueue \in 0..MaxQueue
  /\ threads \subseteq Workers
  /\ tasks \in Seq(Tasks)
  /\ worker \in [Workers -> WorkerStates]
  /\ holding \in [Workers -> Tasks \cup {0}]
  /\ \A w \in Workers : holding[w] # 0 <=> worker[w] = "running"
  /\ control \in [Controllers -> {"idle", "notify", "join", "finish"}]
  /\ notifying \subseteq Tasks
  /\ nextTask \in 1..(MaxTasks + 1)
  /\ result \in [Tasks -> SubmitResults \cup {"none"}]
  /\ executed \in [Tasks -> Nat]
  /\ stopReturned \subseteq Controllers

Init ==
  /\ status = "NOT_START"
  /\ maxQueue = 0
  /\ threads = {}
  /\ tasks = <<>>
  /\ worker = [w \in Workers |-> "absent"]
  /\ holding = [w \in Workers |-> 0]
  /\ control = [c \in Controllers |-> "idle"]
  /\ notifying = {}
  /\ nextTask = 1
  /\ result = [t \in Tasks |-> "none"]
  /\ executed = [t \in Tasks |-> 0]
  /\ stopReturned = {}
-----------------------------------------------------------------------------
(***************************************************************************)
(* setMaxQueueTasks, start, stop                                           *)
(***************************************************************************)
setMaxQueueTasks ==
  /\ status = "NOT_START"
  /\ \E n \in 1..MaxQueue : maxQueue' = n
  /\ UNCHANGED <<status, threads, tasks, workerVars, control, submitVars, executed,
                 stopReturned>>

\* start() holds mutex_ until the threads exist.  Creating a thread may throw
\* when only some of them do: then start() goes on like stop().
start(c) ==
  /\ control[c] = "idle"
  /\ status = "NOT_START"
  /\ \E created \in SUBSET Workers :
       /\ threads' = created
       /\ worker' = [w \in Workers |-> IF w \in created THEN "ready" ELSE "absent"]
       /\ IF created = Workers
          THEN status' = "RUNNING" /\ UNCHANGED control
          ELSE status' = "STOPPING" /\ control' = [control EXCEPT ![c] = "notify"]
  /\ UNCHANGED <<queueVars, holding, submitVars, executed, stopReturned>>

\* stop(), the first critical section: only the call that finds the pool
\* running goes on, any other returns.
MayStop == status = "RUNNING"

stop(c) ==
  /\ control[c] = "idle"
  /\ IF MayStop
     THEN /\ status' = "STOPPING"
          /\ control' = [control EXCEPT ![c] = "notify"]
          /\ UNCHANGED stopReturned
     ELSE /\ status # "NOT_START"
          /\ stopReturned' = stopReturned \cup {c}
          /\ UNCHANGED <<status, control>>
  /\ UNCHANGED <<threads, queueVars, workerVars, submitVars, executed>>

\* Mutant: the workers that wait are not woken.
WakeAll_Forgotten == worker' = worker

\* condition_.notify_all()
WakeAll == worker' = [w \in Workers |-> IF worker[w] = "waiting" THEN "ready" ELSE worker[w]]

NotifyAll(c) ==
  /\ control[c] = "notify"
  /\ WakeAll
  /\ control' = [control EXCEPT ![c] = "join"]
  /\ UNCHANGED <<status, threads, queueVars, holding, submitVars, executed, stopReturned>>

\* Every join() in turn, then threads_.clear()
Joinable == \A w \in threads : worker[w] = "exited"

JoinAll(c) ==
  /\ control[c] = "join"
  /\ Joinable
  /\ threads' = {}
  /\ control' = [control EXCEPT ![c] = "finish"]
  /\ UNCHANGED <<status, queueVars, workerVars, submitVars, executed, stopReturned>>

\* The last critical section; stop() returns, a failed start() rethrows.
FinishStop(c) ==
  /\ control[c] = "finish"
  /\ status' = "STOPPED"
  /\ control' = [control EXCEPT ![c] = "idle"]
  /\ stopReturned' = stopReturned \cup {c}
  /\ UNCHANGED <<threads, queueVars, workerVars, submitVars, executed>>
-----------------------------------------------------------------------------
(***************************************************************************)
(* addTask, from any thread                                                *)
(***************************************************************************)
\* Mutant: a stopping pool still accepts.
Open_WhileStopping == status # "NOT_START"

Open == status = "RUNNING"

QueueFull == maxQueue # 0 /\ Len(tasks) >= maxQueue

\* Mutant: the newest task is run first.
PushTask_Front == tasks' = <<nextTask>> \o tasks

PushTask == tasks' = Append(tasks, nextTask)

addTask ==
  /\ nextTask \in Tasks
  /\ nextTask' = nextTask + 1
  /\ \/ result' = [result EXCEPT ![nextTask] = "kEmptyTask"] /\ UNCHANGED <<tasks, notifying>>
     \/ /\ ~Open
        /\ result' = [result EXCEPT ![nextTask] = "kNotRunning"]
        /\ UNCHANGED <<tasks, notifying>>
     \/ /\ Open /\ QueueFull
        /\ result' = [result EXCEPT ![nextTask] = "kQueueFull"]
        /\ UNCHANGED <<tasks, notifying>>
     \/ /\ Open /\ ~QueueFull
        /\ result' = [result EXCEPT ![nextTask] = "kAccepted"]
        /\ PushTask
        /\ notifying' = notifying \cup {nextTask}
  /\ UNCHANGED <<status, maxQueue, threads, workerVars, control, executed, stopReturned>>

\* Mutant: the notification is lost.
WakeOne_Forgotten == worker' = worker

\* condition_.notify_one(): one of the waiting workers, if there is one
WakeOne ==
  \/ \E w \in Workers : worker[w] = "waiting" /\ worker' = [worker EXCEPT ![w] = "ready"]
  \/ (\A w \in Workers : worker[w] # "waiting") /\ UNCHANGED worker

NotifyOne(t) ==
  /\ t \in notifying
  /\ notifying' = notifying \ {t}
  /\ WakeOne
  /\ UNCHANGED <<status, threads, queueVars, holding, control, nextTask, result, executed,
                 stopReturned>>
-----------------------------------------------------------------------------
(***************************************************************************)
(* run()                                                                   *)
(***************************************************************************)
\* The predicate is false: the worker waits and gives up mutex_.
WorkerWait(w) ==
  /\ worker[w] = "ready"
  /\ tasks = <<>> /\ status = "RUNNING"
  /\ worker' = [worker EXCEPT ![w] = "waiting"]
  /\ UNCHANGED <<status, threads, queueVars, holding, control, submitVars, executed,
                 stopReturned>>

SpuriousWakeup(w) ==
  /\ worker[w] = "waiting"
  /\ worker' = [worker EXCEPT ![w] = "ready"]
  /\ UNCHANGED <<status, threads, queueVars, holding, control, submitVars, executed,
                 stopReturned>>

\* Mutant: a stopping pool is left with tasks in its queue.
MayExit_AtOnce == status # "RUNNING"

MayExit == tasks = <<>> /\ status # "RUNNING"

WorkerExit(w) ==
  /\ worker[w] = "ready"
  /\ MayExit
  /\ worker' = [worker EXCEPT ![w] = "exited"]
  /\ UNCHANGED <<status, threads, queueVars, holding, control, submitVars, executed,
                 stopReturned>>

\* Mutant: front() without pop().
PopTask_Kept == tasks' = tasks

PopTask == tasks' = Tail(tasks)

WorkerTake(w) ==
  /\ worker[w] = "ready"
  /\ tasks # <<>>
  /\ holding' = [holding EXCEPT ![w] = Head(tasks)]
  /\ PopTask
  /\ worker' = [worker EXCEPT ![w] = "running"]
  /\ UNCHANGED <<status, maxQueue, threads, control, submitVars, executed, stopReturned>>

DropTask(w) == holding' = [holding EXCEPT ![w] = 0]

\* The task returns or throws; run() catches everything and goes on.
WorkerRun(w) ==
  /\ worker[w] = "running"
  /\ executed' = [executed EXCEPT ![holding[w]] = @ + 1]
  /\ DropTask(w)
  /\ worker' = [worker EXCEPT ![w] = "ready"]
  /\ UNCHANGED <<status, threads, queueVars, control, submitVars, stopReturned>>
-----------------------------------------------------------------------------
ControlStep(c) == start(c) \/ stop(c) \/ NotifyAll(c) \/ JoinAll(c) \/ FinishStop(c)

WorkerStep(w) == WorkerWait(w) \/ WorkerExit(w) \/ WorkerTake(w) \/ WorkerRun(w)

Next ==
  \/ setMaxQueueTasks
  \/ \E c \in Controllers : ControlStep(c)
  \/ addTask
  \/ \E t \in Tasks : NotifyOne(t)
  \/ \E w \in Workers : WorkerStep(w) \/ SpuriousWakeup(w)

Spec == Init /\ [][Next]_vars

\* Threads are scheduled, mutex_ is not held for ever and tasks terminate.
\* Nobody has to call start(), stop() or addTask(), no wakeup is spurious by
\* obligation.
Fairness ==
  /\ \A w \in Workers : WF_vars(WorkerStep(w))
  /\ \A t \in Tasks : WF_vars(NotifyOne(t))
  /\ \A c \in Controllers : WF_vars(NotifyAll(c) \/ JoinAll(c) \/ FinishStop(c))

FairSpec == Spec /\ Fairness
-----------------------------------------------------------------------------
(***************************************************************************)
(* Properties                                                              *)
(***************************************************************************)
Queued(t)  == \E k \in DOMAIN tasks : tasks[k] = t
Taken(t)   == \E w \in Workers : holding[w] = t
Live(w)    == worker[w] \notin {"absent", "exited"}

\* Every task that addTask() accepted is in exactly one place: once in the
\* queue, with exactly one worker, or run to its end exactly once.  No task is
\* lost or run twice, and a refused task is nowhere.
TasksConserved ==
  /\ \A t \in Tasks : executed[t] \in {0, 1}
  /\ \A k, l \in DOMAIN tasks : tasks[k] = tasks[l] => k = l
  /\ \A v, w \in Workers : holding[v] = holding[w] /\ holding[v] # 0 => v = w
  /\ \A t \in Tasks :
       IF result[t] = "kAccepted"
       THEN \/ Queued(t) /\ ~Taken(t) /\ executed[t] = 0
            \/ ~Queued(t) /\ Taken(t) /\ executed[t] = 0
            \/ ~Queued(t) /\ ~Taken(t) /\ executed[t] = 1
       ELSE ~Queued(t) /\ ~Taken(t) /\ executed[t] = 0

\* TaskThreadPool.h, stop(): a stopped pool has run every task it accepted and
\* none of its threads is left, also after a start() that failed part-way.
StoppedIsDrained ==
  status = "STOPPED" =>
    /\ \A t \in Tasks : result[t] = "kAccepted" => executed[t] = 1
    /\ \A w \in Workers : ~Live(w)
    /\ threads = {}

\* A queued task has somebody to take it: a worker that is awake, or a
\* notification still to come.  addTask() notifies after it has unlocked and a
\* worker may check the queue and fall asleep in between.
NoLostWakeup ==
  tasks # <<>> => \/ \E w \in Workers : worker[w] \in {"ready", "running"}
                  \/ notifying # {}

\* Tasks are taken in the order in which they were accepted, by however many
\* workers.
TakenInOrder ==
  \A t, u \in Tasks :
    t < u /\ result[u] = "kAccepted" /\ Queued(t) => Queued(u)

\* TaskThreadPool.h, stop(): it returns only when the accepted tasks have run
\* and every thread has exited.
StopReturnsDrained ==
  stopReturned # {} => /\ \A t \in Tasks : result[t] = "kAccepted" => executed[t] = 1
                       /\ \A w \in Workers : ~Live(w)

\* A task as its submitter sees it.
StateOf(t) == IF result[t] = "none" THEN "new"
              ELSE IF result[t] # "kAccepted" THEN "refused"
              ELSE IF executed[t] # 0 THEN "done"
              ELSE IF Taken(t) THEN "running" ELSE "accepted"

Promise == INSTANCE TaskPool WITH pool <- status, state <- [t \in Tasks |-> StateOf(t)]

\* The pool keeps the promise that TaskPool describes: every task takes its
\* steps once and in order, whichever worker has it and whoever stops the pool
\* meanwhile, and STOPPED is never reported while one is left.
ImplementsTaskPool == Promise!Spec

\* An accepted task is run.
AcceptedTasksRun == \A t \in Tasks : result[t] = "kAccepted" ~> executed[t] = 1

\* stop() and a failed start() come back: no worker is left asleep.
StopCompletes == \A c \in Controllers : control[c] # "idle" ~> control[c] = "idle"
=============================================================================
