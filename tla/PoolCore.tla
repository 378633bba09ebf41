------------------------------- MODULE PoolCore -------------------------------
(***************************************************************************)
(* The thread pool of boost::threadpool (pool_core.hpp, worker_thread.hpp  *)
(* and the scheduling, size and shutdown policies): the clients that hold  *)
(* a handle, the size controller, the last handle's destructor (Owner) and *)
(* the worker threads.                                                     *)
(*                                                                         *)
(* Everything happens under m_monitor, so a critical section, up to the    *)
(* next unlock or condition wait, is one action; only the join of the      *)
(* terminated workers keeps the monitor for longer.  A condition variable  *)
(* is the set of the threads asleep on it.  A thread taken out of that set *)
(* has been woken and must still get the monitor back.                     *)
(***************************************************************************)
EXTENDS Integers, Sequences, SequencesExt, FiniteSets

CONSTANTS
  Workers,           \* the threads the system can provide
  Clients,           \* threads holding a handle of the pool
  Owner,             \* the thread that destroys the last handle
  Tasks, NoTask,     \* each task is scheduled at most once
  High,              \* the tasks of higher priority, for the prio scheduler
  Sizes,             \* arguments of the constructor and of resize
  Limits,            \* arguments of wait
  Schedulers,        \* among "fifo", "lifo", "prio"
  ShutdownPolicies,  \* among the three of shutdown_policies.hpp
  CreateMayFail,     \* may boost::thread throw thread_resource_error?
  TasksMayThrow      \* may a task throw an exception?

ASSUME PoolCoreAssumption ==
  /\ IsFiniteSet(Workers)
  /\ Owner \notin Clients /\ NoTask \notin Tasks /\ High \subseteq Tasks
  /\ Sizes \subseteq Nat /\ Limits \subseteq Nat
  /\ Schedulers \subseteq {"fifo", "lifo", "prio"}
  /\ ShutdownPolicies \subseteq
       {"wait_for_all_tasks", "wait_for_active_tasks", "immediately"}
  /\ CreateMayFail \in BOOLEAN /\ TasksMayThrow \in BOOLEAN

VARIABLES
  scheduler, policy,      \* the template arguments of this pool, never changed
  worker_count,           \* m_worker_count
  target_worker_count,    \* m_target_worker_count
  active_worker_count,    \* m_active_worker_count
  queue,                  \* m_scheduler, first to last
  terminate,              \* m_terminate_all_workers
  terminated,             \* m_terminated_workers
  pc, task,               \* where each worker is, and the task it runs
  sleeping,               \* workers asleep on m_task_or_terminate_workers_event
  waiters,                \* threads asleep on m_worker_idle_or_terminated_event
  call,                   \* the call of wait each client is in
  phase,                  \* how far the Owner is with the shutdown
  scheduled, ended        \* history: tasks in order of schedule; tasks over

template == <<scheduler, policy>>
counts == <<worker_count, target_worker_count, active_worker_count>>
history == <<scheduled, ended>>
vars == <<template, counts, queue, terminate, terminated, pc, task, sleeping,
          waiters, call, phase, history>>

WorkerStates ==
  {"none",   \* no such thread
   "fetch",  \* about to enter execute_task
   "idle",   \* in the condition wait of execute_task, asleep or woken
   "run",    \* performs its task
   "leave",  \* execute_task returned false, worker_destructed not yet called
   "died",   \* the task threw, worker_died_unexpectedly not yet called
   "exit"}   \* the thread function is about to return

Attached == {w \in Workers : pc[w] \in {"fetch", "idle", "run", "leave", "died"}}
Active == {w \in Attached : pc[w] # "idle"}
Running == {w \in Workers : pc[w] = "run"}
Free == {w \in Workers : pc[w] = "none"}

NoCall == [inside |-> FALSE, timed |-> FALSE, limit |-> 0]
Calls == [inside : {TRUE}, timed : BOOLEAN, limit : Limits]

Pending == {queue[i] : i \in DOMAIN queue}
Bug_LoadActive == active_worker_count
Load == active_worker_count + Len(queue)
MonitorFree == phase # "join"

\* thread_pool(initial_threads): what boost::thread refuses is not created.
Init ==
  /\ scheduler \in Schedulers /\ policy \in ShutdownPolicies
  /\ target_worker_count \in Sizes
  /\ \E S \in SUBSET Workers :
       /\ Cardinality(S) <= target_worker_count
       /\ CreateMayFail \/ S = Workers \/ Cardinality(S) = target_worker_count
       /\ worker_count = Cardinality(S) /\ active_worker_count = Cardinality(S)
       /\ pc = [w \in Workers |-> IF w \in S THEN "fetch" ELSE "none"]
  /\ queue = <<>> /\ terminate = FALSE /\ terminated = {}
  /\ task = [w \in Workers |-> NoTask]
  /\ sleeping = {} /\ waiters = {}
  /\ call = [c \in Clients |-> NoCall]
  /\ phase = "open" /\ scheduled = <<>> /\ ended = {}

-----------------------------------------------------------------------------
\* The containers of scheduling_policies.hpp.  priority_queue returns a task
\* that no other precedes; among equals it promises nothing.

Bug_Push(t) == Append(queue, t)
Push(t) == IF scheduler = "lifo" THEN <<t>> \o queue ELSE Append(queue, t)

Tops ==
  {i \in DOMAIN queue :
     IF scheduler = "prio"
     THEN queue[i] \in High \/ Pending \cap High = {}
     ELSE i = 1}

Bug_Pop(i) == queue' = Tail(queue)
Pop(i) == queue' = RemoveAt(queue, i)

-----------------------------------------------------------------------------
\* notify_one and notify_all of m_task_or_terminate_workers_event, notify_all
\* of m_worker_idle_or_terminated_event.
Bug_NotifyOneIfEmpty ==
  \/ (sleeping = {} \/ queue # <<>>) /\ UNCHANGED sleeping
  \/ queue = <<>> /\ \E w \in sleeping : sleeping' = sleeping \ {w}
Bug_NotifyNone == UNCHANGED sleeping
NotifyOne ==
  \/ sleeping = {} /\ UNCHANGED sleeping
  \/ \E w \in sleeping : sleeping' = sleeping \ {w}

NotifySleepers == sleeping' = {}

Bug_NotifyWaiters == UNCHANGED waiters
NotifyWaiters == waiters' = {}

\* Both counters change by n.
Bug_Attach(n) ==
  worker_count' = worker_count + n /\ UNCHANGED active_worker_count
Attach(n) ==
  /\ worker_count' = worker_count + n
  /\ active_worker_count' = active_worker_count + n

-----------------------------------------------------------------------------
\* Clients.

\* schedule pushes the task and wakes one worker, if any is asleep.
Schedule(t) ==
  /\ phase = "open" /\ t \notin ended /\ \A i \in DOMAIN scheduled : scheduled[i] # t
  /\ queue' = Push(t)
  /\ scheduled' = Append(scheduled, t)
  /\ NotifyOne
  /\ UNCHANGED <<template, counts, terminate, terminated, pc, task, waiters,
                 call, phase, ended>>

\* clear drops the pending tasks and tells nobody.
DropPending ==
  /\ queue' = <<>>
  /\ ended' = ended \union Pending

Clear ==
  /\ phase = "open" /\ queue # <<>>
  /\ DropPending
  /\ UNCHANGED <<template, counts, terminate, terminated, pc, task, sleeping,
                 waiters, call, phase, scheduled>>

\* wait: called, and each time its condition is tested under the monitor.
WaitCall(c, timed, limit) ==
  /\ phase = "open" /\ ~call[c].inside
  /\ call' = [call EXCEPT ![c] = [inside |-> TRUE, timed |-> timed, limit |-> limit]]
  /\ UNCHANGED <<template, counts, queue, terminate, terminated, pc, task,
                 sleeping, waiters, phase, history>>

Bug_Within(c) == active_worker_count <= call[c].limit /\ Len(queue) <= call[c].limit
Within(c) == Load <= call[c].limit

WaitTest(c) ==
  /\ MonitorFree /\ call[c].inside /\ c \notin waiters
  /\ IF Within(c)
     THEN call' = [call EXCEPT ![c] = NoCall] /\ UNCHANGED waiters
     ELSE waiters' = waiters \union {c} /\ UNCHANGED call
  /\ UNCHANGED <<template, counts, queue, terminate, terminated, pc, task,
                 sleeping, phase, history>>

\* timed_wait returned false: the condition is not tested again.
WaitTimedOut(c) ==
  /\ MonitorFree /\ c \in waiters /\ call[c].timed
  /\ waiters' = waiters \ {c}
  /\ call' = [call EXCEPT ![c] = NoCall]
  /\ UNCHANGED <<template, counts, queue, terminate, terminated, pc, task,
                 sleeping, phase, history>>

-----------------------------------------------------------------------------
\* The size of the pool.

\* The threads that may be created on the way from n workers to size.
Spawns(size, n) ==
  {S \in SUBSET Free :
     /\ Cardinality(S) <= size - n
     /\ CreateMayFail \/ S = Free \/ Cardinality(S) = size - n}

\* pool_core::resize, through a size controller, which keeps the core alive
\* but not the pool: it may be called during the shutdown as well.
Resize(size) ==
  /\ MonitorFree /\ ~terminate
  /\ target_worker_count' = size
  /\ \/ /\ worker_count <= size
        /\ \E S \in Spawns(size, worker_count) :
             /\ pc' = [w \in Workers |-> IF w \in S THEN "fetch" ELSE pc[w]]
             /\ Attach(Cardinality(S))
        /\ UNCHANGED sleeping
     \/ /\ worker_count > size
        /\ NotifySleepers
        /\ UNCHANGED <<pc, worker_count, active_worker_count>>
  /\ UNCHANGED <<template, queue, terminate, terminated, task, waiters, call,
                 phase, history>>

-----------------------------------------------------------------------------
\* Workers: execute_task up to the fetched task, then the task, then the exit.

\* The worker is in execute_task and has, or gets back, the monitor.  On its
\* return from the condition wait it counts itself as active again.
Looking(w) ==
  /\ MonitorFree
  /\ pc[w] = "fetch" \/ (pc[w] = "idle" /\ w \notin sleeping)

Bug_ActiveAgain(w) == active_worker_count
ActiveAgain(w) ==
  IF pc[w] = "idle" THEN active_worker_count + 1 ELSE active_worker_count

\* Too many workers: it leaves, unless it was woken and finds a task.
Leave(w) ==
  /\ Looking(w) /\ worker_count > target_worker_count
  /\ pc[w] = "idle" => queue = <<>>
  /\ active_worker_count' = ActiveAgain(w)
  /\ pc' = [pc EXCEPT ![w] = "leave"]
  /\ UNCHANGED <<template, worker_count, target_worker_count, queue, terminate,
                 terminated, task, sleeping, waiters, call, phase, history>>

\* Nothing to do: it is no longer active, tells the waiters and sleeps.
Sleep(w) ==
  /\ Looking(w) /\ worker_count <= target_worker_count /\ queue = <<>>
  /\ active_worker_count' = ActiveAgain(w) - 1
  /\ NotifyWaiters
  /\ sleeping' = sleeping \union {w}
  /\ pc' = [pc EXCEPT ![w] = "idle"]
  /\ UNCHANGED <<template, worker_count, target_worker_count, queue, terminate,
                 terminated, task, call, phase, history>>

Take(w) ==
  /\ Looking(w)
  /\ pc[w] = "fetch" => worker_count <= target_worker_count
  /\ \E i \in Tops :
       /\ task' = [task EXCEPT ![w] = queue[i]]
       /\ Pop(i)
  /\ active_worker_count' = ActiveAgain(w)
  /\ pc' = [pc EXCEPT ![w] = "run"]
  /\ UNCHANGED <<template, worker_count, target_worker_count, terminate,
                 terminated, sleeping, waiters, call, phase, history>>

\* The task returns, or throws and the scope guard of run is unwound.
TaskEnds(w) ==
  /\ pc[w] = "run"
  /\ \/ pc' = [pc EXCEPT ![w] = "fetch"]
     \/ TasksMayThrow /\ pc' = [pc EXCEPT ![w] = "died"]
  /\ task' = [task EXCEPT ![w] = NoTask]
  /\ ended' = ended \union {task[w]}
  /\ UNCHANGED <<template, counts, queue, terminate, terminated, sleeping,
                 waiters, call, phase, scheduled>>

\* worker_destructed.
Destructed(w) ==
  /\ MonitorFree /\ pc[w] = "leave"
  /\ Attach(-1)
  /\ NotifyWaiters
  /\ terminated' = IF terminate THEN terminated \union {w} ELSE terminated
  /\ pc' = [pc EXCEPT ![w] = "exit"]
  /\ UNCHANGED <<template, target_worker_count, queue, terminate, task,
                 sleeping, call, phase, history>>

\* worker_died_unexpectedly: static_size asks for one worker more than are
\* left, which makes that number the new target.
Died(w) ==
  /\ MonitorFree /\ pc[w] = "died"
  /\ NotifyWaiters
  /\ \E S \in IF terminate THEN {{}} ELSE Spawns(worker_count, worker_count - 1) :
       /\ Attach(Cardinality(S) - 1)
       /\ pc' = [v \in Workers |->
                   IF v = w THEN "exit" ELSE IF v \in S THEN "fetch" ELSE pc[v]]
  /\ IF terminate
     THEN terminated' = terminated \union {w} /\ UNCHANGED target_worker_count
     ELSE target_worker_count' = worker_count /\ UNCHANGED terminated
  /\ UNCHANGED <<template, queue, terminate, task, sleeping, call, phase, history>>

Exit(w) ==
  /\ pc[w] = "exit"
  /\ pc' = [pc EXCEPT ![w] = "none"]
  /\ UNCHANGED <<template, counts, queue, terminate, terminated, task, sleeping,
                 waiters, call, phase, history>>

-----------------------------------------------------------------------------
\* The shutdown controller, once the last handle is gone.

ShutdownCall ==
  /\ phase = "open" /\ \A c \in Clients : ~call[c].inside
  /\ phase' = IF policy = "wait_for_all_tasks" THEN "drain" ELSE "clear"
  /\ UNCHANGED <<template, counts, queue, terminate, terminated, pc, task,
                 sleeping, waiters, call, history>>

ShutdownClear ==
  /\ phase = "clear"
  /\ DropPending
  /\ phase' = IF policy = "immediately" THEN "quit" ELSE "drain"
  /\ UNCHANGED <<template, counts, terminate, terminated, pc, task, sleeping,
                 waiters, call, scheduled>>

\* pool.wait().
Drain ==
  /\ phase = "drain" /\ Owner \notin waiters
  /\ IF Load = 0
     THEN phase' = "quit" /\ UNCHANGED waiters
     ELSE waiters' = waiters \union {Owner} /\ UNCHANGED phase
  /\ UNCHANGED <<template, counts, queue, terminate, terminated, pc, task,
                 sleeping, call, history>>

\* Its loop: one more test, then the condition wait or the joins.
AwaitInactive ==
  IF active_worker_count = 0
  THEN phase' = "join" /\ UNCHANGED waiters
  ELSE phase' = "retire" /\ waiters' = waiters \union {Owner}

\* terminate_all_workers up to the first condition wait or the joins.
TerminateAllWorkers ==
  /\ phase = "quit"
  /\ terminate' = TRUE
  /\ target_worker_count' = 0
  /\ NotifySleepers
  /\ IF policy = "immediately"
     THEN phase' = "closed" /\ UNCHANGED waiters
     ELSE AwaitInactive
  /\ UNCHANGED <<template, worker_count, active_worker_count, queue, terminated,
                 pc, task, call, history>>

Retire ==
  /\ phase = "retire" /\ Owner \notin waiters
  /\ AwaitInactive
  /\ UNCHANGED <<template, counts, queue, terminate, terminated, pc, task,
                 sleeping, call, history>>

\* Joins the terminated workers, with the monitor locked.
Join ==
  /\ phase = "join" /\ \A w \in terminated : pc[w] = "none"
  /\ terminated' = {}
  /\ phase' = "closed"
  /\ UNCHANGED <<template, counts, queue, terminate, pc, task, sleeping,
                 waiters, call, history>>

-----------------------------------------------------------------------------
\* A condition wait may return without a notification.
Spurious ==
  /\ \/ \E w \in sleeping : sleeping' = sleeping \ {w} /\ UNCHANGED waiters
     \/ \E c \in waiters : waiters' = waiters \ {c} /\ UNCHANGED sleeping
  /\ UNCHANGED <<template, counts, queue, terminate, terminated, pc, task, call,
                 phase, history>>

WorkerStep(w) ==
  Leave(w) \/ Sleep(w) \/ Take(w) \/ TaskEnds(w) \/ Destructed(w) \/ Died(w) \/ Exit(w)

OwnerStep == ShutdownClear \/ Drain \/ TerminateAllWorkers \/ Retire \/ Join

Next ==
  \/ \E t \in Tasks : Schedule(t)
  \/ Clear
  \/ \E c \in Clients :
       \/ \E timed \in BOOLEAN, limit \in Limits : WaitCall(c, timed, limit)
       \/ WaitTest(c) \/ WaitTimedOut(c)
  \/ \E size \in Sizes : Resize(size)
  \/ \E w \in Workers : WorkerStep(w)
  \/ ShutdownCall \/ OwnerStep
  \/ Spurious

Spec == Init /\ [][Next]_vars

\* The threads run, tasks end, and a mutex is granted to each that asks for it.
\* Nothing makes a client call the pool, nor a time limit or a task's throw.
FairSpec ==
  /\ Spec
  /\ \A w \in Workers : WF_vars(WorkerStep(w))
  /\ \A c \in Clients : WF_vars(WaitTest(c))
  /\ WF_vars(OwnerStep)

-----------------------------------------------------------------------------
\* Properties.

\* Every variable keeps its type.
TypeOK ==
  /\ scheduler \in Schedulers /\ policy \in ShutdownPolicies
  /\ worker_count \in Nat /\ target_worker_count \in Nat
  /\ active_worker_count \in Nat
  /\ queue \in Seq(Tasks) /\ scheduled \in Seq(Tasks) /\ ended \subseteq Tasks
  /\ terminate \in BOOLEAN /\ terminated \subseteq Workers
  /\ pc \in [Workers -> WorkerStates]
  /\ task \in [Workers -> Tasks \union {NoTask}]
  /\ sleeping \subseteq Workers /\ waiters \subseteq Clients \union {Owner}
  /\ call \in [Clients -> Calls \union {NoCall}]
  /\ phase \in {"open", "clear", "drain", "quit", "retire", "join", "closed"}

\* m_worker_count and m_active_worker_count, which no lock-free reader and no
\* waiter checks against the threads, count the workers attached to the pool
\* and those not in the condition wait, whichever way workers come and go.
CountsExact ==
  /\ worker_count = Cardinality(Attached)
  /\ active_worker_count = Cardinality(Active)

\* No lost wake-up: while a worker sleeps, the pool is not too large, and each
\* pending task has an awake worker of its own that is about to look for one.
\* schedule notifies one worker only and others may overtake it.
Seeking == {w \in Workers : pc[w] = "fetch" \/ (pc[w] = "idle" /\ w \notin sleeping)}
SleepersNotNeeded ==
  sleeping # {} =>
    /\ worker_count <= target_worker_count
    /\ Len(queue) <= Cardinality(Seeking)

\* A thread asleep in wait() or in the shutdown, although nothing is pending or
\* active, is about to be notified by a worker on its way into or out of the
\* condition wait; clear() notifies nobody, so in a pool without any worker it
\* is not.
WaitersNotForgotten ==
  (waiters # {} /\ Load = 0) =>
    \/ worker_count = 0
    \/ \E w \in Workers : pc[w] = "idle" /\ w \notin sleeping

\* A task is scheduled, pending, with one worker, or over: in one place, once.
TasksConserved ==
  /\ \A i, j \in DOMAIN queue : i # j => queue[i] # queue[j]
  /\ \A v, w \in Running : v # w => task[v] # task[w]
  /\ \A w \in Running : task[w] \notin Pending \union ended
  /\ Pending \cap ended = {}
  /\ Pending \union ended \union {task[w] : w \in Running}
       = {scheduled[i] : i \in DOMAIN scheduled}

\* Under the policies that wait, no task is pending or running once the
\* shutdown has come to the termination of the workers, and none ever after.
ShutdownFinishesTasks ==
  (policy # "immediately" /\ phase \in {"quit", "retire", "join", "closed"})
    => Pending = {} /\ Running = {}

\* wait(0), and a timed wait(0) that returns true, return only when no task is
\* pending or running, although they look at two counters and not at the tasks.
WaitCoversTasks ==
  [][\A c \in Clients :
       (call[c].inside /\ call[c].limit = 0 /\ ~call'[c].inside /\ c \notin waiters)
         => Pending = {} /\ Running = {}]_vars

\* Of the tasks pending together, fifo performs the earliest, lifo the latest
\* and prio one that no other precedes, whatever was cleared or scheduled
\* in between.
StartsInOrder ==
  [][\A w \in Workers :
       (task[w] = NoTask /\ task'[w] # NoTask) =>
         \A i, j \in DOMAIN scheduled :
           (scheduled[i] = task'[w] /\ scheduled[j] \in Pending' /\ i # j) =>
             CASE scheduler = "fifo" -> i < j
               [] scheduler = "lifo" -> j < i
               [] scheduler = "prio" -> scheduled[j] \in High => scheduled[i] \in High
    ]_vars

\* What a client sees: the pending tasks by age (lifo pushes at the front), the
\* tasks being performed, and the shutdown until its policy has let tasks go.
ByAge == IF scheduler = "lifo" THEN Reverse(queue) ELSE queue
Performed == {task[w] : w \in Running}
Stage == IF phase = "open" THEN "open"
         ELSE IF phase \in {"clear", "drain"} THEN "stopping" ELSE "stopped"

Promise == INSTANCE TaskPool
  WITH pending <- ByAge, running <- Performed, over <- ended, phase <- Stage

\* Every step is one that pool.hpp and the policies promise (TaskPool), or one
\* that no client can see: whatever the workers, the size of the pool and its
\* two counters do, tasks start in order and once, a wait returns no earlier
\* than its threshold or time limit allows, nothing is dropped but by clear or
\* a policy that says so, and the pool stops with the tasks its policy leaves.
ImplementsTaskPool == Promise!Spec

\* The pool has a worker and is not about to lose one to a resize.
Staffed == 0 < worker_count /\ worker_count <= target_worker_count

\* As long as the pool stays staffed every pending task is taken (or cleared),
\* although each schedule wakes at most one worker.
TasksServed ==
  \A t \in Tasks : t \in Pending ~> (t \notin Pending \/ ~Staffed)

\* As long as the pool stays staffed wait(0) returns, and the shutdown gets to
\* the termination of the workers; from there the shutdown ends in any case,
\* and all terminated workers leave, those asleep and those created late too.
WaitsEnd ==
  /\ \A c \in Clients :
       (call[c].inside /\ call[c].limit = 0) ~> (~call[c].inside \/ ~Staffed)
  /\ phase \in {"clear", "drain"} ~> (phase \in {"quit", "closed"} \/ ~Staffed)
  /\ phase = "quit" ~> phase = "closed"
  /\ terminate ~> \A w \in Workers : pc[w] = "none"
=============================================================================
