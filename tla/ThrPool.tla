------------------------------- MODULE ThrPool -------------------------------
(***************************************************************************)
(* The pthread worker pool of thr_pool.c: one pool, the clients that call  *)
(* thr_pool_queue, thr_pool_wait and thr_pool_destroy, and the detached    *)
(* worker threads that run worker_thread.                                  *)
(*                                                                         *)
(* Every access to the pool happens under pool_mutex, so a critical        *)
(* section, from the return of a lock or of a condition wait to the next   *)
(* unlock or condition wait, is one action.  A condition variable is the   *)
(* set of the threads whose state says that they sleep on it; a thread     *)
(* that was signalled, or timed out, has left that set but has to take     *)
(* the mutex again, and anything may run in between.                       *)
(***************************************************************************)
EXTENDS Naturals, Sequences, FiniteSets

CONSTANTS
  Workers,        \* thread identities pthread_create may hand out
  Clients,        \* threads that call the pool
  Jobs,           \* work requests; each is queued at most once
  NoJob,          \* "this worker holds no job"
  Minimum,        \* pool_minimum
  Maximum,        \* pool_maximum
  Linger,         \* pool_linger: only whether it is 0 matters
  CreateMayFail,  \* may pthread_create return an error?
  JobsMayExit,    \* may a job function call pthread_exit?
  DrainFirst      \* do clients destroy the pool only once its queue is empty?

\* thr_pool_create refuses other limits with EINVAL.  A job that exits is
\* replaced while its thread still exists, hence one identity more.
ASSUME PoolAssumption ==
  /\ Minimum \in Nat /\ Maximum \in Nat \ {0} /\ Minimum <= Maximum
  /\ Linger \in Nat
  /\ IsFiniteSet(Workers) /\ Cardinality(Workers) > Maximum
  /\ NoJob \notin Jobs
  /\ CreateMayFail \in BOOLEAN /\ JobsMayExit \in BOOLEAN /\ DrainFirst \in BOOLEAN

VARIABLES
  head,       \* the FIFO from pool_head to pool_tail
  active,     \* pool_active: the workers linked into the active list
  flags,      \* pool_flags: a subset of {"WAIT", "DESTROY"}
  nthreads,   \* pool_nthreads
  idle,       \* pool_idle
  worker,     \* where each worker thread is
  wjob,       \* the job a worker thread has dequeued
  cancelled,  \* the workers pthread_cancel was called for
  client,     \* where each client is
  owed,       \* history: the unfinished jobs when a client called thr_pool_wait
  jstate,     \* history: what became of each job
  freed       \* the pool's memory was returned by free(pool)

vars == <<head, active, flags, nthreads, idle, worker, wjob, cancelled,
          client, owed, jstate, freed>>

WorkerStates ==
  {"none",      \* the identity is not in use
   "start",     \* created, not yet in the loop
   "waiting",   \* in pthread_cond_wait on pool_workcv
   "lingering", \* in pthread_cond_timedwait on pool_workcv
   "woken",     \* signalled, about to test the while condition again
   "timedout",  \* got ETIMEDOUT, about to leave the while loop
   "run",       \* inside the job function
   "returned",  \* the job function returned; job_cleanup comes next
   "exiting"}   \* the job was cancelled or called pthread_exit

ClientStates ==
  {"out",        \* outside the pool's functions
   "waitCall",   \* entering thr_pool_wait
   "wait",       \* asleep on pool_waitcv in thr_pool_wait
   "waitWoken",
   "drain",      \* asleep on pool_waitcv in thr_pool_destroy
   "drainWoken",
   "busy",       \* asleep on pool_busycv in thr_pool_destroy
   "busyWoken",
   "unlink",     \* past both loops, the mutex released
   "gone"}       \* thr_pool_destroy has returned

JobStates == {"new", "queued", "running", "done", "aborted", "discarded"}

Finished == {j \in Jobs : jstate[j] \in {"done", "aborted"}}

Live == {w \in Workers : worker[w] # "none"}
Asleep == {w \in Workers : worker[w] \in {"waiting", "lingering"}}
Idlers == {w \in Workers : worker[w] \in {"waiting", "lingering", "woken", "timedout"}}
Busy == {w \in Workers : worker[w] \in {"run", "returned", "exiting"}}
\* Awake workers that will look at the queue before they sleep or leave.
Ready == {w \in Workers : worker[w] \in {"start", "woken", "timedout", "returned"}}

Open == "DESTROY" \notin flags

\* The state thr_pool_create returns.
Init ==
  /\ head = <<>> /\ active = {} /\ flags = {}
  /\ nthreads = 0 /\ idle = 0
  /\ worker = [w \in Workers |-> "none"]
  /\ wjob = [w \in Workers |-> NoJob]
  /\ cancelled = {}
  /\ client = [c \in Clients |-> "out"]
  /\ owed = [c \in Clients |-> {}]
  /\ jstate = [j \in Jobs |-> "new"]
  /\ freed = FALSE

(***************************************************************************)
(* Condition variables.                                                    *)
(***************************************************************************)

\* pthread_cond_broadcast(&pool_waitcv), pthread_cond_broadcast(&pool_busycv)
WakeWaitcv(c) == CASE c = "wait" -> "waitWoken"
                   [] c = "drain" -> "drainWoken"
                   [] OTHER -> c
WakeBusycv(c) == IF c = "busy" THEN "busyWoken" ELSE c

\* The test of notify_waiters, made only if a client has set POOL_WAIT; act is
\* the active list at that moment.
NotifyCond(act) == "WAIT" \in flags /\ head = <<>> /\ act = {}

Bug_NotifyWaiters(act) ==
  IF NotifyCond(act)
  THEN /\ flags' = flags \ {"WAIT"}
       /\ \E c \in Clients : client' = [client EXCEPT ![c] = WakeWaitcv(@)]
  ELSE UNCHANGED <<flags, client>>

NotifyWaiters(act) ==
  IF NotifyCond(act)
  THEN /\ flags' = flags \ {"WAIT"}
       /\ client' = [c \in Clients |-> WakeWaitcv(client[c])]
  ELSE UNCHANGED <<flags, client>>

(***************************************************************************)
(* Clients.                                                                *)
(***************************************************************************)

\* thr_pool_queue's reason to signal instead of creating a worker.
Bug_IdleWorker == idle > 1
IdleWorker == idle > 0

\* thr_pool_queue: append, then signal an idle worker, or else create one.
\* The signal is lost when every idle worker has left pool_workcv already.
ThrPoolQueue(c, j) ==
  /\ client[c] = "out" /\ Open /\ jstate[j] = "new"
  /\ head' = Append(head, j)
  /\ jstate' = [jstate EXCEPT ![j] = "queued"]
  /\ \/ /\ IdleWorker
        /\ IF Asleep = {}
           THEN UNCHANGED worker
           ELSE \E w \in Asleep : worker' = [worker EXCEPT ![w] = "woken"]
        /\ UNCHANGED nthreads
     \/ /\ ~IdleWorker /\ nthreads < Maximum
        /\ \E w \in Workers \ Live : worker' = [worker EXCEPT ![w] = "start"]
        /\ nthreads' = nthreads + 1
     \/ /\ ~IdleWorker /\ (nthreads >= Maximum \/ CreateMayFail)
        /\ UNCHANGED <<worker, nthreads>>
  /\ UNCHANGED <<active, flags, idle, wjob, cancelled, client, owed, freed>>

\* The call of thr_pool_wait; the jobs it must cover are those queued so far.
ThrPoolWait(c) ==
  /\ client[c] = "out" /\ Open
  /\ client' = [client EXCEPT ![c] = "waitCall"]
  /\ owed' = [owed EXCEPT ![c] = {j \in Jobs : jstate[j] \in {"queued", "running"}}]
  /\ UNCHANGED <<head, active, flags, nthreads, idle, worker, wjob, cancelled, jstate, freed>>

\* The loop condition of thr_pool_wait.
Pending == head # <<>> \/ active # {}

\* One test of the loop of thr_pool_wait: sleep on pool_waitcv, or return.
WaitLoop(c) ==
  /\ client[c] \in {"waitCall", "waitWoken"}
  /\ \/ /\ Pending
        /\ flags' = flags \union {"WAIT"}
        /\ client' = [client EXCEPT ![c] = "wait"]
        /\ UNCHANGED owed
     \/ /\ ~Pending
        /\ client' = [client EXCEPT ![c] = "out"]
        /\ owed' = [owed EXCEPT ![c] = {}]
        /\ UNCHANGED flags
  /\ UNCHANGED <<head, active, nthreads, idle, worker, wjob, cancelled, jstate, freed>>

\* Where thr_pool_destroy goes from its second loop.
Bug_BusyLoop == IF idle # 0 THEN "busy" ELSE "unlink"
BusyLoop == IF nthreads # 0 THEN "busy" ELSE "unlink"

\* One test of the first loop of thr_pool_destroy, and of the second one after it.
DrainLoop(c, fl) ==
  IF active # {}
  THEN flags' = fl \union {"WAIT"} /\ client' = [client EXCEPT ![c] = "drain"]
  ELSE flags' = fl /\ client' = [client EXCEPT ![c] = BusyLoop]

\* pthread_cond_broadcast(&pool_workcv)
Bug_WakeWorkers == worker
WakeWorkers == [w \in Workers |-> IF w \in Asleep THEN "woken" ELSE worker[w]]

\* thr_pool_destroy: mark the pool, wake every idle worker, cancel every active
\* one, and wait.  A client may destroy the pool only while no other client is
\* inside it.
ThrPoolDestroy(c) ==
  /\ Open /\ \A d \in Clients : client[d] = "out"
  /\ DrainFirst => head = <<>>
  /\ worker' = WakeWorkers
  /\ cancelled' = active
  /\ DrainLoop(c, flags \union {"DESTROY"})
  /\ UNCHANGED <<head, active, nthreads, idle, wjob, owed, jstate, freed>>

DestroyDrain(c) ==
  /\ client[c] = "drainWoken"
  /\ DrainLoop(c, flags)
  /\ UNCHANGED <<head, active, nthreads, idle, worker, wjob, cancelled, owed, jstate, freed>>

DestroyBusy(c) ==
  /\ client[c] = "busyWoken"
  /\ client' = [client EXCEPT ![c] = BusyLoop]
  /\ UNCHANGED <<head, active, flags, nthreads, idle, worker, wjob, cancelled, owed, jstate, freed>>

\* The end of thr_pool_destroy: discard the jobs still queued, free the pool.
FreePool(c) ==
  /\ client[c] = "unlink"
  /\ client' = [client EXCEPT ![c] = "gone"]
  /\ jstate' = [j \in Jobs |-> IF jstate[j] = "queued" THEN "discarded" ELSE jstate[j]]
  /\ head' = <<>>
  /\ freed' = TRUE
  /\ UNCHANGED <<active, flags, nthreads, idle, worker, wjob, cancelled, owed>>

(***************************************************************************)
(* Workers.  A worker enters the loop of worker_thread, with pool_idle++   *)
(* and a call of notify_waiters, from "start" and "returned"; the other    *)
(* two states are inside the loop's wait and are counted in pool_idle.     *)
(* Returning from a job, the worker first unlinks itself in job_cleanup.   *)
(***************************************************************************)
EntersLoop(w) == worker[w] \in {"start", "returned"}
Bug_IdleWithout(w) ==
  IF EntersLoop(w) \/ worker[w] = "timedout" THEN idle ELSE idle - 1
Bug_IdleUnentered(w) == IF worker[w] = "start" THEN idle - 1
                        ELSE IF EntersLoop(w) THEN idle ELSE idle - 1
IdleWithout(w) == IF EntersLoop(w) THEN idle ELSE idle - 1

\* job_cleanup's list after it has unlinked the worker, if it was linked.
Bug_Unlinked(w) == active
Unlinked(w) == active \ {w}

\* worker_thread's choice between a wait without and one with a time limit.
Bug_AtMinimum == nthreads - 1 <= Minimum
AtMinimum == nthreads <= Minimum

\* worker_thread's order of tests: POOL_DESTROY before pool_head.
Bug_MayTake == head # <<>>
MayTake == Open /\ head # <<>>

\* worker_cleanup's condition for a replacement, after --pool_nthreads.
NeedsWorker == head # <<>> /\ nthreads - 1 < Maximum

\* worker_cleanup's test when the pool is being destroyed, on the clients cl
\* that are left after notify_waiters.
LastOneOut(cl) ==
  IF nthreads = 1 THEN [c \in Clients |-> WakeBusycv(cl[c])] ELSE cl

\* The worker finds a job at the head of the queue.
TakeJob(w) ==
  /\ w \in Ready /\ MayTake
  /\ idle' = IdleWithout(w)
  /\ active' = active \union {w}
  /\ worker' = [worker EXCEPT ![w] = "run"]
  /\ wjob' = [wjob EXCEPT ![w] = Head(head)]
  /\ jstate' = [jstate EXCEPT ![Head(head)] = "running"]
  /\ head' = Tail(head)
  /\ UNCHANGED <<flags, nthreads, cancelled, client, owed, freed>>

\* No job.  Up to the minimum the worker waits without a limit, beyond it for
\* pool_linger seconds; one that timed out comes back here, through the top of
\* the loop, when the pool has shrunk to its minimum meanwhile.
WaitForWork(w) ==
  /\ w \in Ready /\ Open /\ head = <<>>
  /\ \/ /\ AtMinimum
        /\ worker' = [worker EXCEPT ![w] = "waiting"]
     \/ /\ ~AtMinimum /\ Linger > 0 /\ worker[w] # "timedout"
        /\ worker' = [worker EXCEPT ![w] = "lingering"]
  /\ idle' = IdleWithout(w) + 1
  /\ active' = Unlinked(w)
  /\ wjob' = [wjob EXCEPT ![w] = NoJob]
  /\ IF worker[w] = "woken" THEN UNCHANGED <<flags, client>>
                            ELSE NotifyWaiters(Unlinked(w))
  /\ UNCHANGED <<head, nthreads, cancelled, owed, jstate, freed>>

\* No job, and the worker has lingered long enough: worker_cleanup.
Retire(w) ==
  /\ w \in Ready /\ Open /\ head = <<>>
  /\ ~AtMinimum /\ (worker[w] = "timedout" \/ Linger = 0)
  /\ worker' = [worker EXCEPT ![w] = "none"]
  /\ idle' = IdleWithout(w)
  /\ nthreads' = nthreads - 1
  /\ active' = Unlinked(w)
  /\ wjob' = [wjob EXCEPT ![w] = NoJob]
  /\ IF EntersLoop(w) THEN NotifyWaiters(Unlinked(w)) ELSE UNCHANGED <<flags, client>>
  /\ UNCHANGED <<head, cancelled, owed, jstate, freed>>

\* The pool is being destroyed: worker_cleanup, the last one wakes the destroyer.
QuitOnDestroy(w) ==
  /\ w \in Ready /\ ~Open
  /\ worker' = [worker EXCEPT ![w] = "none"]
  /\ idle' = IdleWithout(w)
  /\ nthreads' = nthreads - 1
  /\ active' = Unlinked(w)
  /\ wjob' = [wjob EXCEPT ![w] = NoJob]
  /\ LET notify == EntersLoop(w) /\ NotifyCond(Unlinked(w))
         cl == IF notify THEN [c \in Clients |-> WakeWaitcv(client[c])] ELSE client
     IN  /\ flags' = IF notify THEN flags \ {"WAIT"} ELSE flags
         /\ client' = LastOneOut(cl)
  /\ UNCHANGED <<head, cancelled, owed, jstate, freed>>

\* The job function returns, and its effects are complete.
FuncReturns(w) ==
  /\ worker[w] = "run"
  /\ worker' = [worker EXCEPT ![w] = "returned"]
  /\ jstate' = [jstate EXCEPT ![wjob[w]] = "done"]
  /\ UNCHANGED <<head, active, flags, nthreads, idle, wjob, cancelled, client, owed, freed>>

\* The job function calls pthread_exit, or acts on a cancellation.
FuncExits(w) ==
  /\ worker[w] = "run"
  /\ JobsMayExit \/ w \in cancelled
  /\ worker' = [worker EXCEPT ![w] = "exiting"]
  /\ jstate' = [jstate EXCEPT ![wjob[w]] = IF w \in cancelled THEN "aborted" ELSE "done"]
  /\ UNCHANGED <<head, active, flags, nthreads, idle, wjob, cancelled, client, owed, freed>>

\* The cleanup handlers of a worker whose job did not return: job_cleanup and
\* worker_cleanup in one critical section.  The latter replaces the worker if
\* jobs are left (nthreads - 1 < Maximum always holds then).
JobExit(w) ==
  /\ worker[w] = "exiting"
  /\ active' = Unlinked(w)
  /\ wjob' = [wjob EXCEPT ![w] = NoJob]
  /\ LET notify == NotifyCond(Unlinked(w))
         cl == IF notify THEN [c \in Clients |-> WakeWaitcv(client[c])] ELSE client
         gone == [worker EXCEPT ![w] = "none"]
     IN  /\ flags' = IF notify THEN flags \ {"WAIT"} ELSE flags
         /\ \/ /\ ~Open
               /\ client' = LastOneOut(cl)
               /\ worker' = gone
               /\ nthreads' = nthreads - 1
            \/ /\ Open /\ NeedsWorker
               /\ \E v \in Workers \ Live : worker' = [gone EXCEPT ![v] = "start"]
               /\ client' = cl
               /\ UNCHANGED nthreads
            \/ /\ Open /\ (~NeedsWorker \/ CreateMayFail)
               /\ client' = cl
               /\ worker' = gone
               /\ nthreads' = nthreads - 1
  /\ UNCHANGED <<head, idle, cancelled, owed, jstate, freed>>

(***************************************************************************)
(* Time and the pthread library.                                           *)
(***************************************************************************)

\* pthread_cond_timedwait returns ETIMEDOUT.
LingerExpires(w) ==
  /\ worker[w] = "lingering"
  /\ worker' = [worker EXCEPT ![w] = "timedout"]
  /\ UNCHANGED <<head, active, flags, nthreads, idle, wjob, cancelled, client, owed, jstate, freed>>

\* POSIX lets a condition wait return without a signal.
SpuriousWorker(w) ==
  /\ w \in Asleep
  /\ worker' = [worker EXCEPT ![w] = "woken"]
  /\ UNCHANGED <<head, active, flags, nthreads, idle, wjob, cancelled, client, owed, jstate, freed>>

SpuriousClient(c) ==
  /\ client[c] \in {"wait", "drain", "busy"}
  /\ client' = [client EXCEPT ![c] = WakeBusycv(WakeWaitcv(client[c]))]
  /\ UNCHANGED <<head, active, flags, nthreads, idle, worker, wjob, cancelled, owed, jstate, freed>>

\* The clients are through with the pool.
Terminated == freed /\ UNCHANGED vars

-----------------------------------------------------------------------------
\* What a worker thread does whenever it holds the mutex.
WorkerSection(w) ==
  TakeJob(w) \/ WaitForWork(w) \/ Retire(w) \/ QuitOnDestroy(w) \/ JobExit(w)

\* What a client inside thr_pool_wait or thr_pool_destroy does when it is awake.
ClientSection(c) ==
  WaitLoop(c) \/ DestroyDrain(c) \/ DestroyBusy(c) \/ FreePool(c)

Next ==
  \/ \E c \in Clients : \/ \E j \in Jobs : ThrPoolQueue(c, j)
                        \/ ThrPoolWait(c) \/ ThrPoolDestroy(c)
                        \/ ClientSection(c) \/ SpuriousClient(c)
  \/ \E w \in Workers : \/ WorkerSection(w) \/ FuncReturns(w) \/ FuncExits(w)
                        \/ LingerExpires(w) \/ SpuriousWorker(w)
  \/ Terminated

Spec == Init /\ [][Next]_vars

\* The scheduler runs every thread that is not blocked.
ThreadFairness ==
  /\ \A w \in Workers : WF_vars(WorkerSection(w))
  /\ \A c \in Clients : WF_vars(ClientSection(c))

\* Job functions end: those of the pipelines are bounded loops over a strip.
JobFairness == \A w \in Workers : WF_vars(FuncReturns(w) \/ FuncExits(w))

\* The clock reaches the deadline of a timed wait that is left alone.  Weak fairness
\* only: the deadline is now + pool_linger again each time the loop is entered.
ClockFairness == \A w \in Workers : WF_vars(LingerExpires(w))

FairSpec == Spec /\ ThreadFairness /\ JobFairness /\ ClockFairness

-----------------------------------------------------------------------------
(***************************************************************************)
(* Correctness.                                                            *)
(***************************************************************************)

\* The type of every variable of the pool and of its history.
TypeOK ==
  /\ head \in Seq(Jobs)
  /\ active \in SUBSET Workers
  /\ flags \in SUBSET {"WAIT", "DESTROY"}
  /\ nthreads \in Nat /\ idle \in Nat
  /\ worker \in [Workers -> WorkerStates]
  /\ wjob \in [Workers -> Jobs \union {NoJob}]
  /\ cancelled \in SUBSET Workers
  /\ client \in [Clients -> ClientStates]
  /\ owed \in [Clients -> SUBSET Jobs]
  /\ jstate \in [Jobs -> JobStates]
  /\ freed \in BOOLEAN

\* The counters that thr_pool_queue, worker_thread and worker_cleanup decide by
\* agree with the threads that exist: pool_nthreads counts every thread created
\* and not gone, whichever way it left (idle, cancelled, pthread_exit), and
\* pool_idle the ones inside the wait loop; the pool never exceeds its maximum.
ThreadAccounting ==
  /\ nthreads = Cardinality(Live)
  /\ idle = Cardinality(Idlers)
  /\ nthreads <= Maximum

\* Every job handed to thr_pool_queue is in exactly one place: once in the
\* queue, or with exactly one worker of the active list, or over.
JobsConserved ==
  /\ active = Busy
  /\ \A j \in Jobs :
       /\ jstate[j] = "queued" <=> \E i \in 1..Len(head) : head[i] = j
       /\ jstate[j] = "running" <=> \E w \in Workers : worker[w] = "run" /\ wjob[w] = j
       /\ \A w, v \in Busy : wjob[w] = wjob[v] => w = v
  /\ \A i, k \in 1..Len(head) : head[i] = head[k] => i = k

\* No wakeup of workers is lost: while any worker sleeps on pool_workcv, each
\* queued job has an awake worker of its own that is about to look for it, so
\* a signal that found nobody on pool_workcv was not needed by a sleeper.
SleepersNotNeeded ==
  Open /\ Asleep # {} => Len(head) <= Cardinality(Ready)

\* No job is stranded: if pthread_create works, a pool with queued jobs has an
\* awake worker, although workers time out, exit and are signalled in between.
NoJobStranded ==
  Open /\ head # <<>> /\ ~CreateMayFail => Live \ Asleep # {}

\* Jobs that no worker will ever take: every pthread_create failed and no worker is
\* left, or the pool was destroyed with jobs queued.
Abandoned ==
  \/ CreateMayFail /\ Open /\ Live = {}
  \/ ~DrainFirst /\ ~Open

\* No wakeup of waiters is lost: a client asleep on pool_waitcv has its POOL_WAIT
\* flag up, and somebody is on the way to the test of notify_waiters: a worker
\* with a job, or an awake one that will take a job.  Only with abandoned jobs in
\* the queue does nobody come, and the client sleeps on.
WaiterNotForgotten ==
  \A c \in Clients :
    client[c] \in {"wait", "drain"} =>
      /\ "WAIT" \in flags
      /\ \/ active # {}
         \/ head # <<>> /\ (Abandoned \/ (Open /\ Ready # {}))

\* The pool can always shrink to its minimum: the workers that decided to wait
\* without a time limit never outnumber pool_minimum, however the pool grew or
\* shrank after they decided.
UntimedWithinMinimum ==
  Open => Cardinality({w \in Workers : worker[w] = "waiting"}) <= Minimum

\* free(pool) comes after every other access: once the pool is freed no worker
\* thread exists and no client is inside a pool function.
NoUseAfterFree ==
  freed => /\ Live = {}
           /\ \A c \in Clients : client[c] \in {"out", "gone"}

\* thr_pool_wait: "Wait for all queued jobs to complete" (thr_pool.h:95).  It
\* does not return before the functions of all jobs queued before it have ended.
WaitCoversJobs ==
  [][\A c \in Clients :
       client[c] \in {"waitCall", "waitWoken"} /\ client'[c] = "out"
         => owed[c] \subseteq Finished]_vars

\* thr_pool_destroy returns, having stopped the workers and freed the pool.
DestroyReturns == ~Open ~> freed

\* "linger: the number of seconds excess idle worker threads (greater than
\* min_threads) linger before exiting" (thr_pool.h:68-69): they do exit, unless
\* idle workers are woken again and again and never linger to the end.
ExcessWorkersLeave ==
  \/ []<>(\E w \in Workers : worker[w] = "woken")
  \/ nthreads > Minimum ~> nthreads <= Minimum

(***************************************************************************)
(* The pool implements what its header promises.                           *)
(***************************************************************************)
PoolPhase == IF freed THEN "closed" ELSE IF Open THEN "open" ELSE "closing"

Promise == INSTANCE JobPool WITH
  queue <- head,
  running <- {j \in Jobs : jstate[j] = "running"},
  finished <- Finished,
  waiters <- {c \in Clients : client[c] \in {"waitCall", "wait", "waitWoken"}},
  phase <- PoolPhase

\* Every step of the pool is a step of JobPool or changes nothing it shows: jobs
\* start in FIFO order, at most Maximum run at once, thr_pool_wait and
\* thr_pool_destroy return only when they may, nothing starts in a closing pool.
ImplementsJobPool == Promise!Spec

\* The liveness part of the promise, for jobs that end.
ImplementsFairJobPool == Promise!FairSpec

=============================================================================
