# X_RAY: verification of the image pipelines and their thread pools

The repository holds the software experiments for reading out an X-ray
detector: a detector sends frames of 16-bit pixels over UDP, and a reduction
program computes the average and the noise of a series of dark images and
subtracts them from the data images, in parallel on strips of the image. Three
thread pools were tried for it: a C pool, a C++ pool and `boost::threadpool`. This
directory models the parts that carry state, concurrency or arithmetic, checks
them with TLC and proves their safety properties with TLAPS.

## 1. Inventory

| component (directory) | state | operations | modelled in |
| --- | --- | --- | --- |
| job pool `thr_pool.c` (`ctest/data_sub/lib`, and seven identical copies) | job FIFO, active list, `POOL_WAIT`/`POOL_DESTROY`, `pool_nthreads`, `pool_idle`, one mutex, three condition variables | `thr_pool_queue`, `thr_pool_wait`, `thr_pool_destroy`, `worker_thread` and its cleanup handlers | `ThrPool`, promise in `JobPool` |
| reduction pipeline `ctest/data_sub` | globals describing the image, `avg_buffer`, `rms_buffer`, mask, output images | `main`, the jobs `rms` and `sub` | `DataSub` |
| dark statistics `ctest/dark_rms` (on the pool), `ctest/mthread_dark_rms`, `mthread_dark_avg` (fork and join) | the same buffers, without the data phase | `main`, `pthread_create`, `pthread_join`, the strip functions | `DataSub` |
| pixel arithmetic of these programs | `dk0`, 16-bit sums, averages, results | `rms_op`, `image_syn`, `sub_op`, both `avg_op` | `DarkPixel` |
| C++ pool `cpptest/tim_dark_rms` | per thread `is_busy`, `myexe`, a lock and a condition; shared `busy_count`, `signal_count` | `fillPool`, `startJob`, `synchronize`, `t_thread::maine` | `TThreadPool` |
| task pool `cpptest/threadpool` (`boost::threadpool`) | task container, three worker counters, terminated workers, one monitor, two conditions | `schedule`, `clear`, `wait`, `resize`, `execute_task`, worker exits, three shutdown policies | `PoolCore`, promise in `TaskPool` |
| its futures | `m_ready`, `m_result`, `m_is_cancelled`, `m_executing` | `wait`, `timed_wait`, `get`, `cancel`, the task wrapper | `Future` |
| image transfer `testbench/test_udp` | loop counters and pointers of client and server, sockets | hand shake, parameters, packet loops | `UdpTransfer` |
| MPI pipelines `ctest/rma`, `op_rma`, `op_scatter`, `mpi_lld` | | | not modelled: drafts that do not compile |
| `ctest/platform`, `testbench/udpsim` | | | not modelled: undeclared names; unresolved merge conflicts |
| `ctest/libtiff_load`, `tifseq_load`, `cpu_info`, `barrier_test`, `udp` | none | one library call each | not modelled |
| `cpptest/dark_rms`, `cpptest/data_sub`, `matlab`, `doc` | | | not modelled: stubs, scripts, documents |

**Interactions.** The main thread of `data_sub` (and of `dark_rms`) is the pool's
client: it queues one job per strip, waits, loads the next file, queues again,
waits, writes the files, destroys the pool. Jobs communicate with main and with
later jobs only through global buffers; `thr_pool_wait`, or `pthread_join` in the
programs without a pool, is the sole synchronisation. Inside the pool, clients
and workers share one mutex; workers sleep on `pool_workcv`, waiting clients (and
the destroyer) on `pool_waitcv`, the destroyer on `pool_busycv`. In the C++ pool
each worker sleeps on a condition of its own and the application on a shared
one. In `boost::threadpool` clients call through reference-counted handles, a size
controller resizes, the destructor of the last handle runs the shutdown policy,
and a future is shared by the task that sets it and the clients that hold it.
The UDP programs share nothing but datagrams.

**Where it is hard.** Signals that find nobody (`thr_pool.c:294`,
`t_thread.cpp:38`, `pool_core.hpp:188`), one wakeup flag for several waiters
(`thr_pool.c:67`), linger timeouts racing new jobs (`:136`), several ways for a
thread to leave (`thr_pool.c:51`, `pool_core.hpp:369-398`), waiters that compare
counters and not tasks (`pool_core.hpp:248`), destruction against active and
lingering workers (`thr_pool.c:337`, `:343`, `:370`, `pool_core.hpp:308`), failure of
`pthread_create` (`thr_pool.c:296`, `mthreads_dark_rms.c:109`, `t_thread.cpp:180`), counters that are
tested before the thread they count has run (`t_thread.cpp:122`, `:141`), flags
read and written without the lock (`detail/future.hpp:135`), phases separated by
one wait (`data_sub.c:92`), strips and 16-bit words at their limits (`tif.c:42`,
`rms.c:78`, `sub.c:45`, `:70`, `avg_1.c:69`), datagrams without numbers
(`udp_server.c:59`). `PROJECT.json` lists every hazard with the properties that
would show it going wrong.

**What makes each component correct.** *Pools*: counters equal the threads
they count; no job and no waiter is forgotten; a wait covers the jobs queued
before it; tasks start in the scheduler's order; the shutdown ends and the
pool's memory is freed last. *Futures*: `get` gives what the function returned, a
cancellation is honoured, waits return. *Pipelines*: strips are disjoint and
cover the image, no result uses unfinished statistics, the files are complete.
*Arithmetic*: average, deviation and difference are those of the definition
while the sums fit. *C++ pool*: the busy count is that of the
busy threads, a synchronised frame is finished, the application is never stuck. *UDP*: units arrive where they belong.

## 2. Modules

    JobPool        what thr_pool.h promises: FIFO, bounded running set, wait, destroy
    ThrPool        thr_pool.c; refines JobPool (ImplementsJobPool, ImplementsFairJobPool)
    ThrPoolMC      symmetry sets for TLC
    ThrPoolProofs  theorems about ThrPool: counters, wakeups, memory
    ThrPoolRefines extends it: where every job is, what thr_pool_wait covers, and the
                   refinement of JobPool
    DataSub        the four reduction programs; composed with JobPool (INSTANCE)
    DataSubProofs  theorems about DataSub
    DarkPixel      one pixel through the arithmetic of DataSub's jobs
    DarkPixelProofs  theorems about DarkPixel
    TThreadPool    the C++ pool with main.cpp's frame loop as its application
    TThreadPoolMC  the setups (threads, jobs, frames) TLC runs it with
    TThreadPoolProofs  theorems about TThreadPool
    TaskPool       what pool.hpp and the policies promise: order, clear, wait, shutdown
    PoolCore       the core of boost::threadpool with its policies; refines TaskPool
                   (ImplementsTaskPool)
    PoolCoreProofs theorems about PoolCore
    Future         one future of boost::threadpool
    FutureProofs   theorems about Future
    UdpTransfer    client, server and network of test_udp
    UdpTransferProofs  theorems about UdpTransfer

Definitions named `Bug_...` stand beside the definition they would replace; they
are plausible mistakes used to see that each property can fail, and no other
definition uses them.

### ThrPool and JobPool

All pool state is accessed under `pool_mutex`, so one action is one critical
section: from a lock, or the return of a condition wait, to the next unlock or
condition wait. The state of a condition variable is the set of threads whose
program counter (`worker`, `client`) says they sleep on it. A signalled thread
is moved to `woken`; a timed-out one to `timedout`; both must still get the mutex,
and any other section may run before. `pthread_cond_timedwait` may time out at
any moment, and condition waits may return spuriously.

| code | action |
| --- | --- |
| `thr_pool_queue` | `ThrPoolQueue` (signal, create or neither) |
| `thr_pool_wait` | `ThrPoolWait` (call), `WaitLoop` (each test of the loop) |
| `thr_pool_destroy` | `ThrPoolDestroy` up to its first sleep, `DestroyDrain`, `DestroyBusy`, `FreePool` |
| `worker_thread`, from the top of the loop or from a wakeup | `TakeJob`, `WaitForWork`, `Retire`, `QuitOnDestroy` |
| the job function ending by `return`; by `pthread_exit` or cancellation | `FuncReturns`; `FuncExits` |
| cleanup handlers of a thread that is exiting | `JobExit` |
| clock, pthread library | `LingerExpires`, `SpuriousWorker`, `SpuriousClient` |

`job_cleanup` after a returning job and the next pass of `worker_thread` run
under the same lock, so they are one action (`Unlinked` and `NotifyWaiters`
inside `TakeJob`, `WaitForWork`, `Retire`, `QuitOnDestroy`). In `TakeJob` a
worker coming from a job unlinks and links itself in one section; its
`notify_waiters` is idle because the queue is not empty. The order of tests is
the code's: `POOL_DESTROY`, then the queue, then the timeout. A client may call
`thr_pool_destroy` only when no other is inside the pool, the contract of any
destructor. `owed` and `jstate` are history variables; they guard nothing except
that a job of the model is queued once.

`JobPool` is the interface as a client sees it. `ThrPool!Promise` maps the FIFO to
itself, `running` to the jobs whose function is being executed, `waiters` to the
clients inside `thr_pool_wait`. Steps of threads, timers and signals stutter.

### DataSub and DarkPixel

`DataSub` runs main and its jobs over `JobPool`'s actions; that the real pool
allows no more is what `ImplementsJobPool` shows. `program` chooses which of the
mains runs: `data_sub` with both phases; `dark_rms`, which goes from the first wait
to the file and the destruction (`AfterDark`); `mthread_rms` and `mthread_avg`, which have no
pool but `CreateThread` and `JoinThread`. Without a pool, `running` and `finished` are
simply the threads that exist and those that have exited. The jobs of all four
programs are the same loops.

`thr_pool_queue` returns 0 even if its `pthread_create` fails, so `staffed` says
whether the pool has got a worker at all: without one no job starts, and main
waits for ever (`Unserved`). Every failure that ends the process is an action, from
which the jobs are gone at once: `OpenFails` (an input file), `QueueFails`
(`thr_pool_queue` returns -1), `WriteFails` (an output file), `CreateFails` (`pthread_create`
in the programs without a pool) and `ImageSynKills`, the division by `pages - 1` that
kills the process of every program but `mthread_dark_avg` if there is one dark
page.

A row is the unit of data and buffers hold *which* rows a value was computed
from, so an index error, an overlap, a read of statistics before they are
complete or of a strip of another row is visible. `rms` is `RmsInit`, one `RmsOp`
per page, `ImageSyn` (or `ImageSynKills`); `sub` is `MaskInit`, one `SubOp` per page, `SubEnds`.
Statistics start as `NoRow`, what `malloc` leaves. Columns behave alike and are left
out.

`DarkPixel` keeps the widths: words of `2 * Half` values (`Half` = 2^15 in the
code), signed for `avg_buffer`, unsigned for `rms_buffer` and the images, ints of
twice that width, with C's truncating division. A double out of the range of `int` is converted as
the x86-64 build does it (lowest int, whose low word is 0). `method` is the way the
program averages: `rms` (`data_sub`, `dark_rms`, `mthread_dark_rms`: differences from
the first page, with squares), `avg_2` (the same without squares), `avg_1` (each
page divided, rounded and added).

### TThreadPool

Critical sections of `mylock` and of `busylock` are single actions (`busylock` is
only taken inside `mylock`). `Park` is the section from the lock to the wait,
`Wake` from the wakeup to the unlock, `Dispatch` the unlocked read of `myexe`.
`startJob` is one action per lock region or unlocked write: `Scan`, `Assign`,
`ReadCount`, `Signal`, `WaitBusySignal`; `synchronize` is `Synchronize`.
`signal_count` is only ever compared with the value read last, so the model keeps
the Boolean "has it moved since" (`signalled`); wrap-around of the int is left out.
`is_busy` of a new thread is not initialised by the constructor: any Boolean.
The thread of `fillPool`'s local `dummythread` takes part with the one critical
section it reaches; `dummy` says whether it did so before `fillPool` made its first
thread (`"first"`) or afterwards (`"late"`). `setup` is the program and the machine: how
many executables, extra threads and frames, how many spurious wakeups (a bound),
and whether `pthread_create` may be refused. The constructor ignores its result
(`t_thread.cpp:180`): the thread object is there, and no thread ever parks or wakes
for it (`Refused`). `early`, a history variable, is set when `startJob` returns
although its own thread has not woken up.

### PoolCore and Future

A critical section of `m_monitor`, up to its end or a condition wait, is one
action; `sleeping` and `waiters` are the threads asleep on the two conditions. The
worker's loop (`worker_thread.hpp:80`, `execute_task`) is `Leave`, `Sleep`, `Take`,
`TaskEnds`, then `Destructed` or `Died`, then `Exit`. Going to sleep again after a
wakeup is one step (`ActiveAgain`, then -1). A worker that was woken tests the
queue first and the counts only if it is empty; one that comes from a task tests
the counts first. `Resize` is `pool_core::resize` and, with the target of
`static_size`, the replacement of a worker that died. A thread that
`boost::thread` refuses is not created (`Spawns`, `CreateMayFail`). The template
arguments are variables that never change, so one run covers every scheduler and
every shutdown policy: `ShutdownClear`, `Drain` and `TerminateAllWorkers`, `Retire`,
`Join` in the order each policy calls them. The joins hold the monitor, so
`MonitorFree` is false while they last. Clients inside `wait` keep the pool alive:
`ShutdownCall` is the destructor of the last handle. `scheduled` and `ended` are
history.

`TaskPool` is the pool as its clients see it: pending tasks in the order of
`schedule`, tasks running, tasks over, the calls of `wait`, and a pool that is open,
stopping or stopped. No thread, counter, size or condition occurs in it.
`PoolCore!Promise` maps `pending` to the container (`ByAge`: reversed for lifo, which
pushes at the front), `running` to the tasks workers hold while they perform them
(`Performed`), and the phases before the policy calls `terminate_all_workers` to
"stopping" (`Stage`). `clear` maps to `Discard`, both policies' `clear` to `Discard` or
`Stop`, the wait of the policies ends in `Stop`; resizes, creations, exits, wake-ups
and going to sleep stutter. A wait with a time limit may return at any time, so
nothing is promised of the value it returns.

In `Future` every access without the lock is an action of its own: the two reads
and the write of `cancel`, `get`'s read of the result, the worker's
`set_execution_status` and `is_cancelled`. `set_value` is split at its writes, under
the lock. `executing` starts as any Boolean, since no constructor sets it. `grants`
is history: where the task was when a `cancel` that returned true was carried out.
That the task is taken at all is `TasksServed` of `PoolCore`; `Drop` is `clear` or a
shutdown that discards it; `Skip` is the task of an empty function, which ends with
the future as it was (`if(m_function)`).

### UdpTransfer

Datagrams in flight are a sequence per direction; `Lose` drops any one of them
(localhost and a direct link do not reorder). A data packet carries 1024 bytes,
the model's unit; both pointers are `uint16 *` and advance by 1024 elements,
two units. If the parameters are lost, pixels are taken for them
(`"confused"`); what the program does then is not followed. A frame is taken to be a
whole number of packets. Otherwise both programs round the number of packets up
(`udp_client.c:57`, `udp_server.c:43`) and the last packet of a frame may reach
beyond it, into the next frame or past the buffer; this is not modelled.

## 3. Runs

| run | instance | what it shows |
| --- | --- | --- |
| `thrpool_safety` | 4 thread identities, limits 1..3, 3 jobs, 2 clients, jobs may `pthread_exit`, `pthread_create` may fail, destruction any time | type, counters, job conservation, lost signals harmless, no forgotten waiter, no use after free; every step is one of the interface |
| `thrpool_live` | 3 identities, limits 1..2, 2 jobs, 2 clients, clean use | the fair interface: jobs are performed, overlapping waits and destructions return; excess workers leave if they are let linger |
| `thrpool_destroy_pending` | destruction with queued jobs | **violation** of `DestroyReturns` |
| `tthread` | six setups with jobs of any length and a dummy at any time: 1 to 3 jobs, up to 2 extra threads, up to 3 frames; up to one spurious wakeup; one with refused threads | `busy_count` never counts a parked thread, and falls short of the busy ones by one for a late dummy and two for a spurious wakeup at most; the application gets through unless a thread was refused; a frame is left unfinished only after a late dummy, a spurious wakeup or an early `startJob` |
| `tthread_sync` | 1 frame, 2 jobs of any length | **violation** of `SynchronizeBlocks` |
| `pool_core` | 2 threads, 2 tasks, 1 client, sizes 0..2, all schedulers and shutdown policies, throws and failed creation | counters, wake-ups, conservation and order of tasks, waits (thresholds 0 and 1, with and without a time limit) and shutdown cover the tasks; every step is one of the interface; staffed pools serve every task, waits and shutdowns end |
| `future` | 2 clients, 2 values | results complete, cancellation honoured, waits return |
| `datasub` | 3 strips of 2 rows, 2 dark pages (or 1) and 3 data pages, all programs | right rows, phases separated, disjoint strips, complete files (none at all after one dark page); whatever call fails, the program ends unless the pool has no worker |
| `datasub_mask` | 2 strips of 3 rows | **violation** of `MaskIsBadStrip` |
| `darkpixel` | 4-bit words, 1 to 4 pages, 12 pixel values, three methods | average and deviation while the sums fit; a signal beyond the threshold goes through undistorted, for negative averages too |
| `udp_transfer` | 3 frames of 3 packets, any losses | in place without loss, order kept with loss, termination without loss |
| `udp_complete` | 2 frames of 2 packets | **violation** of `ImageComplete` |

A property that another implies is not run a second time. `ImplementsFairJobPool`
contains that jobs are performed and that waits and destructions return;
`ImplementsJobPool` contains that a wait covers its jobs (`WaitCoversJobs`).
`ImplementsTaskPool` contains that a shutdown under a policy that waits finishes the
tasks (`ShutdownFinishesTasks`). It overlaps `StartsInOrder` and `WaitCoversTasks`,
which stay because they say more: the first compares with every task ever
scheduled and not with the container, the second covers a wait with a time limit
that returns true.
`ShutdownFinishesTasks` of `PoolCore`, `NoJobStranded`, `UntimedWithinMinimum` and
`WaitCoversJobs` of `ThrPool` and the `TypeOK` of `DataSub`, `DarkPixel`, `UdpTransfer` and `Future` are definitions
without a run, and so is `FitsIfQuiet` of `DarkPixel`; all are proved. `NoiseRemoved` of
`DarkPixel` has no run either: it is false (section 4).

**Bounds and why they suffice.** *ThrPool*: `Workers` has one identity more than
the maximum since a replacement is created while the exiting thread still
exists. A minimum of one gives a kept worker and excess workers, at once asleep,
signalled, timed out or working; two clients let one wait while the other
queues, and two waits overlap, in `thrpool_live` too. There two jobs and at most
two workers let one job run while the next is queued, and a queue of two meet one
worker. `Linger` is only tested against 0.
*TThreadPool*: one frame after another with more threads than jobs is needed to
pick a thread again; two and three frames show what a frame leaves behind, three
jobs in a frame let two of them end while the third is started. The number of
spurious wakeups is bounded: with infinitely many `synchronize` need not return,
as each one runs an old job. Refusals have a setup of their own, with no thread to
spare. *PoolCore*: two workers and two tasks let one
worker overtake the other, leave while it sleeps, die and be replaced at every
size; sizes 0, 1 and 2 cross every count from either side; `Limits = {0, 1}` are the
two branches of `wait`: 0 is the default and what the shutdown policies use, 1 lets
a wait return while a task is pending or running; the client's wait and the
owner's overlap with resizes through a size controller. *Future*: two clients let
one cancel while the other waits. *DataSub*: three strips have a first, a middle
and a last one; two dark pages are a reference and an accumulated one, one dark page is the
limit at which the programs die, and three data pages differ in number from the
dark ones. `MAX_THREAD` is 8, more than the strips, so all jobs may overlap. *DarkPixel*: four bits leave room for wraps in
every buffer; the twelve values include both ends and the sign boundary.
*UdpTransfer*: three frames let a loss in the first disturb two others. The proofs
(section 5) remove these bounds for the safety properties.

**Fairness.** Weak fairness of each thread's critical sections: the scheduler and
the mutex do not starve a thread for ever. Weak fairness of the end of a job
function: the pipelines' jobs are bounded loops; the tasks of `PoolCore` likewise,
as part of the worker's steps. Weak fairness of `LingerExpires` and no more: the
deadline is now plus `pool_linger` again on each pass of the loop
(`thr_pool.c:132-136`), so only a wait that is left alone is sure to reach it.
`ExcessWorkersLeave` therefore excepts executions in which idle workers are woken
for ever. No fairness for `pthread_exit`,
exceptions, spurious wakeups, time limits of waits, client calls, resizes. In
`TThreadPool` nothing is assumed of the dummy thread, whose object is dead.
`DataSub` assumes the fairness of `JobPool!FairSpec` (`Start`) for a pool that is
`staffed`. `ThrPool` implements it under clean use (`ImplementsFairJobPool`), and
`DestroyedIdle` shows its use is clean; a pool that got one worker keeps one, since
the last never leaves (`pool_minimum` is 1 and the jobs return). In `UdpTransfer` both processes run and a datagram that is not lost
arrives; termination is claimed only for a run without loss. Where the code can
really stall, the property says so: `PoolCore`'s liveness holds as long as the
pool is `Staffed`, `Future`'s unless it is `Broken`, `TThreadPool`'s unless a thread was
`Refused`, `DataSub`'s unless its jobs are `Unserved`.

**Deadlock** is checked wherever the system must not stop: termination is an
explicit stuttering step. It is off for `DarkPixel` (a calculation that ends),
`UdpTransfer` (after a loss `recvfrom` blocks for ever), `TThreadPool` (a refused thread
stops the application; that nothing else does is `AppFinishes`) and `PoolCore` (a pool
that has been shut down; that the shutdown gets there is `WaitsEnd`).

## 4. Disagreements between code and documents

With a run:

1. `thr_pool_destroy` with a job queued behind an active one never returns:
   `notify_waiters` wants an empty queue, and no worker takes jobs any more
   (`thr_pool.h:100`: "Cancel all queued jobs and destroy the pool").
   The pipelines always wait before, so they are not affected.
2. `t_threadpool::synchronize` can return while a job of the frame has not begun
   (`main.cpp:160`: "blocks until all threads are done"), because `startJob`
   returns on any thread's signal and `busy_count` rises only when the woken
   thread runs.
3. `mask_init` applies the bounds of the image's bad strip to the rows of each
   strip (`sub.c:34-37`), as far as the strip has that many.
4. Half of every image is never sent by `udp_client.c`: a pointer to 16-bit pixels
   advances by the number of bytes sent. That this is so for every number of
   frames and packets is theorem `HalfNeverSent`.

Without a run of their own, in the programs:

- `CreateMayFail = TRUE` in `ThrPoolLive.cfg` makes `ImplementsFairJobPool` fail:
  `thr_pool_queue` ignores the error of `create_worker` and returns 0 even if the
  pool has no worker at all (`thr_pool.h:89` announces -1). The pipeline then waits for
  ever (`Unserved` in `DataSub`).
- A job queued while the only idle worker has been signalled already is given
  neither a thread nor a wakeup although the pool may grow: `pool_idle` still
  counts that worker (`thr_pool.h:79-81`). The job waits for the end of another.
- A job that calls `pthread_exit` shrinks the pool below `pool_minimum` if the
  queue is empty (`thr_pool.h:64-65`).
- A number of rows that the number of threads does not divide (`Length = 7` in
  `DataSub.cfg`) makes `FilesComplete` fail: the remainder of the division in
  `tif.c:42` belongs to no strip. Hence the assumption of `FilesWhole`.
- The constructor of `t_thread` ignores the result of `pthread_create`
  (`t_thread.cpp:180`). If a thread is refused, `fillPool` polls for its signal for
  ever, or is let through by another's and a later `startJob` on that object waits
  for ever (`Refused` in `AppFinishes`).
- `busy_count` is too low after a late dummy thread and after spurious wakeups
  (`BusyCountLag` says by how much), so `synchronize` may return early after them,
  as after an early `startJob` (`Undisturbed`).
- A dark average of 32768 or more is negative in `avg_buffer` (`int16`), and the
  difference from a data pixel too large by 65536. It passes the threshold, so a
  pixel below the average becomes a bright one where nothing should be left
  (`sub.c:4`: "compensate background noise"): `NoiseRemoved` as an invariant in
  `DarkPixel.cfg` fails. A pixel above it is not affected: the word wraps back
  (`SignalKept`).
- Sums of squares beyond 65535 wrap in `rms_buffer`, and the deviation is then
  anything (`SquaresFit`). Averages are not affected.
- `avg_1.c` adds one rounding error per page, half the number of pages in the end:
  pixels below half the number of pages average to 0. The other methods are off by
  less than one.
- One dark page divides by zero (`rms.c:104`), which kills the process with all its
  jobs (`ImageSynKills`).
- If `pthread_create` fails the fork-join programs exit without output, whatever
  the threads they have were computing.
- A lost datagram makes the first packet of a frame complete the frame before.

In `boost::threadpool`, read off the actions of `PoolCore` and `Future`:

- A `resize` to fewer threads can leave fewer than asked for: several workers may
  decide to leave by the same counts (`pool_core.hpp:410`) before any of them is
  counted out in `worker_destructed` (`:390`), and nothing creates them again
  (`:324-326`: "The new number of worker threads").
- `worker_died_unexpectedly` asks for as many workers as are left, plus one, and
  so resets the target: a pool that failed to reach its size, or was about to
  shrink, forgets the number that was asked for.
- `terminate_all_workers` with `wait` waits for the active ones (`:308`), then joins
  those that have terminated; a worker that has been woken and has not got the
  monitor back is not active, so it is neither waited for nor joined (`shutdown_policies.hpp:29-30`: "worker termination
  afterwards"). It does leave (last part of `WaitsEnd`).
- A timed wait whose time is up returns false without testing the condition again
  (`:278`), also if the tasks are done by then (`:267`).
- A wait with a threshold above 0 is notified only by workers that go to sleep or
  leave: while workers take one task after the other the sum may fall to the
  threshold unnoticed. `clear` notifies nobody either; `WaitersNotForgotten` shows
  that a worker on its way makes up for it, except in a pool without workers.
- `Future::cancel` may return true and the future still become ready with a
  result, if it comes after the test in `set_value`. A wait on a future that was
  cancelled, whose function threw or is empty (`detail/future.hpp:193`), or whose task
  was dropped never returns. After
  a throw `m_executing` stays true.

## 5. Proofs

Every safety property the passing runs check is proved, but for
`SynchronizeIfUndisturbed`, for every value of the constants their assumptions allow. The assumptions are those of
the modules (`PoolAssumption`: what `thr_pool_create` accepts, finitely many thread
identities, one more than the maximum; `PoolCoreAssumption`: finitely many threads,
sizes and limits are numbers; `DataSubAssumption`, `UdpAssumption`,
`TPoolAssumption`, `FutureAssumption`: positive sizes; `PixelAssumption`: words of any
even number of values, pages in that range), and one more where a theorem
names it: that the strips divide the rows.

| module | theorem | property |
| --- | --- | --- |
| `ThrPoolProofs` | `TypeCorrect`, `AccountingCorrect`, `WaitersRemembered`, `NoSleeperNeeded`, `FreeIsLast` | `TypeOK`, `ThreadAccounting`, `WaiterNotForgotten`, `SleepersNotNeeded`, `NoUseAfterFree` |
| | `JobsNotStranded`, `CanShrink` | `NoJobStranded`, `UntimedWithinMinimum` (no run) |
| `ThrPoolRefines` | `JobsKept`, `WaitCovers`, `Refines` | `JobsConserved`, `WaitCoversJobs` (no run), `ImplementsJobPool` |
| `PoolCoreProofs` | `TypeCorrect`, `CountersCorrect`, `NoSleeperNeeded`, `NoWaiterForgotten` | `TypeOK`, `CountsExact`, `SleepersNotNeeded`, `WaitersNotForgotten` |
| | `NoTaskLost`, `WaitCovers`, `TakenInOrder`, `Refines` | `TasksConserved`, `WaitCoversTasks`, `StartsInOrder`, `ImplementsTaskPool` |
| | `ShutdownCompletes` | `ShutdownFinishesTasks` (no run) |
| `FutureProofs` | `ExecutingRead`, `CancelWorks`, `ResultRead`, `TypeCorrect` | `ExecutingIsSet`, `CancelHonoured`, `GetGivesResult`, `TypeOK` (no run) |
| `DataSubProofs` | `ResultsFromSameRow`, `WritesDisjoint`, `DestroyedWhenIdle`, `FilesWhole`, `TypeCorrect` | `ResultsUseSameRow`, `WrittenOnce`, `DestroyedIdle`, `FilesComplete`, `TypeOK` (no run) |
| `DarkPixelProofs` | `AverageIsMean`, `DeviationIsStd`, `SignalIsKept` | `AverageRight`, `StdRightIfFits`, `SignalKept` |
| | `QuietFits`, `TypeCorrect` | `FitsIfQuiet`, `TypeOK` (no run) |
| `UdpTransferProofs` | `StoredInPlace`, `StoredInOrder`, `TypeCorrect`, `HalfNeverSent` | `InPlace`, `OnlyForward`, `TypeOK`, `HalfMissing` (no run) |
| `TThreadPoolProofs` | `TypeCorrect`, `NoPhantom`, `LagBounded` | `TypeOK`, `NoPhantomBusy`, `BusyCountLag` |

### ThrPool

Counters come first: `Counted` (types and `ThreadAccounting`) is
inductive on its own, because each action moves one thread between the classes
that `nthreads` and `idle` count (lemmas `CountMove`, `Recount`; `ReplaceRecount`
for an exit that creates a replacement); a decrement stays a natural number
since the counter counts the thread that leaves. `ActiveExact` adds that the
active list is exactly the set of threads between taking a job and
`job_cleanup`, and `DestroyerAlone` that once the pool is marked at most one
client is inside it. With these, `WaitersHeeded` is inductive (a sleeping client has
`POOL_WAIT` up, and something is queued or active): whoever makes queue and
active list empty has just tested the flag. `SleepersNotNeeded`
needs only the counters (`Wakeups`): a job added while `pool_idle` > 0 wakes a
sleeper if there is one, a job added while `pool_idle` = 0 finds none asleep, and
a worker stops being ready only by taking a job or finding none. For
`NoJobStranded` the invariant is `Manned` (a pool with queued jobs has a thread at
all), combined with `SleepersNotNeeded`. These together give `WaiterNotForgotten`: if
nothing is active, the queue is not empty, the pool has a thread unless it is
`Abandoned`, and with nothing active that thread is about to look for a job, or
sleeps, in which case another is. `NothingLeft` (a pool that is drained before
it is destroyed closes with an empty queue) excludes the closing pool. `UntimedWithinMinimum` is inductive with
the counters since a worker decides by `pool_nthreads`, which counts it
(`Shrinkable`). `FreedAlone` says that past its second loop the destroyer leaves
no thread behind, hence `NoUseAfterFree`.

`ThrPoolRefines` follows the jobs. Its invariant `Places` strengthens
`JobsConserved` by `HeldJobs`: a worker on its way from a job to `job_cleanup`
still holds that job, and it is over; without this a job taken from the queue
could be one another worker has not let go of. The queue part (`Listed`) changes
only in `ThrPoolQueue` and `TakeJob`, the workers' part (`Held`) only in `TakeJob`,
at the end of a job function and when a worker gives its job up.

It then adds `OwedAlive` (no job a waiting client was promised has been
discarded, as `free(pool)` finds no client waiting): the invariant is `Service`. A
client leaves the loop of `thr_pool_wait` with queue and active list empty, so
by `Places` every job it was promised has ended (`NothingPending`, `WaitCovers`).
Then each action maps to the step of `JobPool` it implements: `TakeJob` to `Start`
needs that at most `Maximum` jobs run, i.e. that running jobs are fewer than
threads (`RoomForOne`: distinct workers hold distinct jobs, and the taker holds
none); `FreePool` to `DestroyReturn` needs that no thread is left. All steps that
only wake or put to sleep are `Invisible`.

### PoolCore

`Basic` is inductive: types, exact counters, and workers in place (a sleeping
worker is idle, a running one has a task). The types of `Basic` allow negative
counters; that they never fall below zero follows from `CountsExact`, for a
counter equals a cardinality. Each worker step moves one worker between the
classes that the counters count (`Move`, `BasicLooking`); a resize or a replacement
adds a set of free threads (`Spawned`). `SleepersNotNeeded` is kept since a schedule
either wakes a sleeper or finds none, a worker stops seeking only with a task or
with the queue empty, and a pool that has become too large wakes everybody
(`SleepersKept`). `WaitersNotForgotten`: whoever makes the load 0 is a worker
on its way to sleep or out, and both notify; a clear does not, but the schedule
before it has woken a worker that has not yet been back (`Dropped`, which uses
`SleepersNotNeeded`). `WaitCoversTasks` needs `LoadCounts`: with exact counters, a
load of 0 leaves no pending task and no running worker. `ShutdownFinishesTasks`
is the same at the end of `Drain`, and stays (`Quiet`) because nothing is scheduled
after the last handle is gone. For `StartsInOrder` the invariant `OrderKept` says that
the container lists the pending tasks in the order of `schedule` (reversed for
lifo); no task is scheduled twice (`ScheduledOnce`), so the order is one of tasks.

`Refines` uses all of these as `Serving`. A push at either end of the container
appends to `ByAge`, and taking a task from it removes an element `TaskPool` allows to
start (`AgePush`, `AgePop`: reversing turns the first position into the last).
The task submitted is new, since conservation puts every known one in its place;
the task that ends leaves `Performed`, since no other worker holds it. A `wait`
returns by the two counters, and no more tasks are performed than workers are
active (`PerformedCount`), so the tasks are within the threshold as well. The end
of `Drain` is `Stop` because a load of 0 leaves no task (`LoadCounts`), and
`ClearPhase` says which policies ever clear. Every other step is `Unseen`.

### Future

`Delivered` says that ready means the result is in place and the task past its
writes, and that whoever is about to read `m_result` or `m_executing` has seen
ready; `Stopped` says that a cancellation stays and holds the task off what follows
its next test. Both are inductive step by step, for any number of clients.

### DataSub

Arithmetic first: `image_index` is injective on strip, row and page, stays within
the file, and row and page can be recovered from it by `%` and `\div`
(`StripInjective`, `PageMod`, `IndexInjective`). `Control` is what the main thread
knows of the jobs where it is: each job in one place, rms jobs all finished before
the data phase, sub jobs all finished before the files. `Computed` says what the
buffers of a strip contain by how far its job is: the rows of the first pages,
then the complete statistics, copied to its own rows of the images and to no
other. `WrittenOnce` needs `Computed` as well: the rows a job is about to write are
still unwritten since only its strip owns them. `FilesComplete` needs in addition
that the strips cover the image.

### DarkPixel

The sums in the model are kept in words and wrap; the definitions they are
compared with are exact. `Sums` speaks of the exact sums over the pages read so
far: differences from the first page have the variance of the pages
(`SpreadShift`), and this is not negative, which is the Cauchy-Schwarz inequality,
proved page by page (`CauchyStep`). `Accumulated` relates the words to them: the
sum of differences is kept modulo the number of values of a word, so it is exact
as soon as the last sum fits, whatever wrapped before (`SignedWrap`, `SignedSum`);
the squares only grow, and are exact as long as they fit. `AverageRight` then needs
the bounds of the truncating and the rounding division (`MeanBounds`, from
`QuotBounds` and `RoundBounds`), `StdRightIfFits` what two truncations and the
integer root lose together (`DeviationBounds`). `Results` carries these to the end
and says what is left of a signal beyond the threshold, hence `SignalKept`: the
average is less than 1 off (`SignalBounds`), and where it is a negative number in
`avg_buffer`, the difference wraps back to the right word (`SignedOfWord`). `QuietFits`
says when the sums fit: `Bounded` carries d times the number of pages read, and d
squared times it, through the pages.

Two devices make this provable. The sums are recursive functions inside
a definition (`Total`), and an induction of their own, by the least
counterexample (`LeastElement`, `Induction`), shows that they exist and grow by
the last element (`SumsExist`, `TotalAppend`). And the width of a word is given as
`Half`, the number of its non-negative signed values, not as a power of two,
about which the provers know nothing; no step uses that `Half` is one.

### UdpTransfer

`Waiting` says which datagrams may be on their way at each stage of the hand
shake, and that data datagrams are in the order they were sent; `Stored` that what
is stored was sent, increasing, and below what is still on its way; a second
invariant, without loss, that the next datagram is exactly the next unit.
`UnitOf(n) = 2n` (`Unit`) takes the two nested loops together. `HalfNeverSent`: the
server stores only at twice the number of packets received, so the odd units keep
what `malloc` left (`OddUnset`); with `InPlace` for the even ones this says exactly
what an image lacks after a transfer without loss (`HalfMissing`).

### TThreadPool

`NoPhantomBusy` is inductive for any jobs: a thread counts itself in the section in
which it wakes and takes itself off in the one in which it parks, and the
decrements without an increment (a new thread's, the dummy's) only lower the
count. How far they lower it is `BusyCountLag`: a decrement
takes another thread's increment away only where a thread parks for the first time
while others are busy. `Lag` counts these chances. While `fillPool` runs, the threads
that are new, busy or (twice) woken are at most as many as there are signals
nobody asked for: one of a late dummy, two for each spurious wakeup (its thread
signals when it counts itself and when it parks), and the one `fillPool` polls for.
Afterwards the new and the busy threads exceed `busy_count` by no more than the same
excess. `Unbuilt` says that threads not yet constructed do nothing. `Counting` is
both with the types and `NoPhantomBusy`, for jobs of any length.

### With TLC only

Liveness: `ImplementsFairJobPool`, `ExcessWorkersLeave`, `TasksServed`, `WaitsEnd`,
`WaitReturns`, `AppFinishes`, `PipelineEnds`, `TransferEnds` (liveness under fairness is
beyond the prover). `SynchronizeIfUndisturbed` is an action property over a whole
frame, checked for the setups of `tthread`.

## 6. Not modelled, and why

- **MPI pipelines** (`rma`, `op_rma`, `op_scatter`, `mpi_lld`): none compiles. Calls lack
  arguments (`image_rms(pid, );`), argument lists contain semicolons, `pool`,
  `argc`, `sarg` are undeclared where they are used, a C file takes a C++ reference;
  `ping_pong != ping_pong;` stands where the buffers should change. There is no
  program whose steps a model could follow.
- **`platform`**: `main` uses undeclared names; the rest are the files of `dark_rms`.
  **`udpsim`**: `udp_server.c`, `udp_client.c`, `rms.c`, `tif.c`, `platform_init.c` and
  three headers hold unresolved merge conflicts.
- **Copies.** Seven further `thr_pool.c` are byte for byte the one modelled;
  `tif.c`, `rms.c`, `platform_init.c` exist in up to nine versions that differ in
  names and messages. The share of the repository's lines that `PROJECT.json`
  maps counts each of them.
- **ThrPool**: errors of `malloc` and of `thr_pool_create`, the signal masks and
  `clone_attributes` (no effect on the pool's state), the list `thr_pools`
  (independent of the state of each pool; every program has one pool); the unlock
  by the last worker after it has woken the destroyer, which in principle races
  `free(pool)` inside the C library.
- **PoolCore**: `pool_adaptors.hpp` (`launch`), `looped_task_func` and `scope_guard`
  have no shared state; `m_terminated_workers` is modelled as a set of threads,
  without the lifetime of the objects; the value a wait with a time limit returns.
- **Pipelines**: columns; dark and data files of different sizes, which the
  programs do not check and which would run over the buffers; `libtiff`; timing
  output.
- **Small experiments** and the tutorials of the library: sequential, one library
  call each.

## 7. Plan

Everything in the inventory that compiles, shares state and is not a copy has a
module, and each module its proofs. Left, should the code move
on: the list `thr_pools`, once a program uses several pools; the MPI pipelines
once they build (their ping-pong buffers between `MPI_Barrier` and
`pthread_barrier_wait` are the first thing to model).
