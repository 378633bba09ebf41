---------------------------- MODULE TThreadPool -----------------------------
(***************************************************************************)
(* The C++ thread pool of tim_dark_rms (t_thread.cpp, t_threadpool.cpp) as *)
(* main.cpp drives it: fill the pool, then for every frame start one job   *)
(* per executable and synchronize.                                         *)
(*                                                                         *)
(* A worker sleeps on a condition variable of its own (mycond) without a   *)
(* predicate; the application sleeps on the shared busycond.  The critical *)
(* sections of mylock and busylock are single actions; busylock is only    *)
(* ever taken inside mylock, never the other way round.  signal_count is   *)
(* only compared with the value the application read last, so the model    *)
(* keeps whether it has moved since then.                                  *)
(***************************************************************************)
EXTENDS Integers, FiniteSets

CONSTANTS
  Setups  \* the programs and machines considered: records of
          \*   exes      NUM_THREADS of main.cpp, the jobs per frame
          \*   extra     threads fillPool gets beyond that (main.cpp: 2)
          \*   frames    bound: the frames processed
          \*   spurious  bound: condition waits that return without a signal
          \*   refusals  may pthread_create fail in t_thread's constructor?

ASSUME TPoolAssumption ==
  Setups \subseteq [exes : Nat \ {0}, extra : Nat, frames : Nat \ {0},
                    spurious : Nat, refusals : BOOLEAN]

VARIABLES
  setup,       \* the program that runs, never changed
  app,         \* where the application thread is
  k,           \* threadlist index: being created, scanned or started
  exe,         \* the executable being started
  frame,       \* the frame being processed
  signalled,   \* signal_count differs from the last value read
  busy_count,
  thread,      \* where each worker thread is
  is_busy,
  myexe,       \* the job each thread object points to
  doing,       \* the job whose maine() the thread has entered
  dummy,       \* has dummythread run its first critical section, and when?
  spurious,    \* spurious wakeups so far
  jstate,      \* history: what became of each job
  early        \* history: has startJob returned before its thread had woken up?

vars == <<setup, app, k, exe, frame, signalled, busy_count, thread, is_busy, myexe,
          doing, dummy, spurious, jstate, early>>

Threads == 1..(setup.exes + setup.extra)
Exes == 1..setup.exes
Jobs == (1..setup.frames) \X Exes
Base == <<0, 0>>               \* the t_executable made by the constructor
ThisJob == <<frame, exe>>

AppStates ==
  {"fill", "poll",             \* fillPool: construct a thread, poll for it
   "scan",                     \* getFreeThread
   "assign", "count", "signal",  \* startJob's steps on thread k
   "await", "asleep", "awake", \* waitBusySignal
   "sync", "dozing", "roused", \* waitNoneBusy
   "exit"}                     \* main has returned
ThreadStates ==
  {"none",                     \* not constructed, or refused by pthread_create
   "new",                      \* created, has not parked yet
   "parked", "woken", "dispatch", "run",
   "top"}                      \* back from maine() of its job
DummyStates == {"starting",
                "first",       \* parked before fillPool constructed a thread
                "late"}        \* parked later
JobStates == {"new", "given", "running", "done", "dropped"}

Init ==
  /\ setup \in Setups
  /\ app = "fill" /\ k = 1 /\ exe = 1 /\ frame = 1
  /\ signalled = FALSE /\ busy_count = 0
  /\ thread = [t \in Threads |-> "none"]
  /\ is_busy = [t \in Threads |-> FALSE]
  /\ myexe = [t \in Threads |-> Base]
  /\ doing = [t \in Threads |-> Base]
  /\ dummy = "starting" /\ early = FALSE
  /\ spurious = 0
  /\ jstate = [j \in Jobs |-> "new"]

(***************************************************************************)
(* The busy semaphore.                                                     *)
(***************************************************************************)

\* pthread_cond_signal(&busycond): only the application waits there.
Notify == /\ signalled' = TRUE
          /\ app' = CASE app = "asleep" -> "awake"
                      [] app = "dozing" -> "roused"
                      [] OTHER -> app

IncBusySemaphore == busy_count' = busy_count + 1 /\ Notify

Bug_DecBusySemaphore == busy_count' = busy_count /\ Notify
Bug_DecUnguarded == busy_count' = busy_count - 1 /\ Notify
DecBusySemaphore ==
  /\ busy_count' = IF busy_count > 0 THEN busy_count - 1 ELSE busy_count
  /\ Notify

(***************************************************************************)
(* Worker threads: t_thread::maine.                                        *)
(***************************************************************************)
Running == app # "exit"

\* From the lock of mylock to pthread_cond_wait(&mycond).
Park(t) ==
  /\ Running /\ thread[t] \in {"new", "top"}
  /\ is_busy' = [is_busy EXCEPT ![t] = FALSE]
  /\ DecBusySemaphore
  /\ thread' = [thread EXCEPT ![t] = "parked"]
  /\ UNCHANGED <<setup, k, exe, frame, myexe, doing, dummy, jstate, spurious, early>>

\* From the return of the wait to the unlock of mylock.
Wake(t) ==
  /\ Running /\ thread[t] = "woken"
  /\ is_busy' = [is_busy EXCEPT ![t] = TRUE]
  /\ IncBusySemaphore
  /\ thread' = [thread EXCEPT ![t] = "dispatch"]
  /\ UNCHANGED <<setup, k, exe, frame, myexe, doing, dummy, jstate, spurious, early>>

\* myexe is read, without a lock, and its maine() entered.
Dispatch(t) ==
  /\ Running /\ thread[t] = "dispatch"
  /\ thread' = [thread EXCEPT ![t] = "run"]
  /\ doing' = [doing EXCEPT ![t] = myexe[t]]
  /\ jstate' = IF myexe[t] = Base THEN jstate
               ELSE [jstate EXCEPT ![myexe[t]] = "running"]
  /\ UNCHANGED <<setup, app, k, exe, frame, signalled, busy_count, is_busy, myexe, dummy, spurious, early>>

\* maine() returns; the thread goes back to the top of its loop.
JobEnds(t) ==
  /\ Running /\ thread[t] = "run"
  /\ thread' = [thread EXCEPT ![t] = "top"]
  /\ jstate' = IF doing[t] = Base THEN jstate
               ELSE [jstate EXCEPT ![doing[t]] = "done"]
  /\ UNCHANGED <<setup, app, k, exe, frame, signalled, busy_count, is_busy, myexe, doing, dummy, spurious, early>>

\* The thread of fillPool's local dummythread enters maine() as well.  The
\* object dies when fillPool returns, so nobody ever wakes this thread.
DummyParks ==
  /\ Running /\ dummy = "starting"
  /\ dummy' = IF app = "fill" /\ k = 1 THEN "first" ELSE "late"
  /\ DecBusySemaphore
  /\ UNCHANGED <<setup, k, exe, frame, thread, is_busy, myexe, doing, jstate, spurious, early>>

SpuriousThread(t) ==
  /\ Running /\ spurious < setup.spurious /\ spurious' = spurious + 1 /\ thread[t] = "parked"
  /\ thread' = [thread EXCEPT ![t] = "woken"]
  /\ UNCHANGED <<setup, app, k, exe, frame, signalled, busy_count, is_busy, myexe, doing, dummy, jstate, early>>

(***************************************************************************)
(* fillPool.                                                               *)
(***************************************************************************)

\* getSignalCount and the constructor, which leaves is_busy uninitialised and
\* ignores what pthread_create returns.
Construct ==
  /\ app = "fill"
  /\ signalled' = FALSE
  /\ \/ thread' = [thread EXCEPT ![k] = "new"]
     \/ setup.refusals /\ UNCHANGED thread
  /\ \E b \in BOOLEAN : is_busy' = [is_busy EXCEPT ![k] = b]
  /\ app' = "poll"
  /\ UNCHANGED <<setup, k, exe, frame, busy_count, myexe, doing, dummy, jstate, spurious, early>>

\* The polling loop ends once the count has moved; then the next thread.
PollEnds ==
  /\ app = "poll" /\ signalled
  /\ IF k + 1 \in Threads THEN app' = "fill" /\ k' = k + 1
                          ELSE app' = "scan" /\ k' = 1
  /\ UNCHANGED <<setup, exe, frame, signalled, busy_count, thread, is_busy, myexe, doing, dummy, jstate, spurious, early>>

(***************************************************************************)
(* startJob, once per executable, then synchronize: main.cpp's frame loop. *)
(***************************************************************************)
NextJob ==
  /\ k' = 1
  /\ IF exe + 1 \in Exes THEN app' = "scan" /\ exe' = exe + 1
                         ELSE app' = "sync" /\ exe' = 1

\* One getIsBusy of getFreeThread; after the last the job is dropped.
Scan ==
  /\ app = "scan"
  /\ \/ /\ ~is_busy[k]
        /\ app' = "assign"
        /\ UNCHANGED <<k, exe, jstate>>
     \/ /\ is_busy[k] /\ k + 1 \in Threads
        /\ k' = k + 1
        /\ UNCHANGED <<app, exe, jstate>>
     \/ /\ is_busy[k] /\ k + 1 \notin Threads
        /\ jstate' = [jstate EXCEPT ![ThisJob] = "dropped"]
        /\ NextJob
  /\ UNCHANGED <<setup, frame, signalled, busy_count, thread, is_busy, myexe, doing, dummy, spurious, early>>

\* setExecutable
Assign ==
  /\ app = "assign"
  /\ myexe' = [myexe EXCEPT ![k] = ThisJob]
  /\ jstate' = [jstate EXCEPT ![ThisJob] = "given"]
  /\ app' = "count"
  /\ UNCHANGED <<setup, k, exe, frame, signalled, busy_count, thread, is_busy, doing, dummy, spurious, early>>

\* getSignalCount
ReadCount ==
  /\ app = "count"
  /\ signalled' = FALSE
  /\ app' = "signal"
  /\ UNCHANGED <<setup, k, exe, frame, busy_count, thread, is_busy, myexe, doing, dummy, jstate, spurious, early>>

\* pthread_cond_signal(&(t->mycond)) under mylock
Signal ==
  /\ app = "signal"
  /\ thread' = IF thread[k] = "parked" THEN [thread EXCEPT ![k] = "woken"] ELSE thread
  /\ app' = "await"
  /\ UNCHANGED <<setup, k, exe, frame, signalled, busy_count, is_busy, myexe, doing, dummy, jstate, spurious, early>>

\* The test of waitBusySignal: has a signal been missed?
Bug_MissedSignal == FALSE
MissedSignal == signalled

\* waitBusySignal: one wait at most, then startJob returns.
WaitBusySignal ==
  /\ \/ /\ app = "await" /\ ~MissedSignal
        /\ app' = "asleep"
        /\ UNCHANGED <<k, exe, early>>
     \/ /\ app = "awake" \/ (app = "await" /\ MissedSignal)
        /\ early' = (early \/ thread[k] = "woken")
        /\ NextJob
  /\ UNCHANGED <<setup, frame, signalled, busy_count, thread, is_busy, myexe, doing, dummy, jstate, spurious>>

\* synchronize: waitNoneBusy, then the next frame or the end of main.
Bug_StillBusy == busy_count > 1
StillBusy == busy_count > 0
Synchronize ==
  /\ app \in {"sync", "roused"}
  /\ \/ /\ StillBusy
        /\ app' = "dozing"
        /\ UNCHANGED frame
     \/ /\ ~StillBusy /\ frame < setup.frames
        /\ app' = "scan"
        /\ frame' = frame + 1
     \/ /\ ~StillBusy /\ frame = setup.frames
        /\ app' = "exit"
        /\ UNCHANGED frame
  /\ UNCHANGED <<setup, k, exe, signalled, busy_count, thread, is_busy, myexe, doing, dummy, jstate, spurious, early>>

SpuriousApp ==
  /\ spurious < setup.spurious /\ spurious' = spurious + 1
  /\ \/ app = "asleep" /\ app' = "awake"
     \/ app = "dozing" /\ app' = "roused"
  /\ UNCHANGED <<setup, k, exe, frame, signalled, busy_count, thread, is_busy, myexe, doing, dummy, jstate, early>>

Terminated == app = "exit" /\ UNCHANGED vars

-----------------------------------------------------------------------------
AppSteps == \/ Construct \/ PollEnds \/ Scan \/ Assign \/ ReadCount \/ Signal
            \/ WaitBusySignal \/ Synchronize
ThreadSteps(t) == Park(t) \/ Wake(t) \/ Dispatch(t) \/ JobEnds(t)

Next ==
  \/ AppSteps \/ SpuriousApp \/ DummyParks \/ Terminated
  \/ \E t \in Threads : ThreadSteps(t) \/ SpuriousThread(t)

Spec == Init /\ [][Next]_vars

AllThreads == UNION {1..(s.exes + s.extra) : s \in Setups}

\* The scheduler runs every created thread that is not blocked, and jobs end.
\* The dummy thread lives in dead memory: nothing is assumed of it.
FairSpec ==
  /\ Spec
  /\ WF_vars(AppSteps)
  /\ \A t \in AllThreads :
       WF_vars(t \in Threads /\ ThreadSteps(t))

-----------------------------------------------------------------------------
(***************************************************************************)
(* Correctness.                                                            *)
(***************************************************************************)

\* The type of every variable.
TypeOK ==
  /\ app \in AppStates
  /\ k \in Threads /\ exe \in Exes /\ frame \in 1..setup.frames
  /\ signalled \in BOOLEAN /\ busy_count \in Nat
  /\ thread \in [Threads -> ThreadStates]
  /\ is_busy \in [Threads -> BOOLEAN]
  /\ myexe \in [Threads -> Jobs \union {Base}]
  /\ doing \in [Threads -> Jobs \union {Base}]
  /\ dummy \in DummyStates /\ spurious \in 0..setup.spurious
  /\ early \in BOOLEAN
  /\ jstate \in [Jobs -> JobStates]

Busy == {t \in Threads : thread[t] \in {"dispatch", "run", "top"}}

\* busy_count never counts a thread that has parked: whatever is signalled,
\* missed or woken for nothing, synchronize is never held up by a phantom.
NoPhantomBusy == busy_count <= Cardinality(Busy)

\* "counts how many threads are busy" (t_thread.h:85): the count falls short of that
\* only by the decrements of threads that park for the first time while others are
\* busy.  That can be one if dummythread is late, since each polling of fillPool
\* takes one signal, and two for each spurious wakeup, which sends two signals more.
BusyCountLag ==
  Cardinality(Busy) <= busy_count + 2 * spurious + (IF dummy = "late" THEN 1 ELSE 0)

\* Threads that pthread_create refused: nobody will ever park in their stead.
Refused == {t \in Threads : /\ thread[t] = "none"
                            /\ app = "fill" => t < k
                            /\ app = "poll" => t <= k}

\* startJob and synchronize never block the application for ever ("prevents
\* wait for evers", t_thread.cpp:139), even if jobs are lost on the way; only a
\* thread that does not exist can hold it up, in fillPool or in startJob.
AppFinishes == <>(app = "exit" \/ Refused # {})

\* So far dummythread has not come late, no wait has returned without a signal, and
\* each startJob has returned on the signal of its own thread.
Undisturbed == dummy # "late" /\ spurious = 0 /\ ~early

\* "synchronize() blocks until all threads are done" (main.cpp:160): when it
\* returns, every job of the frame has been performed.
FrameDone == \A e \in Exes : jstate[<<frame, e>>] = "done"
SynchronizeReturns == app \in {"sync", "roused"} /\ app' \in {"scan", "exit"}
SynchronizeBlocks == [][SynchronizeReturns => FrameDone]_vars

\* Nothing but these three makes that fail: no job is dropped, overwritten, or left
\* over by a counter that has not risen yet, however short or long the jobs are.
SynchronizeIfUndisturbed == [][Undisturbed /\ SynchronizeReturns => FrameDone]_vars
=============================================================================
