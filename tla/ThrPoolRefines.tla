---------------------------- MODULE ThrPoolRefines ----------------------------
(***************************************************************************)
(* The jobs of a ThrPool, for every set of workers, clients and jobs.      *)
(* Every job handed to thr_pool_queue is in exactly one place; the pool    *)
(* keeps the promise of thr_pool.h: thr_pool_wait covers the jobs queued   *)
(* before it, and every step of the pool is a step of JobPool or one that  *)
(* a client cannot see.                                                    *)
(***************************************************************************)
EXTENDS ThrPoolProofs, SequenceTheorems

-----------------------------------------------------------------------------
(***************************************************************************)
(* Where every job is.                                                     *)
(***************************************************************************)
BusyStates == {"run", "returned", "exiting"}

\* JobsConserved in its parts.
QueuedListed == \A j \in Jobs : jstate[j] = "queued" <=> \E i \in 1..Len(head) : head[i] = j
ListedOnce == \A i, k \in 1..Len(head) : head[i] = head[k] => i = k
RunningHeld ==
  \A j \in Jobs : jstate[j] = "running" <=> \E w \in Workers : worker[w] = "run" /\ wjob[w] = j
OneHolder == \A w, v \in Busy : wjob[w] = wjob[v] => w = v

\* A worker on its way back to the pool still holds a job, and one that is over.
HeldJobs ==
  \A w \in Busy : /\ wjob[w] \in Jobs
                  /\ worker[w] # "run" => jstate[wjob[w]] \in {"done", "aborted"}

Listed == QueuedListed /\ ListedOnce
Held == RunningHeld /\ OneHolder /\ HeldJobs
Places == Counted /\ ActiveExact /\ Listed /\ Held

LEMMA PlacesSuffice == Places => JobsConserved
BY DEF Places, Listed, Held, ActiveExact, JobsConserved, QueuedListed, ListedOnce, RunningHeld,
       OneHolder

LEMMA InitPlaces == Init => Places
<1>. SUFFICES ASSUME Init PROVE Places
  OBVIOUS
<1>1. Len(head) = 0
  BY EmptySeq DEF Init
<1>2. Listed
  BY <1>1 DEF Init, Listed, QueuedListed, ListedOnce
<1>3. Held
  BY DEF Init, Held, RunningHeld, OneHolder, HeldJobs, Busy
<1>. QED BY <1>2, <1>3, InitCounted, InitActive DEF Places

-----------------------------------------------------------------------------
(***************************************************************************)
(* The jobs of the workers.                                                *)
(***************************************************************************)
\* Whoever is busy after the step was so before, with the same job, and nobody
\* leaves a running job.
SameHolders ==
  /\ \A w \in Workers : worker'[w] \in BusyStates => worker'[w] = worker[w] /\ wjob'[w] = wjob[w]
  /\ \A w \in Workers : worker[w] = "run" => worker'[w] = "run"
SameRunning ==
  \A j \in Jobs : /\ jstate'[j] = "running" <=> jstate[j] = "running"
                  /\ jstate[j] \in {"done", "aborted"} => jstate'[j] = jstate[j]

LEMMA HeldKept == ASSUME Held, SameHolders, SameRunning PROVE Held'
<1>1. RunningHeld'
  BY DEF Held, SameHolders, SameRunning, RunningHeld, BusyStates
<1>2. \A w \in Busy' : w \in Busy /\ wjob'[w] = wjob[w] /\ worker'[w] = worker[w]
  BY DEF SameHolders, Busy, BusyStates
<1>3. OneHolder'
  BY <1>2 DEF Held, OneHolder
<1>4. HeldJobs'
  BY <1>2 DEF Held, HeldJobs, SameRunning
<1>. QED BY <1>1, <1>3, <1>4 DEF Held

\* A job function ends: its worker keeps the job until job_cleanup.
LEMMA HeldAtEnd ==
  ASSUME TypeOK, Held, NEW w \in Workers, FuncReturns(w) \/ FuncExits(w)
  PROVE  Held'
<1>0. /\ worker \in [Workers -> WorkerStates] /\ jstate \in [Jobs -> JobStates]
      /\ worker[w] = "run" /\ wjob' = wjob
  BY DEF TypeOK, FuncReturns, FuncExits
<1>1. wjob[w] \in Jobs /\ w \in Busy
  BY <1>0 DEF Held, HeldJobs, Busy
<1>2. PICK s \in {"returned", "exiting"} : worker' = [worker EXCEPT ![w] = s]
  BY DEF FuncReturns, FuncExits
<1>3. PICK e \in {"done", "aborted"} : jstate' = [jstate EXCEPT ![wjob[w]] = e]
  BY DEF FuncReturns, FuncExits
<1>4. Busy' = Busy
  BY <1>0, <1>2 DEF Busy
<1>5. \A v \in Busy : v # w => wjob[v] # wjob[w]
  BY <1>1 DEF Held, OneHolder
<1>6. RunningHeld'
  <2>. SUFFICES ASSUME NEW j \in Jobs
                PROVE  jstate'[j] = "running" <=>
                         \E v \in Workers : worker'[v] = "run" /\ wjob'[v] = j
    BY DEF RunningHeld
  <2>1. CASE j = wjob[w]
    <3>1. jstate'[j] # "running"
      BY <1>0, <1>3, <2>1
    <3>2. \A v \in Workers : worker'[v] = "run" => v # w /\ v \in Busy
      BY <1>0, <1>2 DEF Busy
    <3>. QED BY <1>0, <1>5, <2>1, <3>1, <3>2
  <2>2. CASE j # wjob[w]
    <3>1. jstate'[j] = jstate[j]
      BY <1>0, <1>3, <2>2
    <3>2. \A v \in Workers : v # w => worker'[v] = worker[v]
      BY <1>0, <1>2
    <3>3. worker'[w] # "run"
      BY <1>0, <1>2
    <3>. QED BY <1>0, <2>2, <3>1, <3>2, <3>3 DEF Held, RunningHeld
  <2>. QED BY <2>1, <2>2
<1>7. OneHolder'
  BY <1>0, <1>4 DEF Held, OneHolder
<1>8. HeldJobs'
  BY <1>0, <1>1, <1>2, <1>3, <1>4, <1>5 DEF Held, HeldJobs
<1>. QED BY <1>6, <1>7, <1>8 DEF Held

-----------------------------------------------------------------------------
(***************************************************************************)
(* The queue.                                                              *)
(***************************************************************************)
\* thr_pool_queue appends a job that was not in the queue.
LEMMA ListedAtQueue ==
  ASSUME TypeOK, Listed, NEW j \in Jobs, jstate[j] = "new",
         head' = Append(head, j), jstate' = [jstate EXCEPT ![j] = "queued"]
  PROVE  Listed'
<1>0. head \in Seq(Jobs) /\ jstate \in [Jobs -> JobStates] /\ Len(head) \in Nat
  BY LenProperties DEF TypeOK
<1>1. /\ Len(head') = Len(head) + 1
      /\ \A i \in 1..Len(head) : head'[i] = head[i]
      /\ head'[Len(head) + 1] = j
  BY <1>0
<1>2. \A i \in 1..Len(head) : head[i] # j /\ head[i] \in Jobs
  BY <1>0, ElementOfSeq DEF Listed, QueuedListed
<1>3. QueuedListed'
  <2>. SUFFICES ASSUME NEW m \in Jobs
                PROVE  jstate'[m] = "queued" <=> \E i \in 1..Len(head') : head'[i] = m
    BY DEF QueuedListed
  <2>1. CASE m = j
    BY <1>0, <1>1, <2>1
  <2>2. CASE m # j
    <3>1. jstate'[m] = jstate[m]
      BY <1>0, <2>2
    <3>2. (\E i \in 1..Len(head') : head'[i] = m) <=> \E i \in 1..Len(head) : head[i] = m
      BY <1>0, <1>1, <2>2
    <3>. QED BY <3>1, <3>2 DEF Listed, QueuedListed
  <2>. QED BY <2>1, <2>2
<1>4. ListedOnce'
  <2>. SUFFICES ASSUME NEW i \in 1..Len(head'), NEW k \in 1..Len(head'), head'[i] = head'[k]
                PROVE  i = k
    BY DEF ListedOnce
  <2>. QED BY <1>0, <1>1, <1>2 DEF Listed, ListedOnce
<1>. QED BY <1>3, <1>4 DEF Listed

\* A worker takes the job at the head, which nobody else has.
LEMMA ListedAtTake ==
  ASSUME TypeOK, Listed, head # <<>>,
         head' = Tail(head), jstate' = [jstate EXCEPT ![Head(head)] = "running"]
  PROVE  Listed' /\ Head(head) \in Jobs /\ jstate[Head(head)] = "queued"
<1>0. head \in Seq(Jobs) /\ jstate \in [Jobs -> JobStates] /\ Len(head) \in Nat \ {0}
  BY EmptySeq DEF TypeOK
<1>1. /\ Len(head') = Len(head) - 1
      /\ \A i \in 1..Len(head') : head'[i] = head[i + 1]
      /\ Head(head) = head[1] /\ Head(head) \in Jobs
  BY <1>0, HeadTailProperties
<1>2. jstate[Head(head)] = "queued"
  BY <1>0, <1>1 DEF Listed, QueuedListed
<1>3. \A i \in 1..Len(head) : i # 1 => head[i] # Head(head)
  BY <1>0, <1>1 DEF Listed, ListedOnce
<1>4. QueuedListed'
  <2>. SUFFICES ASSUME NEW m \in Jobs
                PROVE  jstate'[m] = "queued" <=> \E i \in 1..Len(head') : head'[i] = m
    BY DEF QueuedListed
  <2>1. CASE m = Head(head)
    <3>1. \A i \in 1..Len(head') : head'[i] # m
      BY <1>0, <1>1, <1>3, <2>1
    <3>. QED BY <1>0, <2>1, <3>1
  <2>2. CASE m # Head(head)
    <3>1. jstate'[m] = jstate[m]
      BY <1>0, <2>2
    <3>2. ASSUME NEW i \in 1..Len(head), head[i] = m
          PROVE  \E k \in 1..Len(head') : head'[k] = m
      <4>1. i # 1 /\ i - 1 \in 1..Len(head') /\ (i - 1) + 1 = i
        BY <1>0, <1>1, <2>2, <3>2
      <4>. QED BY <1>1, <3>2, <4>1
    <3>3. ASSUME NEW k \in 1..Len(head'), head'[k] = m
          PROVE  \E i \in 1..Len(head) : head[i] = m
      <4>1. k + 1 \in 1..Len(head)
        BY <1>0, <1>1
      <4>. QED BY <1>1, <3>3, <4>1
    <3>. QED BY <3>1, <3>2, <3>3 DEF Listed, QueuedListed
  <2>. QED BY <2>1, <2>2
<1>5. ListedOnce'
  <2>. SUFFICES ASSUME NEW i \in 1..Len(head'), NEW k \in 1..Len(head'), head'[i] = head'[k]
                PROVE  i = k
    BY DEF ListedOnce
  <2>1. i + 1 \in 1..Len(head) /\ k + 1 \in 1..Len(head) /\ head[i + 1] = head[k + 1]
    BY <1>0, <1>1
  <2>2. i + 1 = k + 1
    BY <2>1 DEF Listed, ListedOnce
  <2>. QED BY <1>0, <1>1, <2>2
<1>. QED BY <1>1, <1>2, <1>4, <1>5 DEF Listed

\* The job taken becomes the worker's.
LEMMA HeldAtTake ==
  ASSUME TypeOK, Listed, Held, NEW w \in Workers, TakeJob(w)
  PROVE  Held'
<1>0. /\ worker \in [Workers -> WorkerStates] /\ jstate \in [Jobs -> JobStates]
      /\ wjob \in [Workers -> Jobs \union {NoJob}]
  BY DEF TypeOK
<1>. DEFINE j == Head(head)
<1>1. /\ worker' = [worker EXCEPT ![w] = "run"] /\ wjob' = [wjob EXCEPT ![w] = j]
      /\ jstate' = [jstate EXCEPT ![j] = "running"] /\ head' = Tail(head) /\ head # <<>>
      /\ worker[w] # "run"
  BY DEF TakeJob, MayTake, Ready
<1>2. j \in Jobs /\ jstate[j] = "queued"
  BY <1>1, ListedAtTake
<1>3. /\ worker'[w] = "run" /\ wjob'[w] = j /\ jstate'[j] = "running"
      /\ \A v \in Workers : v # w => worker'[v] = worker[v] /\ wjob'[v] = wjob[v]
      /\ \A m \in Jobs : m # j => jstate'[m] = jstate[m]
  BY <1>0, <1>1, <1>2
<1>. HIDE DEF j
<1>4. \A v \in Busy : wjob[v] # j /\ wjob[v] \in Jobs
  BY <1>2 DEF Held, HeldJobs, RunningHeld, Busy
<1>5. \A v \in Busy' : v # w => v \in Busy
  BY <1>3 DEF Busy
<1>6. RunningHeld'
  <2>. SUFFICES ASSUME NEW m \in Jobs
                PROVE  jstate'[m] = "running" <=>
                         \E v \in Workers : worker'[v] = "run" /\ wjob'[v] = m
    BY DEF RunningHeld
  <2>1. CASE m = j
    BY <1>3, <2>1
  <2>2. CASE m # j
    BY <1>1, <1>3, <2>2 DEF Held, RunningHeld
  <2>. QED BY <2>1, <2>2
<1>7. OneHolder'
  <2>. SUFFICES ASSUME NEW u \in Busy', NEW v \in Busy', wjob'[u] = wjob'[v]
                PROVE  u = v
    BY DEF OneHolder
  <2>1. u \in Workers /\ v \in Workers
    BY DEF Busy
  <2>. QED BY <1>3, <1>4, <1>5, <2>1 DEF Held, OneHolder
<1>8. HeldJobs'
  <2>. SUFFICES ASSUME NEW v \in Busy'
                PROVE  /\ wjob'[v] \in Jobs
                       /\ worker'[v] # "run" => jstate'[wjob'[v]] \in {"done", "aborted"}
    BY DEF HeldJobs
  <2>1. CASE v = w
    BY <1>2, <1>3, <2>1
  <2>2. CASE v # w
    <3>1. v \in Busy /\ v \in Workers
      BY <1>5, <2>2 DEF Busy
    <3>. QED BY <1>3, <1>4, <2>2, <3>1 DEF Held, HeldJobs
  <2>. QED BY <2>1, <2>2
<1>. QED BY <1>6, <1>7, <1>8 DEF Held

-----------------------------------------------------------------------------
LEMMA NextPlaces == Places /\ [Next]_vars => Listed' /\ Held'
<1>. SUFFICES ASSUME Places, [Next]_vars PROVE Listed' /\ Held'
  OBVIOUS
<1>0. /\ TypeOK /\ Listed /\ Held /\ worker \in [Workers -> WorkerStates]
      /\ jstate \in [Jobs -> JobStates] /\ wjob \in [Workers -> Jobs \union {NoJob}]
  BY DEF Places, Counted, TypeOK
<1>a. ASSUME UNCHANGED <<head, jstate>>, SameHolders PROVE Listed' /\ Held'
  <2>1. Listed'
    BY <1>0, <1>a DEF Listed, QueuedListed, ListedOnce
  <2>2. SameRunning
    BY <1>a DEF SameRunning
  <2>. QED BY <1>0, <1>a, <2>1, <2>2, HeldKept
<1>1. ASSUME NEW c \in Clients, NEW j \in Jobs, ThrPoolQueue(c, j) PROVE Listed' /\ Held'
  <2>1. Listed'
    BY <1>0, <1>1, ListedAtQueue DEF ThrPoolQueue
  <2>2. SameHolders
    <3>1. CASE UNCHANGED worker
      BY <1>1, <3>1 DEF ThrPoolQueue, SameHolders
    <3>2. CASE \E w \in Asleep : worker' = [worker EXCEPT ![w] = "woken"]
      BY <1>0, <1>1, <3>2 DEF ThrPoolQueue, SameHolders, Asleep, BusyStates
    <3>3. CASE \E w \in Workers \ Live : worker' = [worker EXCEPT ![w] = "start"]
      BY <1>0, <1>1, <3>3 DEF ThrPoolQueue, SameHolders, Live, BusyStates
    <3>. QED BY <1>1, <3>1, <3>2, <3>3 DEF ThrPoolQueue
  <2>3. SameRunning
    BY <1>0, <1>1 DEF ThrPoolQueue, SameRunning
  <2>. QED BY <1>0, <2>1, <2>2, <2>3, HeldKept
<1>2. ASSUME NEW c \in Clients,
             ThrPoolWait(c) \/ WaitLoop(c) \/ DestroyDrain(c) \/ DestroyBusy(c) \/ SpuriousClient(c)
      PROVE  Listed' /\ Held'
  <2>1. UNCHANGED <<head, jstate, worker, wjob>>
    BY <1>2 DEF ThrPoolWait, WaitLoop, DestroyDrain, DestroyBusy, SpuriousClient
  <2>. QED BY <1>a, <2>1 DEF SameHolders
<1>3. ASSUME NEW c \in Clients, ThrPoolDestroy(c) PROVE Listed' /\ Held'
  <2>1. UNCHANGED <<head, jstate, wjob>> /\ worker' = WakeWorkers
    BY <1>3 DEF ThrPoolDestroy
  <2>2. SameHolders
    BY <1>0, <2>1 DEF SameHolders, WakeWorkers, Asleep, BusyStates
  <2>. QED BY <1>a, <2>1, <2>2
<1>4. ASSUME NEW c \in Clients, FreePool(c) PROVE Listed' /\ Held'
  <2>0. Len(head') = 0
    BY <1>4, EmptySeq DEF FreePool
  <2>1. Listed'
    BY <1>4, <2>0 DEF FreePool, Listed, QueuedListed, ListedOnce
  <2>2. SameHolders /\ SameRunning
    BY <1>4 DEF FreePool, SameHolders, SameRunning
  <2>. QED BY <1>0, <2>1, <2>2, HeldKept
<1>5. ASSUME NEW w \in Workers, WorkerSection(w) PROVE Listed' /\ Held'
  <2>1. CASE TakeJob(w)
    BY <1>0, <2>1, ListedAtTake, HeldAtTake DEF TakeJob, MayTake
  <2>2. CASE WaitForWork(w) \/ Retire(w) \/ QuitOnDestroy(w)
    <3>1. UNCHANGED <<head, jstate>> /\ wjob' = [wjob EXCEPT ![w] = NoJob]
      BY <2>2 DEF WaitForWork, Retire, QuitOnDestroy
    <3>2. \E s \in {"waiting", "lingering", "none"} : worker' = [worker EXCEPT ![w] = s]
      BY <2>2 DEF WaitForWork, Retire, QuitOnDestroy
    <3>3. worker[w] # "run"
      BY <2>2 DEF WaitForWork, Retire, QuitOnDestroy, Ready
    <3>4. SameHolders
      BY <1>0, <3>1, <3>2, <3>3 DEF SameHolders, BusyStates
    <3>. QED BY <1>a, <3>1, <3>4
  <2>3. CASE JobExit(w)
    <3>1. UNCHANGED <<head, jstate>> /\ wjob' = [wjob EXCEPT ![w] = NoJob] /\ worker[w] = "exiting"
      BY <2>3 DEF JobExit
    <3>2. CASE worker' = [worker EXCEPT ![w] = "none"]
      <4>1. SameHolders
        BY <1>0, <3>1, <3>2 DEF SameHolders, BusyStates
      <4>. QED BY <1>a, <3>1, <4>1
    <3>3. CASE \E v \in Workers \ Live :
                 worker' = [[worker EXCEPT ![w] = "none"] EXCEPT ![v] = "start"]
      <4>1. SameHolders
        BY <1>0, <3>1, <3>3 DEF SameHolders, BusyStates, Live
      <4>. QED BY <1>a, <3>1, <4>1
    <3>. QED BY <2>3, <3>2, <3>3 DEF JobExit
  <2>. QED BY <1>5, <2>1, <2>2, <2>3 DEF WorkerSection
<1>6. ASSUME NEW w \in Workers, FuncReturns(w) \/ FuncExits(w) PROVE Listed' /\ Held'
  <2>1. Held'
    BY <1>0, <1>6, HeldAtEnd
  <2>2. head' = head /\ worker[w] = "run" /\ wjob[w] \in Jobs
    BY <1>0, <1>6 DEF FuncReturns, FuncExits, Held, HeldJobs, Busy
  <2>3. jstate[wjob[w]] = "running"
    BY <1>0, <2>2 DEF Held, RunningHeld
  <2>4. \E e \in {"done", "aborted"} : jstate' = [jstate EXCEPT ![wjob[w]] = e]
    BY <1>6 DEF FuncReturns, FuncExits
  <2>5. \A j \in Jobs : jstate'[j] = "queued" <=> jstate[j] = "queued"
    BY <1>0, <2>2, <2>3, <2>4
  <2>. QED BY <1>0, <2>1, <2>2, <2>5 DEF Listed, QueuedListed, ListedOnce
<1>7. ASSUME NEW w \in Workers, LingerExpires(w) \/ SpuriousWorker(w) PROVE Listed' /\ Held'
  <2>1. UNCHANGED <<head, jstate, wjob>>
    BY <1>7 DEF LingerExpires, SpuriousWorker
  <2>2. SameHolders
    BY <1>0, <1>7 DEF LingerExpires, SpuriousWorker, SameHolders, Asleep, BusyStates
  <2>. QED BY <1>a, <2>1, <2>2
<1>8. CASE UNCHANGED vars
  <2>1. UNCHANGED <<head, jstate, worker, wjob>>
    BY <1>8 DEF vars
  <2>. QED BY <1>a, <2>1 DEF SameHolders
<1>. QED BY <1>1, <1>2, <1>3, <1>4, <1>5, <1>6, <1>7, <1>8 DEF Next, Terminated, ClientSection

LEMMA PlacesInductive == Places /\ [Next]_vars => Places'
BY NextCounted, NextActive, NextPlaces DEF Places

\* Every job handed to thr_pool_queue is in exactly one place: once in the queue,
\* or with exactly one worker of the active list, or over.  None is dropped,
\* duplicated or run by two workers.
THEOREM JobsKept == Spec => []JobsConserved
<1>. QED BY InitPlaces, PlacesInductive, PlacesSuffice, PTL DEF Spec

-----------------------------------------------------------------------------
(***************************************************************************)
(* What thr_pool_wait waits for.                                           *)
(***************************************************************************)
Alive(j) == jstate[j] \in {"queued", "running", "done", "aborted"}

\* A job a waiting client was promised has not been dropped.
OwedAlive == \A c \in Clients : client[c] \in InWait => \A j \in owed[c] : Alive(j)

Service == Places /\ DestroyerAlone /\ FreedAlone /\ OwedAlive

LEMMA InitService == Init => Service
<1>1. Init => DestroyerAlone /\ FreedAlone /\ OwedAlive
  BY DEF Init, DestroyerAlone, FreedAlone, OwedAlive, InWait, InDestroy
<1>. QED BY <1>1, InitPlaces DEF Service

\* A job leaves the states of Alive only when the pool is freed.
LEMMA StayAlive ==
  ASSUME Service, [Next]_vars, NEW j \in Jobs, Alive(j), ~\E c \in Clients : FreePool(c)
  PROVE  Alive(j)'
<1>0. TypeOK /\ jstate \in [Jobs -> JobStates] /\ head \in Seq(Jobs) /\ Listed /\ Held
  BY DEF Service, Places, Counted, TypeOK
<1>1. ASSUME NEW c \in Clients, NEW m \in Jobs, ThrPoolQueue(c, m) PROVE Alive(j)'
  BY <1>0, <1>1 DEF ThrPoolQueue, Alive
<1>2. ASSUME NEW c \in Clients,
             \/ ThrPoolWait(c) \/ WaitLoop(c) \/ DestroyDrain(c) \/ DestroyBusy(c)
             \/ SpuriousClient(c) \/ ThrPoolDestroy(c)
      PROVE  Alive(j)'
  <2>1. jstate' = jstate
    BY <1>2 DEF ThrPoolWait, WaitLoop, DestroyDrain, DestroyBusy, SpuriousClient, ThrPoolDestroy
  <2>. QED BY <2>1 DEF Alive
<1>3. ASSUME NEW w \in Workers, WorkerSection(w) PROVE Alive(j)'
  BY <1>0, <1>3 DEF WorkerSection, TakeJob, WaitForWork, Retire, QuitOnDestroy, JobExit, Alive
<1>4. ASSUME NEW w \in Workers,
             FuncReturns(w) \/ FuncExits(w) \/ LingerExpires(w) \/ SpuriousWorker(w)
      PROVE  Alive(j)'
  BY <1>0, <1>4 DEF FuncReturns, FuncExits, LingerExpires, SpuriousWorker, Alive
<1>5. CASE UNCHANGED vars
  BY <1>5 DEF vars, Alive
<1>. QED BY <1>1, <1>2, <1>3, <1>4, <1>5 DEF Next, Terminated, ClientSection

LEMMA NextOwedAlive == Service /\ [Next]_vars => OwedAlive'
<1>. SUFFICES ASSUME Service, [Next]_vars PROVE OwedAlive'
  OBVIOUS
<1>0. /\ TypeOK /\ client \in [Clients -> ClientStates] /\ owed \in [Clients -> SUBSET Jobs]
      /\ DestroyerAlone /\ OwedAlive
  BY DEF Service, Places, Counted, TypeOK
<1>1. ASSUME NEW c \in Clients, ThrPoolWait(c) PROVE OwedAlive'
  BY <1>0, <1>1 DEF ThrPoolWait, OwedAlive, Alive, InWait
<1>2. ASSUME NEW c \in Clients, FreePool(c) PROVE OwedAlive'
  <2>1. \A d \in Clients : client'[d] \notin InWait
    BY <1>0, <1>2 DEF FreePool, DestroyerAlone, InWait, InDestroy
  <2>. QED BY <2>1 DEF OwedAlive
<1>3. ASSUME ~\E c \in Clients : FreePool(c),
             owed' = owed \/ \E c \in Clients : owed' = [owed EXCEPT ![c] = {}],
             \A c \in Clients : client'[c] \in InWait => client[c] \in InWait
      PROVE  OwedAlive'
  <2>1. \A c \in Clients : owed'[c] \subseteq owed[c] /\ owed[c] \subseteq Jobs
    BY <1>0, <1>3
  <2>. QED BY <1>0, <1>3, <2>1, StayAlive DEF OwedAlive
<1>4. ASSUME NEW c \in Clients, WaitLoop(c) PROVE OwedAlive'
  <2>1. ~\E d \in Clients : FreePool(d)
    BY <1>0, <1>4 DEF WaitLoop, FreePool, DestroyerAlone, InWait, InDestroy
  <2>2. \A d \in Clients : client'[d] \in InWait => client[d] \in InWait
    BY <1>0, <1>4 DEF WaitLoop, InWait
  <2>3. owed' = owed \/ owed' = [owed EXCEPT ![c] = {}]
    BY <1>4 DEF WaitLoop
  <2>. QED BY <1>3, <2>1, <2>2, <2>3
<1>5. ASSUME ~\E c \in Clients : FreePool(c),
             \/ \E c \in Clients : \/ \E j \in Jobs : ThrPoolQueue(c, j)
                                   \/ DestroyDrain(c) \/ DestroyBusy(c)
                                   \/ SpuriousClient(c) \/ ThrPoolDestroy(c)
             \/ \E w \in Workers : \/ WorkerSection(w) \/ FuncReturns(w) \/ FuncExits(w)
                                   \/ LingerExpires(w) \/ SpuriousWorker(w)
             \/ UNCHANGED vars
      PROVE  OwedAlive'
  <2>1. owed' = owed
    BY <1>5 DEF ThrPoolQueue, DestroyDrain, DestroyBusy, SpuriousClient, ThrPoolDestroy, WorkerSection,
                TakeJob, WaitForWork, Retire, QuitOnDestroy, JobExit, FuncReturns, FuncExits,
                LingerExpires, SpuriousWorker, vars
  <2>2. CASE \E c \in Clients : \/ \E j \in Jobs : ThrPoolQueue(c, j)
                                \/ DestroyDrain(c) \/ DestroyBusy(c)
                                \/ SpuriousClient(c) \/ ThrPoolDestroy(c)
    <3>1. \A d \in Clients : client'[d] \in InWait => client[d] \in InWait
      BY <1>0, <2>2 DEF ThrPoolQueue, DestroyDrain, DestroyBusy, SpuriousClient, ThrPoolDestroy,
                        DrainLoop, BusyLoop, WakeWaitcv, WakeBusycv, InWait
    <3>. QED BY <1>3, <1>5, <2>1, <3>1
  <2>3. CASE \E w \in Workers : \/ WorkerSection(w) \/ FuncReturns(w) \/ FuncExits(w)
                                \/ LingerExpires(w) \/ SpuriousWorker(w)
    <3>1. WokenUp
      BY <1>0, <2>3, WorkersOnlyWake
    <3>. QED BY <1>3, <1>5, <2>1, <3>1 DEF WokenUp, InWait
  <2>4. CASE UNCHANGED vars
    BY <1>3, <1>5, <2>1, <2>4 DEF vars
  <2>. QED BY <1>5, <2>2, <2>3, <2>4
<1>. QED BY <1>1, <1>2, <1>4, <1>5 DEF Next, Terminated, ClientSection

LEMMA ServiceInductive == Service /\ [Next]_vars => Service'
<1>1. Service => Memory
  BY DEF Service, Memory, Places
<1>. QED BY <1>1, PlacesInductive, NextDestroyerAlone, NextFreedAlone, NextOwedAlive
         DEF Service, Places

\* The loop of thr_pool_wait ends only when nothing is queued and nothing runs.
LEMMA NothingPending == ASSUME Service, ~Pending PROVE \A j \in Jobs : Alive(j) => j \in Finished
<1>1. head = <<>> /\ Busy = {}
  BY DEF Pending, Service, Places, ActiveExact
<1>2. Len(head) = 0
  BY <1>1
<1>3. \A j \in Jobs : jstate[j] # "queued"
  BY <1>2 DEF Service, Places, Listed, QueuedListed
<1>4. \A j \in Jobs : jstate[j] # "running"
  BY <1>1 DEF Service, Places, Held, RunningHeld, Busy
<1>. QED BY <1>3, <1>4 DEF Alive, Finished

\* thr_pool_wait does not return before the functions of all jobs queued before
\* its call have ended, whatever is queued, woken or destroyed meanwhile.
THEOREM WaitCovers == Spec => WaitCoversJobs
<1>1. Service /\ [Next]_vars =>
        \A c \in Clients :
          client[c] \in {"waitCall", "waitWoken"} /\ client'[c] = "out" => owed[c] \subseteq Finished
  <2>. SUFFICES ASSUME Service, [Next]_vars, NEW c \in Clients,
                       client[c] \in {"waitCall", "waitWoken"}, client'[c] = "out"
                PROVE  owed[c] \subseteq Finished
    OBVIOUS
  <2>0. /\ TypeOK /\ client \in [Clients -> ClientStates] /\ owed \in [Clients -> SUBSET Jobs]
        /\ DestroyerAlone
    BY DEF Service, Places, Counted, TypeOK
  <2>1. CASE WaitLoop(c)
    <3>1. ~Pending
      BY <2>0, <2>1 DEF WaitLoop
    <3>2. \A j \in owed[c] : j \in Jobs /\ Alive(j)
      BY <2>0 DEF Service, OwedAlive, InWait
    <3>. QED BY <3>1, <3>2, NothingPending
  <2>2. ASSUME NEW d \in Clients, ClientSection(d) \/ ThrPoolWait(d) \/ SpuriousClient(d), d # c
        PROVE  FALSE
    BY <2>0, <2>2 DEF ClientSection, ThrPoolWait, SpuriousClient, WaitLoop, DestroyDrain, DestroyBusy,
                      FreePool, DrainLoop, BusyLoop
  <2>3. ASSUME ThrPoolWait(c) \/ SpuriousClient(c) \/ DestroyDrain(c) \/ DestroyBusy(c) \/ FreePool(c)
        PROVE  FALSE
    BY <2>3 DEF ThrPoolWait, SpuriousClient, DestroyDrain, DestroyBusy, FreePool
  <2>4. ASSUME NEW d \in Clients, NEW j \in Jobs, ThrPoolQueue(d, j) PROVE FALSE
    BY <2>4 DEF ThrPoolQueue
  <2>5. ASSUME NEW d \in Clients, ThrPoolDestroy(d) PROVE FALSE
    BY <2>5 DEF ThrPoolDestroy
  <2>6. ASSUME NEW w \in Workers, \/ WorkerSection(w) \/ FuncReturns(w) \/ FuncExits(w)
                                  \/ LingerExpires(w) \/ SpuriousWorker(w)
        PROVE  FALSE
    <3>1. WokenUp
      BY <2>0, <2>6, WorkersOnlyWake
    <3>. QED BY <3>1 DEF WokenUp
  <2>7. CASE UNCHANGED vars
    BY <2>7 DEF vars
  <2>. QED BY <2>1, <2>2, <2>3, <2>4, <2>5, <2>6, <2>7 DEF Next, Terminated, ClientSection
<1>. QED BY <1>1, InitService, ServiceInductive, PTL DEF Spec, WaitCoversJobs

-----------------------------------------------------------------------------
(***************************************************************************)
(* The refinement.                                                         *)
(***************************************************************************)
RunningJobs == {j \in Jobs : jstate[j] = "running"}
WaitingClients == {c \in Clients : client[c] \in InWait}

\* A step that changes nothing a client can see.
LEMMA Invisible ==
  ASSUME UNCHANGED <<head, jstate, owed, freed>>, Open' <=> Open,
         \A c \in Clients : client'[c] \in InWait <=> client[c] \in InWait
  PROVE  UNCHANGED Promise!vars
BY DEF Promise!vars, Finished, PoolPhase, InWait

\* The jobs of the queue, as JobPool names them.
LEMMA QueuedJobs ==
  ASSUME TypeOK, Listed
  PROVE  Promise!Queued = {j \in Jobs : jstate[j] = "queued"}
<1>0. head \in Seq(Jobs)
  BY DEF TypeOK
<1>1. \A i \in 1..Len(head) : head[i] \in Jobs
  BY <1>0, ElementOfSeq
<1>. QED BY <1>1 DEF Promise!Queued, Listed, QueuedListed

\* A worker that is not performing a job leaves room for one under the maximum.
LEMMA RoomForOne ==
  ASSUME Service, NEW w \in Workers, w \in Live, worker[w] # "run"
  PROVE  Cardinality(RunningJobs) < Maximum
<1>. DEFINE R == {v \in Workers : worker[v] = "run"}
            f == [v \in R |-> wjob[v]]
<1>1. IsFiniteSet(Live) /\ Cardinality(Live) \in Nat /\ Cardinality(Live) <= Maximum /\ Maximum \in Nat
  <2>1. Live \in SUBSET Workers
    BY DEF Live
  <2>2. IsFiniteSet(Live)
    BY <2>1, PoolAssumption, FS_Subset DEF PoolAssumption
  <2>. QED BY <2>2, PoolAssumption, FS_CardinalityType
           DEF Service, Places, Counted, ThreadAccounting, PoolAssumption
<1>2. IsFiniteSet(Live \ {w}) /\ Cardinality(Live \ {w}) = Cardinality(Live) - 1
  BY <1>1, FS_RemoveElement
<1>3. R \subseteq Live \ {w}
  BY DEF Live
<1>4. IsFiniteSet(R) /\ Cardinality(R) <= Cardinality(Live \ {w})
  BY <1>2, <1>3, FS_Subset
<1>5. f \in Surjection(R, RunningJobs)
  <2>1. \A v \in R : wjob[v] \in RunningJobs
    BY DEF Service, Places, Held, RunningHeld, HeldJobs, RunningJobs, Busy
  <2>2. \A j \in RunningJobs : \E v \in R : wjob[v] = j
    BY DEF Service, Places, Held, RunningHeld, RunningJobs
  <2>. QED BY <2>1, <2>2 DEF Surjection
<1>. HIDE DEF R, f
<1>6. IsFiniteSet(RunningJobs) /\ Cardinality(RunningJobs) <= Cardinality(R)
  BY <1>4, <1>5, FS_Surjection
<1>7. Cardinality(RunningJobs) \in Nat /\ Cardinality(R) \in Nat
  BY <1>4, <1>6, FS_CardinalityType
<1>. QED BY <1>1, <1>2, <1>4, <1>6, <1>7

LEMMA FreedNotOpen == ASSUME Service, freed PROVE ~Open
BY DEF Service, FreedAlone, DestroyerAlone, InDestroy

LEMMA InitRefines == Init => Promise!Init
BY DEF Init, Promise!Init, Finished, PoolPhase, Open

\* The phase of an open pool.
LEMMA OpenPhase == ASSUME Service, Open PROVE PoolPhase = "open" /\ ~freed
BY FreedNotOpen DEF PoolPhase

LEMMA QueueRefines ==
  ASSUME Service, NEW c \in Clients, NEW j \in Jobs, ThrPoolQueue(c, j)
  PROVE  Promise!Enqueue(j)
<1>0. TypeOK /\ Listed /\ jstate \in [Jobs -> JobStates] /\ jstate[j] = "new" /\ Open
  BY DEF Service, Places, Counted, TypeOK, ThrPoolQueue
<1>1. PoolPhase = "open" /\ PoolPhase' = "open"
  BY <1>0, OpenPhase DEF ThrPoolQueue, PoolPhase, Open
<1>2. j \notin Promise!Queued \union RunningJobs \union Finished
  BY <1>0, QueuedJobs DEF RunningJobs, Finished
<1>3. RunningJobs' = RunningJobs /\ Finished' = Finished
  BY <1>0 DEF ThrPoolQueue, RunningJobs, Finished
<1>4. head' = Append(head, j) /\ UNCHANGED <<client, owed>>
  BY DEF ThrPoolQueue
<1>. QED BY <1>1, <1>2, <1>3, <1>4 DEF Promise!Enqueue, RunningJobs

\* JobPool's Cardinality is the one of FiniteSets.
LEMMA SameCardinality == ASSUME NEW S PROVE Promise!Cardinality(S) = Cardinality(S)
BY DEF Promise!Cardinality, Cardinality

LEMMA TakeRefines ==
  ASSUME Service, NEW w \in Workers, TakeJob(w)
  PROVE  Promise!Start
<1>0. /\ TypeOK /\ Listed /\ jstate \in [Jobs -> JobStates] /\ Open /\ head # <<>>
      /\ w \in Live /\ worker[w] # "run"
      /\ head' = Tail(head) /\ jstate' = [jstate EXCEPT ![Head(head)] = "running"]
      /\ UNCHANGED <<client, owed, flags, freed>>
  BY DEF Service, Places, Counted, TypeOK, TakeJob, MayTake, Ready, Live
<1>1. PoolPhase = "open" /\ PoolPhase' = "open"
  BY <1>0, OpenPhase DEF PoolPhase, Open
<1>2. Head(head) \in Jobs /\ jstate[Head(head)] = "queued"
  BY <1>0, ListedAtTake
<1>3. RunningJobs' = RunningJobs \union {Head(head)} /\ Finished' = Finished
  BY <1>0, <1>2 DEF RunningJobs, Finished
<1>4. Cardinality(RunningJobs) < Maximum
  BY <1>0, RoomForOne
<1>. QED BY <1>0, <1>1, <1>3, <1>4, SameCardinality DEF Promise!Start, RunningJobs

LEMMA EndRefines ==
  ASSUME Service, NEW w \in Workers, FuncReturns(w) \/ FuncExits(w)
  PROVE  \E j \in Jobs : Promise!End(j)
<1>0. /\ jstate \in [Jobs -> JobStates] /\ worker[w] = "run" /\ wjob[w] \in Jobs
      /\ jstate[wjob[w]] = "running"
      /\ UNCHANGED <<head, client, owed, flags, freed>>
  BY DEF Service, Places, Counted, TypeOK, Held, HeldJobs, RunningHeld, Busy, FuncReturns, FuncExits
<1>1. PICK e \in {"done", "aborted"} : jstate' = [jstate EXCEPT ![wjob[w]] = e]
  BY DEF FuncReturns, FuncExits
<1>2. PICK j \in Jobs : j = wjob[w]
  BY <1>0
<1>3. j \in RunningJobs /\ RunningJobs' = RunningJobs \ {j} /\ Finished' = Finished \union {j}
  BY <1>0, <1>1, <1>2 DEF RunningJobs, Finished
<1>4. PoolPhase' = PoolPhase
  BY <1>0 DEF PoolPhase, Open
<1>5. Promise!End(j)
  BY <1>0, <1>3, <1>4 DEF Promise!End, RunningJobs
<1>. QED BY <1>5

LEMMA WaitRefines ==
  ASSUME Service, NEW c \in Clients, ThrPoolWait(c)
  PROVE  Promise!WaitCall(c)
<1>0. /\ TypeOK /\ Listed /\ client \in [Clients -> ClientStates] /\ client[c] = "out" /\ Open
      /\ client' = [client EXCEPT ![c] = "waitCall"]
      /\ owed' = [owed EXCEPT ![c] = {j \in Jobs : jstate[j] \in {"queued", "running"}}]
      /\ UNCHANGED <<head, jstate, flags, freed>>
  BY DEF Service, Places, Counted, TypeOK, ThrPoolWait
<1>1. PoolPhase = "open" /\ PoolPhase' = "open"
  BY <1>0, OpenPhase DEF PoolPhase, Open
<1>2. {j \in Jobs : jstate[j] \in {"queued", "running"}} = Promise!Queued \union RunningJobs
  BY <1>0, QueuedJobs DEF RunningJobs
<1>3. c \notin WaitingClients /\ WaitingClients' = WaitingClients \union {c}
  BY <1>0 DEF WaitingClients, InWait
<1>4. RunningJobs' = RunningJobs /\ Finished' = Finished
  BY <1>0 DEF RunningJobs, Finished
<1>. QED BY <1>0, <1>1, <1>2, <1>3, <1>4
         DEF Promise!WaitCall, RunningJobs, WaitingClients, InWait

\* A waiting client either goes (back) to sleep, which shows nothing, or returns.
LEMMA WaitLoopRefines ==
  ASSUME Service, NEW c \in Clients, WaitLoop(c)
  PROVE  Promise!WaitReturn(c) \/ UNCHANGED Promise!vars
<1>0. /\ client \in [Clients -> ClientStates] /\ owed \in [Clients -> SUBSET Jobs]
      /\ client[c] \in {"waitCall", "waitWoken"} /\ UNCHANGED <<head, jstate, freed>>
  BY DEF Service, Places, Counted, TypeOK, WaitLoop
<1>1. CASE /\ flags' = flags \union {"WAIT"} /\ client' = [client EXCEPT ![c] = "wait"]
           /\ UNCHANGED owed
  <2>1. Open' <=> Open
    BY <1>1 DEF Open
  <2>2. \A d \in Clients : client'[d] \in InWait <=> client[d] \in InWait
    BY <1>0, <1>1 DEF InWait
  <2>. QED BY <1>0, <1>1, <2>1, <2>2, Invisible
<1>2. CASE /\ ~Pending /\ client' = [client EXCEPT ![c] = "out"]
           /\ owed' = [owed EXCEPT ![c] = {}] /\ UNCHANGED flags
  <2>1. owed[c] \subseteq Finished
    BY <1>0, <1>2, NothingPending DEF Service, OwedAlive, InWait
  <2>2. c \in WaitingClients /\ WaitingClients' = WaitingClients \ {c}
    BY <1>0, <1>2 DEF WaitingClients, InWait
  <2>3. RunningJobs' = RunningJobs /\ Finished' = Finished /\ PoolPhase' = PoolPhase
    BY <1>0, <1>2 DEF RunningJobs, Finished, PoolPhase, Open
  <2>. QED BY <1>0, <1>2, <2>1, <2>2, <2>3
           DEF Promise!WaitReturn, RunningJobs, WaitingClients, InWait
<1>. QED BY <1>1, <1>2 DEF WaitLoop

LEMMA DestroyRefines ==
  ASSUME Service, NEW c \in Clients, ThrPoolDestroy(c)
  PROVE  Promise!DestroyCall
<1>0. /\ client \in [Clients -> ClientStates] /\ \A d \in Clients : client[d] = "out"
      /\ Open /\ UNCHANGED <<head, jstate, owed, freed>>
      /\ client' = [client EXCEPT ![c] = client'[c]] /\ client'[c] \notin InWait /\ ~Open'
  BY DEF Service, Places, Counted, TypeOK, ThrPoolDestroy, DrainLoop, BusyLoop, InWait, Open
<1>1. PoolPhase = "open" /\ PoolPhase' = "closing"
  BY <1>0, OpenPhase DEF PoolPhase
<1>2. WaitingClients = {} /\ WaitingClients' = {}
  BY <1>0 DEF WaitingClients, InWait
<1>3. RunningJobs' = RunningJobs /\ Finished' = Finished
  BY <1>0 DEF RunningJobs, Finished
<1>. QED BY <1>0, <1>1, <1>2, <1>3 DEF Promise!DestroyCall, RunningJobs, WaitingClients, InWait

LEMMA FreeRefines ==
  ASSUME Service, NEW c \in Clients, FreePool(c)
  PROVE  Promise!DestroyReturn
<1>0. /\ client \in [Clients -> ClientStates] /\ client[c] = "unlink" /\ nthreads = 0 /\ ~Open
      /\ client' = [client EXCEPT ![c] = "gone"] /\ freed' = TRUE /\ head' = <<>>
      /\ jstate' = [j \in Jobs |-> IF jstate[j] = "queued" THEN "discarded" ELSE jstate[j]]
      /\ UNCHANGED owed
  BY DEF Service, Places, Counted, TypeOK, FreePool, FreedAlone, DestroyerAlone, InDestroy
<1>1. ~freed
  BY <1>0 DEF Service, FreedAlone, DestroyerAlone, InDestroy
<1>2. PoolPhase = "closing" /\ PoolPhase' = "closed"
  BY <1>0, <1>1 DEF PoolPhase
<1>3. \A w \in Workers : worker[w] = "none"
  <2>1. Live \in SUBSET Workers
    BY DEF Live
  <2>2. \A w \in Live : Cardinality(Live) >= 1
    BY <2>1, CountMove
  <2>3. Cardinality(Live) = 0
    BY <1>0 DEF Service, Places, Counted, ThreadAccounting
  <2>4. Live = {}
    BY <2>2, <2>3
  <2>. QED BY <2>4 DEF Live
<1>4. RunningJobs = {}
  BY <1>3 DEF RunningJobs, Service, Places, Held, RunningHeld
<1>5. RunningJobs' = RunningJobs /\ Finished' = Finished
  BY <1>0 DEF RunningJobs, Finished
<1>6. WaitingClients' = WaitingClients
  BY <1>0 DEF WaitingClients, InWait
<1>. QED BY <1>0, <1>2, <1>4, <1>5, <1>6
         DEF Promise!DestroyReturn, RunningJobs, WaitingClients, InWait

\* What a client sees of a step in which workers and timers only wake sleepers.
LEMMA WokenInvisible ==
  ASSUME UNCHANGED <<head, jstate, owed, freed>>, WokenUp, Open' <=> Open
  PROVE  UNCHANGED Promise!vars
<1>1. \A c \in Clients : client'[c] \in InWait <=> client[c] \in InWait
  BY DEF WokenUp, InWait
<1>. QED BY <1>1, Invisible

LEMMA NextRefines == Service /\ [Next]_vars => [Promise!Next]_(Promise!vars)
<1>. SUFFICES ASSUME Service, [Next]_vars PROVE Promise!Next \/ UNCHANGED Promise!vars
  OBVIOUS
<1>0. TypeOK /\ client \in [Clients -> ClientStates]
  BY DEF Service, Places, Counted, TypeOK
<1>1. ASSUME NEW c \in Clients, NEW j \in Jobs, ThrPoolQueue(c, j) PROVE Promise!Next
  BY <1>1, QueueRefines DEF Promise!Next
<1>2. ASSUME NEW c \in Clients, ThrPoolWait(c) PROVE Promise!Next
  BY <1>2, WaitRefines DEF Promise!Next
<1>3. ASSUME NEW c \in Clients, ThrPoolDestroy(c) PROVE Promise!Next
  BY <1>3, DestroyRefines DEF Promise!Next
<1>4. ASSUME NEW c \in Clients, WaitLoop(c) PROVE Promise!Next \/ UNCHANGED Promise!vars
  BY <1>4, WaitLoopRefines DEF Promise!Next
<1>5. ASSUME NEW c \in Clients, FreePool(c) PROVE Promise!Next
  BY <1>5, FreeRefines DEF Promise!Next
<1>6. ASSUME NEW c \in Clients, DestroyDrain(c) \/ DestroyBusy(c) \/ SpuriousClient(c)
      PROVE  UNCHANGED Promise!vars
  <2>1. UNCHANGED <<head, jstate, owed, freed>> /\ (Open' <=> Open)
    BY <1>6 DEF DestroyDrain, DestroyBusy, SpuriousClient, DrainLoop, Open
  <2>2. \A d \in Clients : client'[d] \in InWait <=> client[d] \in InWait
    BY <1>0, <1>6 DEF DestroyDrain, DestroyBusy, SpuriousClient, DrainLoop, BusyLoop, WakeWaitcv,
                      WakeBusycv, InWait
  <2>. QED BY <2>1, <2>2, Invisible
<1>7. ASSUME NEW w \in Workers, TakeJob(w) PROVE Promise!Next
  BY <1>7, TakeRefines DEF Promise!Next
<1>8. ASSUME NEW w \in Workers, FuncReturns(w) \/ FuncExits(w) PROVE Promise!Next
  BY <1>8, EndRefines DEF Promise!Next
<1>9. ASSUME NEW w \in Workers, \/ WaitForWork(w) \/ Retire(w) \/ QuitOnDestroy(w) \/ JobExit(w)
                                \/ LingerExpires(w) \/ SpuriousWorker(w)
      PROVE  UNCHANGED Promise!vars
  <2>1. UNCHANGED <<head, jstate, owed, freed>>
    BY <1>9 DEF WaitForWork, Retire, QuitOnDestroy, JobExit, LingerExpires, SpuriousWorker
  <2>2. WokenUp /\ (Open' <=> Open)
    BY <1>0, <1>9, WorkersOnlyWake DEF WorkerSection
  <2>. QED BY <2>1, <2>2, WokenInvisible
<1>10. CASE UNCHANGED vars
  BY <1>10, WokenInvisible DEF vars, WokenUp, Open
<1>. QED BY <1>1, <1>2, <1>3, <1>4, <1>5, <1>6, <1>7, <1>8, <1>9, <1>10
         DEF Next, Terminated, ClientSection, WorkerSection

\* Every step of the pool is one that thr_pool.h promises, or one that no client
\* can see: jobs start in FIFO order and at most pool_maximum of them run at
\* once, waits and destructions return only when they may, and nothing starts
\* in a pool that is being destroyed.
THEOREM Refines == Spec => ImplementsJobPool
<1>. QED BY InitService, ServiceInductive, InitRefines, NextRefines, PTL
         DEF Spec, ImplementsJobPool, Promise!Spec
=============================================================================
