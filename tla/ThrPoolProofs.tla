---------------------------- MODULE ThrPoolProofs ----------------------------
(***************************************************************************)
(* Theorems about ThrPool for every set of workers, clients and jobs and   *)
(* all limits that thr_pool_create accepts.                                *)
(***************************************************************************)
EXTENDS ThrPool, FiniteSetTheorems, TLAPS

-----------------------------------------------------------------------------
(***************************************************************************)
(* Counting threads.                                                       *)
(***************************************************************************)

\* Two sets of workers that differ at most in w.
LEMMA CountMove ==
  ASSUME NEW S \in SUBSET Workers, NEW T \in SUBSET Workers,
         NEW w \in Workers, T \ {w} = S \ {w}
  PROVE  /\ Cardinality(S) \in Nat /\ Cardinality(T) \in Nat
         /\ w \in S => Cardinality(S) >= 1
         /\ w \in T /\ w \notin S => Cardinality(T) = Cardinality(S) + 1
         /\ w \in S /\ w \notin T => Cardinality(T) = Cardinality(S) - 1
         /\ (w \in S <=> w \in T) => Cardinality(T) = Cardinality(S)
<1>1. IsFiniteSet(S) /\ IsFiniteSet(T)
  BY PoolAssumption, FS_Subset DEF PoolAssumption
<1>2. Cardinality(S) \in Nat /\ Cardinality(T) \in Nat
  BY <1>1, FS_CardinalityType
<1>3. ASSUME w \in S PROVE Cardinality(S) >= 1
  BY <1>1, <1>2, <1>3, FS_EmptySet
<1>4. ASSUME w \in T, w \notin S PROVE Cardinality(T) = Cardinality(S) + 1
  <2>1. T = S \union {w}
    BY <1>4
  <2>. QED BY <1>1, <1>4, <2>1, FS_AddElement
<1>5. ASSUME w \in S, w \notin T PROVE Cardinality(T) = Cardinality(S) - 1
  <2>1. T = S \ {w}
    BY <1>5
  <2>. QED BY <1>1, <1>5, <2>1, FS_RemoveElement
<1>6. ASSUME w \in S <=> w \in T PROVE T = S
  BY <1>6
<1>. QED BY <1>2, <1>3, <1>4, <1>5, <1>6

\* The classes of workers after one worker has changed its state.
LEMMA Move ==
  ASSUME TypeOK, NEW w \in Workers, NEW s \in WorkerStates,
         worker' = [worker EXCEPT ![w] = s]
  PROVE  /\ worker' \in [Workers -> WorkerStates]
         /\ Live' \ {w} = Live \ {w} /\ (w \in Live' <=> s # "none")
         /\ Idlers' \ {w} = Idlers \ {w}
         /\ w \in Idlers' <=> s \in {"waiting", "lingering", "woken", "timedout"}
         /\ Busy' \ {w} = Busy \ {w}
         /\ w \in Busy' <=> s \in {"run", "returned", "exiting"}
         /\ Ready' \ {w} = Ready \ {w}
         /\ w \in Ready' <=> s \in {"start", "woken", "timedout", "returned"}
         /\ Asleep' \ {w} = Asleep \ {w}
         /\ w \in Asleep' <=> s \in {"waiting", "lingering"}
<1>1. worker \in [Workers -> WorkerStates]
  BY DEF TypeOK
<1>2. worker'[w] = s /\ \A v \in Workers : v # w => worker'[v] = worker[v]
  BY <1>1
<1>3. worker' \in [Workers -> WorkerStates]
  BY <1>1
<1>4. Live' \ {w} = Live \ {w} /\ (w \in Live' <=> s # "none")
  BY <1>2 DEF Live
<1>5. Idlers' \ {w} = Idlers \ {w}
      /\ (w \in Idlers' <=> s \in {"waiting", "lingering", "woken", "timedout"})
  BY <1>2 DEF Idlers
<1>6. Busy' \ {w} = Busy \ {w}
      /\ (w \in Busy' <=> s \in {"run", "returned", "exiting"})
  BY <1>2 DEF Busy
<1>7. Ready' \ {w} = Ready \ {w}
      /\ (w \in Ready' <=> s \in {"start", "woken", "timedout", "returned"})
  BY <1>2 DEF Ready
<1>8. Asleep' \ {w} = Asleep \ {w}
      /\ (w \in Asleep' <=> s \in {"waiting", "lingering"})
  BY <1>2 DEF Asleep
<1>. QED BY <1>3, <1>4, <1>5, <1>6, <1>7, <1>8

IdleStates == {"waiting", "lingering", "woken", "timedout"}

\* What the counters must become when one worker changes its state.
LEMMA Recount ==
  ASSUME TypeOK, ThreadAccounting, NEW w \in Workers, NEW s \in WorkerStates,
         worker' = [worker EXCEPT ![w] = s]
  PROVE  /\ worker' \in [Workers -> WorkerStates]
         /\ worker[w] # "none" => nthreads >= 1
         /\ worker[w] = "none" /\ s # "none" => Cardinality(Live') = nthreads + 1
         /\ worker[w] # "none" /\ s = "none" => Cardinality(Live') = nthreads - 1
         /\ worker[w] # "none" /\ s # "none" => Cardinality(Live') = nthreads
         /\ worker[w] \in IdleStates => idle >= 1
         /\ worker[w] \notin IdleStates /\ s \in IdleStates => Cardinality(Idlers') = idle + 1
         /\ worker[w] \in IdleStates /\ s \notin IdleStates => Cardinality(Idlers') = idle - 1
         /\ (worker[w] \in IdleStates <=> s \in IdleStates) => Cardinality(Idlers') = idle
<1>1. Live \in SUBSET Workers /\ Live' \in SUBSET Workers
      /\ Idlers \in SUBSET Workers /\ Idlers' \in SUBSET Workers
  BY DEF Live, Idlers
<1>2. /\ worker' \in [Workers -> WorkerStates]
      /\ Live' \ {w} = Live \ {w} /\ (w \in Live' <=> s # "none")
      /\ Idlers' \ {w} = Idlers \ {w} /\ (w \in Idlers' <=> s \in IdleStates)
  BY Move DEF IdleStates
<1>3. (w \in Live <=> worker[w] # "none") /\ (w \in Idlers <=> worker[w] \in IdleStates)
  BY DEF Live, Idlers, IdleStates
<1>4. /\ w \in Live => Cardinality(Live) >= 1
      /\ w \in Live' /\ w \notin Live => Cardinality(Live') = Cardinality(Live) + 1
      /\ w \in Live /\ w \notin Live' => Cardinality(Live') = Cardinality(Live) - 1
      /\ (w \in Live <=> w \in Live') => Cardinality(Live') = Cardinality(Live)
  BY <1>1, <1>2, CountMove
<1>5. /\ w \in Idlers => Cardinality(Idlers) >= 1
      /\ w \in Idlers' /\ w \notin Idlers => Cardinality(Idlers') = Cardinality(Idlers) + 1
      /\ w \in Idlers /\ w \notin Idlers' => Cardinality(Idlers') = Cardinality(Idlers) - 1
      /\ (w \in Idlers <=> w \in Idlers') => Cardinality(Idlers') = Cardinality(Idlers)
  BY <1>1, <1>2, CountMove
<1>. QED BY <1>2, <1>3, <1>4, <1>5 DEF ThreadAccounting

-----------------------------------------------------------------------------
(***************************************************************************)
(* Type correctness, with the accounting it depends on: a decrement stays  *)
(* a natural number because the counter counts the thread that leaves.     *)
(***************************************************************************)
Counted == TypeOK /\ ThreadAccounting

LEMMA InitCounted == Init => Counted
<1>. SUFFICES ASSUME Init PROVE Counted
  OBVIOUS
<1>1. Live = {} /\ Idlers = {}
  BY DEF Init, Live, Idlers
<1>2. Cardinality({}) = 0
  BY FS_EmptySet
<1>3. TypeOK
  <2>1. head \in Seq(Jobs) /\ nthreads \in Nat /\ idle \in Nat
    BY DEF Init
  <2>5. freed \in BOOLEAN
    BY DEF Init
  <2>2. /\ active \in SUBSET Workers /\ flags \in SUBSET {"WAIT", "DESTROY"}
        /\ cancelled \in SUBSET Workers
    BY DEF Init
  <2>3. /\ worker \in [Workers -> WorkerStates]
        /\ wjob \in [Workers -> Jobs \union {NoJob}]
    BY DEF Init, WorkerStates
  <2>4. /\ client \in [Clients -> ClientStates]
        /\ owed \in [Clients -> SUBSET Jobs]
        /\ jstate \in [Jobs -> JobStates]
    BY DEF Init, ClientStates, JobStates
  <2>. QED BY <2>1, <2>2, <2>3, <2>4, <2>5 DEF TypeOK
<1>. QED BY <1>1, <1>2, <1>3, PoolAssumption DEF Counted, Init, ThreadAccounting, PoolAssumption

\* What a broadcast does to the clients keeps their type.
LEMMA WakeTypes ==
  ASSUME NEW f \in [Clients -> ClientStates]
  PROVE  /\ [c \in Clients |-> WakeWaitcv(f[c])] \in [Clients -> ClientStates]
         /\ [c \in Clients |-> WakeBusycv(f[c])] \in [Clients -> ClientStates]
         /\ LastOneOut(f) \in [Clients -> ClientStates]
BY DEF WakeWaitcv, WakeBusycv, LastOneOut, ClientStates

LEMMA NotifyTypes ==
  ASSUME TypeOK, NEW act, NotifyWaiters(act)
  PROVE  flags' \in SUBSET {"WAIT", "DESTROY"} /\ client' \in [Clients -> ClientStates]
BY WakeTypes DEF TypeOK, NotifyWaiters

\* pool_idle without the worker, for a worker that is at its loop.
LEMMA IdleWithoutCounts ==
  ASSUME Counted, NEW w \in Ready
  PROVE  /\ IdleWithout(w) \in Nat
         /\ worker[w] \in IdleStates => IdleWithout(w) = idle - 1
         /\ worker[w] \notin IdleStates => IdleWithout(w) = idle
<1>1. worker[w] \in IdleStates => idle >= 1
  <2>1. w \in Workers /\ worker[w] \in WorkerStates
    BY DEF Ready, Counted, TypeOK
  <2>2. Idlers \in SUBSET Workers
    BY DEF Idlers
  <2>3. w \in Idlers => Cardinality(Idlers) >= 1
    BY <2>1, <2>2, CountMove
  <2>. QED BY <2>1, <2>3 DEF Counted, ThreadAccounting, Idlers, IdleStates
<1>. QED BY <1>1 DEF Counted, TypeOK, Ready, IdleStates, IdleWithout, EntersLoop

(***************************************************************************)
(* One lemma per action that touches the counters or a worker.             *)
(***************************************************************************)
LEMMA QueueCounted ==
  ASSUME Counted, NEW c \in Clients, NEW j \in Jobs, ThrPoolQueue(c, j)
  PROVE  Counted'
<1>. USE DEF Counted
<1>1. head' \in Seq(Jobs) /\ jstate' \in [Jobs -> JobStates]
  BY DEF TypeOK, ThrPoolQueue, JobStates
<1>2. CASE UNCHANGED <<worker, nthreads>>
  BY <1>1, <1>2 DEF TypeOK, ThreadAccounting, ThrPoolQueue, Live, Idlers
<1>3. CASE IdleWorker /\ (\E w \in Asleep : worker' = [worker EXCEPT ![w] = "woken"])
           /\ UNCHANGED nthreads
  <2>1. PICK w \in Asleep : worker' = [worker EXCEPT ![w] = "woken"]
    BY <1>3
  <2>2. w \in Workers /\ worker[w] \in IdleStates /\ worker[w] # "none"
    BY DEF Asleep, IdleStates
  <2>3. "woken" \in WorkerStates /\ "woken" \in IdleStates
    BY DEF WorkerStates, IdleStates
  <2>4. /\ worker' \in [Workers -> WorkerStates]
        /\ Cardinality(Live') = nthreads /\ Cardinality(Idlers') = idle
    BY <2>1, <2>2, <2>3, Recount
  <2>. QED BY <1>1, <1>3, <2>4 DEF TypeOK, ThreadAccounting, ThrPoolQueue
<1>4. CASE /\ ~IdleWorker /\ nthreads < Maximum
           /\ \E w \in Workers \ Live : worker' = [worker EXCEPT ![w] = "start"]
           /\ nthreads' = nthreads + 1
  <2>1. PICK w \in Workers \ Live : worker' = [worker EXCEPT ![w] = "start"]
    BY <1>4
  <2>2. w \in Workers /\ worker[w] = "none" /\ worker[w] \notin IdleStates
    BY DEF Live, IdleStates
  <2>3. "start" \in WorkerStates /\ "start" \notin IdleStates
    BY DEF WorkerStates, IdleStates
  <2>4. /\ worker' \in [Workers -> WorkerStates]
        /\ Cardinality(Live') = nthreads + 1 /\ Cardinality(Idlers') = idle
    BY <2>1, <2>2, <2>3, Recount
  <2>. QED BY <1>1, <1>4, <2>4, PoolAssumption
           DEF TypeOK, ThreadAccounting, ThrPoolQueue, PoolAssumption
<1>. QED BY <1>2, <1>3, <1>4 DEF ThrPoolQueue

LEMMA TakeJobCounted ==
  ASSUME Counted, NEW w \in Workers, TakeJob(w)
  PROVE  Counted'
<1>1. w \in Ready /\ head # <<>> /\ TypeOK /\ ThreadAccounting
  BY DEF Counted, TakeJob, MayTake
<1>2. Head(head) \in Jobs /\ head' \in Seq(Jobs)
  BY <1>1 DEF TypeOK, TakeJob
<1>3. worker[w] # "none" /\ "run" \in WorkerStates /\ "run" # "none" /\ "run" \notin IdleStates
  BY <1>1 DEF Ready, WorkerStates, IdleStates
<1>4. worker' = [worker EXCEPT ![w] = "run"]
  BY DEF TakeJob
<1>5. /\ worker' \in [Workers -> WorkerStates]
      /\ Cardinality(Live') = nthreads
      /\ worker[w] \in IdleStates => Cardinality(Idlers') = idle - 1
      /\ worker[w] \notin IdleStates => Cardinality(Idlers') = idle
  BY <1>1, <1>3, <1>4, Recount
<1>6. idle' \in Nat /\ idle' = Cardinality(Idlers')
  BY <1>1, <1>5, IdleWithoutCounts DEF TakeJob
<1>7. wjob' \in [Workers -> Jobs \union {NoJob}] /\ jstate' \in [Jobs -> JobStates]
  BY <1>1, <1>2 DEF TypeOK, TakeJob, JobStates
<1>8. active' \in SUBSET Workers
  BY <1>1 DEF TypeOK, TakeJob
<1>. QED BY <1>1, <1>2, <1>5, <1>6, <1>7, <1>8
         DEF Counted, TypeOK, ThreadAccounting, TakeJob

LEMMA WaitForWorkCounted ==
  ASSUME Counted, NEW w \in Workers, WaitForWork(w)
  PROVE  Counted'
<1>1. w \in Ready /\ TypeOK /\ ThreadAccounting
  BY DEF Counted, WaitForWork
<1>2. PICK s \in {"waiting", "lingering"} : worker' = [worker EXCEPT ![w] = s]
  BY DEF WaitForWork
<1>3. worker[w] # "none" /\ s \in WorkerStates /\ s # "none" /\ s \in IdleStates
  BY <1>1 DEF Ready, WorkerStates, IdleStates
<1>4. /\ worker' \in [Workers -> WorkerStates]
      /\ Cardinality(Live') = nthreads
      /\ worker[w] \in IdleStates => Cardinality(Idlers') = idle
      /\ worker[w] \notin IdleStates => Cardinality(Idlers') = idle + 1
  BY <1>1, <1>2, <1>3, Recount
<1>5. idle' \in Nat /\ idle' = Cardinality(Idlers')
  BY <1>1, <1>4, IdleWithoutCounts DEF WaitForWork, TypeOK
<1>6. wjob' \in [Workers -> Jobs \union {NoJob}] /\ active' \in SUBSET Workers
  BY <1>1 DEF TypeOK, WaitForWork, Unlinked
<1>7. flags' \in SUBSET {"WAIT", "DESTROY"} /\ client' \in [Clients -> ClientStates]
  BY <1>1, NotifyTypes DEF TypeOK, WaitForWork
<1>. QED BY <1>1, <1>4, <1>5, <1>6, <1>7
         DEF Counted, TypeOK, ThreadAccounting, WaitForWork

LEMMA RetireCounted ==
  ASSUME Counted, NEW w \in Workers, Retire(w)
  PROVE  Counted'
<1>1. w \in Ready /\ TypeOK /\ ThreadAccounting
  BY DEF Counted, Retire
<1>2. worker' = [worker EXCEPT ![w] = "none"]
  BY DEF Retire
<1>3. worker[w] # "none" /\ "none" \in WorkerStates /\ "none" \notin IdleStates
  BY <1>1 DEF Ready, WorkerStates, IdleStates
<1>4. /\ worker' \in [Workers -> WorkerStates]
      /\ nthreads >= 1 /\ Cardinality(Live') = nthreads - 1
      /\ worker[w] \in IdleStates => Cardinality(Idlers') = idle - 1
      /\ worker[w] \notin IdleStates => Cardinality(Idlers') = idle
  BY <1>1, <1>2, <1>3, Recount
<1>5. idle' \in Nat /\ idle' = Cardinality(Idlers')
  BY <1>1, <1>4, IdleWithoutCounts DEF Retire
<1>6. wjob' \in [Workers -> Jobs \union {NoJob}] /\ active' \in SUBSET Workers
  BY <1>1 DEF TypeOK, Retire, Unlinked
<1>7. flags' \in SUBSET {"WAIT", "DESTROY"} /\ client' \in [Clients -> ClientStates]
  BY <1>1, NotifyTypes DEF TypeOK, Retire
<1>8. nthreads' \in Nat /\ nthreads' = Cardinality(Live') /\ nthreads' <= Maximum
  BY <1>1, <1>4, PoolAssumption DEF TypeOK, ThreadAccounting, Retire, PoolAssumption
<1>. QED BY <1>1, <1>4, <1>5, <1>6, <1>7, <1>8
         DEF Counted, TypeOK, ThreadAccounting, Retire

LEMMA QuitOnDestroyCounted ==
  ASSUME Counted, NEW w \in Workers, QuitOnDestroy(w)
  PROVE  Counted'
<1>1. w \in Ready /\ TypeOK /\ ThreadAccounting
  BY DEF Counted, QuitOnDestroy
<1>2. worker' = [worker EXCEPT ![w] = "none"]
  BY DEF QuitOnDestroy
<1>3. worker[w] # "none" /\ "none" \in WorkerStates /\ "none" \notin IdleStates
  BY <1>1 DEF Ready, WorkerStates, IdleStates
<1>4. /\ worker' \in [Workers -> WorkerStates]
      /\ nthreads >= 1 /\ Cardinality(Live') = nthreads - 1
      /\ worker[w] \in IdleStates => Cardinality(Idlers') = idle - 1
      /\ worker[w] \notin IdleStates => Cardinality(Idlers') = idle
  BY <1>1, <1>2, <1>3, Recount
<1>5. idle' \in Nat /\ idle' = Cardinality(Idlers')
  BY <1>1, <1>4, IdleWithoutCounts DEF QuitOnDestroy
<1>6. wjob' \in [Workers -> Jobs \union {NoJob}] /\ active' \in SUBSET Workers
  BY <1>1 DEF TypeOK, QuitOnDestroy, Unlinked
<1>7. flags' \in SUBSET {"WAIT", "DESTROY"} /\ client' \in [Clients -> ClientStates]
  BY <1>1, WakeTypes DEF TypeOK, QuitOnDestroy
<1>8. nthreads' \in Nat /\ nthreads' = Cardinality(Live') /\ nthreads' <= Maximum
  BY <1>1, <1>4, PoolAssumption DEF TypeOK, ThreadAccounting, QuitOnDestroy, PoolAssumption
<1>. QED BY <1>1, <1>4, <1>5, <1>6, <1>7, <1>8
         DEF Counted, TypeOK, ThreadAccounting, QuitOnDestroy

\* The replacement in worker_cleanup keeps pool_nthreads: one thread leaves and
\* one enters.
LEMMA ReplaceRecount ==
  ASSUME TypeOK, ThreadAccounting, NEW w \in Workers, worker[w] = "exiting",
         NEW v \in Workers \ Live,
         worker' = [[worker EXCEPT ![w] = "none"] EXCEPT ![v] = "start"]
  PROVE  /\ worker' \in [Workers -> WorkerStates]
         /\ Cardinality(Live') = nthreads
         /\ Cardinality(Idlers') = idle
<1>1. w \in Live /\ v # w /\ v \in Workers /\ worker[v] = "none"
  BY DEF Live
<1>2. worker' \in [Workers -> WorkerStates]
  BY DEF TypeOK, WorkerStates
<1>3. /\ worker'[w] = "none" /\ worker'[v] = "start"
      /\ \A u \in Workers : u # w /\ u # v => worker'[u] = worker[u]
  BY <1>1 DEF TypeOK
<1>4. Live' = (Live \ {w}) \union {v}
  BY <1>1, <1>3 DEF Live
<1>5. Idlers' = Idlers
  BY <1>1, <1>3 DEF Idlers
<1>6. Cardinality(Live \ {w}) = Cardinality(Live) - 1 /\ Cardinality(Live) \in Nat
  <2>1. Live \in SUBSET Workers /\ Live \ {w} \in SUBSET Workers
    BY DEF Live
  <2>2. (Live \ {w}) \ {w} = Live \ {w}
    OBVIOUS
  <2>. QED BY <1>1, <2>1, <2>2, CountMove
<1>7. Cardinality(Live') = Cardinality(Live \ {w}) + 1
  <2>1. Live \ {w} \in SUBSET Workers /\ Live' \in SUBSET Workers
    BY <1>1, <1>4 DEF Live
  <2>2. Live' \ {v} = (Live \ {w}) \ {v} /\ v \notin Live \ {w} /\ v \in Live'
    BY <1>1, <1>4
  <2>. QED BY <1>1, <2>1, <2>2, CountMove
<1>. QED BY <1>2, <1>5, <1>6, <1>7 DEF ThreadAccounting

LEMMA JobExitCounted ==
  ASSUME Counted, NEW w \in Workers, JobExit(w)
  PROVE  Counted'
<1>1. worker[w] = "exiting" /\ TypeOK /\ ThreadAccounting
  BY DEF Counted, JobExit
<1>2. wjob' \in [Workers -> Jobs \union {NoJob}] /\ active' \in SUBSET Workers
  BY <1>1 DEF TypeOK, JobExit, Unlinked
<1>3. flags' \in SUBSET {"WAIT", "DESTROY"} /\ client' \in [Clients -> ClientStates]
  <2>. DEFINE cl == IF NotifyCond(Unlinked(w))
                    THEN [c \in Clients |-> WakeWaitcv(client[c])] ELSE client
  <2>1. flags' = flags \/ flags' = flags \ {"WAIT"}
    BY DEF JobExit
  <2>2. client' = cl \/ client' = LastOneOut(cl)
    BY DEF JobExit
  <2>3. client \in [Clients -> ClientStates] /\ flags \in SUBSET {"WAIT", "DESTROY"}
    BY <1>1 DEF TypeOK
  <2>4. cl \in [Clients -> ClientStates]
    BY <2>3, WakeTypes
  <2>. HIDE DEF cl
  <2>5. LastOneOut(cl) \in [Clients -> ClientStates]
    BY <2>4, WakeTypes
  <2>. QED BY <2>1, <2>2, <2>3, <2>4, <2>5
<1>4. /\ worker' \in [Workers -> WorkerStates]
      /\ nthreads' \in Nat /\ nthreads' = Cardinality(Live') /\ nthreads' <= Maximum
      /\ idle' = Cardinality(Idlers')
  <2>1. CASE worker' = [worker EXCEPT ![w] = "none"] /\ nthreads' = nthreads - 1
    <3>1. "none" \in WorkerStates /\ "none" \notin IdleStates
          /\ worker[w] # "none" /\ worker[w] \notin IdleStates
      BY <1>1 DEF WorkerStates, IdleStates
    <3>2. /\ worker' \in [Workers -> WorkerStates]
          /\ nthreads >= 1 /\ Cardinality(Live') = nthreads - 1
          /\ Cardinality(Idlers') = idle
      BY <1>1, <2>1, <3>1, Recount
    <3>. QED BY <1>1, <2>1, <3>2, PoolAssumption
             DEF TypeOK, ThreadAccounting, JobExit, PoolAssumption
  <2>2. CASE /\ \E v \in Workers \ Live :
                  worker' = [[worker EXCEPT ![w] = "none"] EXCEPT ![v] = "start"]
             /\ nthreads' = nthreads
    <3>1. PICK v \in Workers \ Live :
                 worker' = [[worker EXCEPT ![w] = "none"] EXCEPT ![v] = "start"]
      BY <2>2
    <3>2. /\ worker' \in [Workers -> WorkerStates]
          /\ Cardinality(Live') = nthreads /\ Cardinality(Idlers') = idle
      BY <1>1, <3>1, ReplaceRecount
    <3>. QED BY <1>1, <2>2, <3>2 DEF TypeOK, ThreadAccounting, JobExit
  <2>. QED BY <2>1, <2>2 DEF JobExit
<1>. QED BY <1>1, <1>2, <1>3, <1>4 DEF Counted, TypeOK, ThreadAccounting, JobExit

\* A worker that moves between two awake or two counted states.
LEMMA WorkerMovesCounted ==
  ASSUME Counted, NEW w \in Workers,
         FuncReturns(w) \/ FuncExits(w) \/ LingerExpires(w) \/ SpuriousWorker(w)
  PROVE  Counted'
<1>1. TypeOK /\ ThreadAccounting
  BY DEF Counted
<1>2. PICK s \in {"returned", "exiting", "timedout", "woken"} :
        /\ worker' = [worker EXCEPT ![w] = s]
        /\ worker[w] # "none"
        /\ worker[w] \in IdleStates <=> s \in IdleStates
  BY DEF FuncReturns, FuncExits, LingerExpires, SpuriousWorker, IdleStates, Asleep
<1>3. s \in WorkerStates /\ s # "none"
  BY DEF WorkerStates
<1>4. /\ worker' \in [Workers -> WorkerStates]
      /\ Cardinality(Live') = nthreads /\ Cardinality(Idlers') = idle
  BY <1>1, <1>2, <1>3, Recount
<1>5. jstate' \in [Jobs -> JobStates]
  BY <1>1 DEF TypeOK, JobStates, FuncReturns, FuncExits, LingerExpires, SpuriousWorker
<1>. QED BY <1>1, <1>4, <1>5
         DEF Counted, TypeOK, ThreadAccounting, FuncReturns, FuncExits, LingerExpires, SpuriousWorker

LEMMA DestroyCounted ==
  ASSUME Counted, NEW c \in Clients, ThrPoolDestroy(c)
  PROVE  Counted'
<1>1. TypeOK /\ ThreadAccounting
  BY DEF Counted
<1>2. worker' \in [Workers -> WorkerStates] /\ Live' = Live /\ Idlers' = Idlers
  BY <1>1 DEF TypeOK, ThrPoolDestroy, WakeWorkers, WorkerStates, Live, Idlers, Asleep
<1>3. flags' \in SUBSET {"WAIT", "DESTROY"} /\ client' \in [Clients -> ClientStates]
  BY <1>1 DEF TypeOK, ThrPoolDestroy, DrainLoop, BusyLoop, ClientStates
<1>4. cancelled' \in SUBSET Workers
  BY <1>1 DEF TypeOK, ThrPoolDestroy
<1>. QED BY <1>1, <1>2, <1>3, <1>4 DEF Counted, TypeOK, ThreadAccounting, ThrPoolDestroy

\* The steps of clients that leave the workers and the counters alone.
LEMMA ClientMovesCounted ==
  ASSUME Counted, NEW c \in Clients,
         ThrPoolWait(c) \/ ClientSection(c) \/ SpuriousClient(c)
  PROVE  Counted'
<1>1. TypeOK /\ ThreadAccounting
  BY DEF Counted
<1>2. UNCHANGED <<active, nthreads, idle, worker, wjob, cancelled>>
  BY DEF ThrPoolWait, ClientSection, WaitLoop, DestroyDrain, DestroyBusy, FreePool, SpuriousClient
<1>3. flags' \in SUBSET {"WAIT", "DESTROY"}
  BY <1>1 DEF TypeOK, ThrPoolWait, ClientSection, WaitLoop, DestroyDrain, DestroyBusy, FreePool,
              SpuriousClient, DrainLoop
<1>4. client' \in [Clients -> ClientStates]
  <2>1. WakeBusycv(WakeWaitcv(client[c])) \in ClientStates
    BY <1>1 DEF TypeOK, WakeBusycv, WakeWaitcv, ClientStates
  <2>2. BusyLoop \in ClientStates
    BY DEF BusyLoop, ClientStates
  <2>. QED BY <1>1, <2>1, <2>2
           DEF TypeOK, ThrPoolWait, ClientSection, WaitLoop, DestroyDrain, DestroyBusy, FreePool,
               SpuriousClient, DrainLoop, ClientStates
<1>5. head' \in Seq(Jobs)
  <2>1. head' = head \/ head' = <<>>
    BY DEF ThrPoolWait, ClientSection, WaitLoop, DestroyDrain, DestroyBusy, FreePool,
           SpuriousClient
  <2>2. head \in Seq(Jobs)
    BY <1>1 DEF TypeOK
  <2>3. <<>> \in Seq(Jobs)
    OBVIOUS
  <2>. QED BY <2>1, <2>2, <2>3
<1>9. owed' \in [Clients -> SUBSET Jobs]
  BY <1>1 DEF TypeOK, ThrPoolWait, ClientSection, WaitLoop, DestroyDrain, DestroyBusy, FreePool,
              SpuriousClient
<1>8. freed' \in BOOLEAN
  BY <1>1 DEF TypeOK, ThrPoolWait, ClientSection, WaitLoop, DestroyDrain, DestroyBusy, FreePool,
              SpuriousClient
<1>6. jstate' \in [Jobs -> JobStates]
  BY <1>1 DEF TypeOK, ThrPoolWait, ClientSection, WaitLoop, DestroyDrain, DestroyBusy, FreePool,
              SpuriousClient, JobStates
<1>7. Live' = Live /\ Idlers' = Idlers
  BY <1>2 DEF Live, Idlers
<1>. QED BY <1>1, <1>2, <1>3, <1>4, <1>5, <1>6, <1>7, <1>8, <1>9
    DEF Counted, TypeOK, ThreadAccounting

LEMMA NextCounted == Counted /\ [Next]_vars => Counted'
<1>. SUFFICES ASSUME Counted, [Next]_vars PROVE Counted'
  OBVIOUS
<1>1. ASSUME NEW c \in Clients, NEW j \in Jobs, ThrPoolQueue(c, j) PROVE Counted'
  BY <1>1, QueueCounted
<1>2. ASSUME NEW c \in Clients, ThrPoolWait(c) \/ ClientSection(c) \/ SpuriousClient(c)
      PROVE  Counted'
  BY <1>2, ClientMovesCounted
<1>3. ASSUME NEW c \in Clients, ThrPoolDestroy(c) PROVE Counted'
  BY <1>3, DestroyCounted
<1>4. ASSUME NEW w \in Workers, WorkerSection(w) PROVE Counted'
  BY <1>4, TakeJobCounted, WaitForWorkCounted, RetireCounted, QuitOnDestroyCounted,
     JobExitCounted DEF WorkerSection
<1>5. ASSUME NEW w \in Workers,
             FuncReturns(w) \/ FuncExits(w) \/ LingerExpires(w) \/ SpuriousWorker(w)
      PROVE  Counted'
  BY <1>5, WorkerMovesCounted
<1>6. CASE UNCHANGED vars
  BY <1>6 DEF vars, Counted, TypeOK, ThreadAccounting, Live, Idlers
<1>. QED BY <1>1, <1>2, <1>3, <1>4, <1>5, <1>6 DEF Next, Terminated

\* Every variable keeps its type; in particular pool_nthreads and pool_idle,
\* which thr_pool.c declares as int, are never decremented below zero.
THEOREM TypeCorrect == Spec => []TypeOK
<1>1. Counted => TypeOK
  BY DEF Counted
<1>. QED BY <1>1, InitCounted, NextCounted, PTL DEF Spec

\* pool_nthreads and pool_idle count the worker threads that exist and those
\* in the wait loop, whichever way threads come and go, and the number of
\* threads never exceeds pool_maximum.
THEOREM AccountingCorrect == Spec => []ThreadAccounting
<1>1. Counted => ThreadAccounting
  BY DEF Counted
<1>. QED BY <1>1, InitCounted, NextCounted, PTL DEF Spec

-----------------------------------------------------------------------------
(***************************************************************************)
(* The active list, and who may be inside the pool.                        *)
(***************************************************************************)

\* pool_active links the workers that are between dequeuing a job and the end
\* of its job_cleanup.
ActiveExact == active = Busy

LEMMA InitActive == Init => ActiveExact
BY DEF Init, ActiveExact, Busy

LEMMA NextActive == Counted /\ ActiveExact /\ [Next]_vars => ActiveExact'
<1>. SUFFICES ASSUME Counted, ActiveExact, [Next]_vars PROVE ActiveExact'
  OBVIOUS
<1>0. TypeOK /\ worker \in [Workers -> WorkerStates]
  BY DEF Counted, TypeOK
<1>1. ASSUME NEW c \in Clients, NEW j \in Jobs, ThrPoolQueue(c, j) PROVE ActiveExact'
  <2>1. CASE UNCHANGED worker
    BY <1>1, <2>1 DEF ThrPoolQueue, ActiveExact, Busy
  <2>2. CASE \E w \in Asleep : worker' = [worker EXCEPT ![w] = "woken"]
    BY <1>0, <1>1, <2>2 DEF ThrPoolQueue, ActiveExact, Busy, Asleep
  <2>3. CASE \E w \in Workers \ Live : worker' = [worker EXCEPT ![w] = "start"]
    BY <1>0, <1>1, <2>3 DEF ThrPoolQueue, ActiveExact, Busy, Live
  <2>. QED BY <1>1, <2>1, <2>2, <2>3 DEF ThrPoolQueue
<1>2. ASSUME NEW c \in Clients, ThrPoolWait(c) \/ ClientSection(c) \/ SpuriousClient(c)
      PROVE  ActiveExact'
  <2>1. UNCHANGED <<active, worker>>
    BY <1>2 DEF ThrPoolWait, ClientSection, WaitLoop, DestroyDrain, DestroyBusy, FreePool,
                SpuriousClient
  <2>. QED BY <2>1 DEF ActiveExact, Busy
<1>3. ASSUME NEW c \in Clients, ThrPoolDestroy(c) PROVE ActiveExact'
  BY <1>0, <1>3 DEF ThrPoolDestroy, WakeWorkers, ActiveExact, Busy, Asleep
<1>4. ASSUME NEW w \in Workers, WorkerSection(w) PROVE ActiveExact'
  <2>1. CASE TakeJob(w)
    BY <1>0, <2>1 DEF TakeJob, ActiveExact, Busy
  <2>2. CASE WaitForWork(w)
    BY <1>0, <2>2 DEF WaitForWork, Unlinked, ActiveExact, Busy
  <2>3. CASE Retire(w)
    BY <1>0, <2>3 DEF Retire, Unlinked, ActiveExact, Busy
  <2>4. CASE QuitOnDestroy(w)
    BY <1>0, <2>4 DEF QuitOnDestroy, Unlinked, ActiveExact, Busy
  <2>5. CASE JobExit(w)
    <3>1. CASE worker' = [worker EXCEPT ![w] = "none"]
      BY <1>0, <2>5, <3>1 DEF JobExit, Unlinked, ActiveExact, Busy
    <3>2. CASE \E v \in Workers \ Live :
                 worker' = [[worker EXCEPT ![w] = "none"] EXCEPT ![v] = "start"]
      BY <1>0, <2>5, <3>2 DEF JobExit, Unlinked, ActiveExact, Busy, Live
    <3>. QED BY <2>5, <3>1, <3>2 DEF JobExit
  <2>. QED BY <1>4, <2>1, <2>2, <2>3, <2>4, <2>5 DEF WorkerSection
<1>5. ASSUME NEW w \in Workers,
             FuncReturns(w) \/ FuncExits(w) \/ LingerExpires(w) \/ SpuriousWorker(w)
      PROVE  ActiveExact'
  BY <1>0, <1>5 DEF FuncReturns, FuncExits, LingerExpires, SpuriousWorker, Asleep, ActiveExact, Busy
<1>6. CASE UNCHANGED vars
  BY <1>6 DEF vars, ActiveExact, Busy
<1>. QED BY <1>1, <1>2, <1>3, <1>4, <1>5, <1>6 DEF Next, Terminated

\* Nobody waits in a pool that is being destroyed, and its destroyer is alone.
InWait == {"waitCall", "wait", "waitWoken"}
InDestroy == {"drain", "drainWoken", "busy", "busyWoken", "unlink", "gone"}

DestroyerAlone ==
  \A c \in Clients :
    /\ client[c] \in InWait => Open
    /\ client[c] \in InDestroy => ~Open /\ \A d \in Clients : d # c => client[d] = "out"

\* How a step of a worker may move the clients: some of the sleepers wake up.
WokenUp ==
  \A c \in Clients :
    \/ client'[c] = client[c]
    \/ client[c] = "wait" /\ client'[c] = "waitWoken"
    \/ client[c] = "drain" /\ client'[c] = "drainWoken"
    \/ client[c] = "busy" /\ client'[c] = "busyWoken"

LEMMA WorkersOnlyWake ==
  ASSUME TypeOK, NEW w \in Workers,
         \/ WorkerSection(w) \/ FuncReturns(w) \/ FuncExits(w)
         \/ LingerExpires(w) \/ SpuriousWorker(w)
  PROVE  WokenUp /\ (Open' <=> Open)
<1>0. client \in [Clients -> ClientStates]
  BY DEF TypeOK
<1>1. CASE WaitForWork(w)
  BY <1>0, <1>1 DEF WaitForWork, NotifyWaiters, WakeWaitcv, WokenUp, Open
<1>2. CASE Retire(w)
  BY <1>0, <1>2 DEF Retire, NotifyWaiters, WakeWaitcv, WokenUp, Open
<1>3. CASE QuitOnDestroy(w)
  BY <1>0, <1>3 DEF QuitOnDestroy, LastOneOut, WakeWaitcv, WakeBusycv, WokenUp, Open
<1>4. CASE JobExit(w)
  BY <1>0, <1>4 DEF JobExit, LastOneOut, WakeWaitcv, WakeBusycv, WokenUp, Open
<1>5. CASE TakeJob(w) \/ FuncReturns(w) \/ FuncExits(w) \/ LingerExpires(w) \/ SpuriousWorker(w)
  BY <1>5 DEF TakeJob, FuncReturns, FuncExits, LingerExpires, SpuriousWorker, WokenUp, Open
<1>. QED BY <1>1, <1>2, <1>3, <1>4, <1>5 DEF WorkerSection

LEMMA NextDestroyerAlone ==
  Counted /\ DestroyerAlone /\ [Next]_vars => DestroyerAlone'
<1>. SUFFICES ASSUME Counted, DestroyerAlone, [Next]_vars PROVE DestroyerAlone'
  OBVIOUS
<1>0. TypeOK /\ client \in [Clients -> ClientStates]
  BY DEF Counted, TypeOK
<1>1. ASSUME NEW c \in Clients, NEW j \in Jobs, ThrPoolQueue(c, j) PROVE DestroyerAlone'
  BY <1>1 DEF ThrPoolQueue, DestroyerAlone, Open
<1>2. ASSUME NEW c \in Clients, ThrPoolWait(c) PROVE DestroyerAlone'
  BY <1>0, <1>2 DEF ThrPoolWait, DestroyerAlone, Open, InWait, InDestroy
<1>3. ASSUME NEW c \in Clients, WaitLoop(c) PROVE DestroyerAlone'
  BY <1>0, <1>3 DEF WaitLoop, DestroyerAlone, Open, InWait, InDestroy
<1>4. ASSUME NEW c \in Clients, ThrPoolDestroy(c) PROVE DestroyerAlone'
  BY <1>0, <1>4 DEF ThrPoolDestroy, DrainLoop, BusyLoop, DestroyerAlone, Open, InWait, InDestroy
<1>5. ASSUME NEW c \in Clients, DestroyDrain(c) \/ DestroyBusy(c) \/ FreePool(c)
      PROVE  DestroyerAlone'
  BY <1>0, <1>5 DEF DestroyDrain, DestroyBusy, FreePool, DrainLoop, BusyLoop, DestroyerAlone,
                    Open, InWait, InDestroy
<1>6. ASSUME NEW c \in Clients, SpuriousClient(c) PROVE DestroyerAlone'
  BY <1>0, <1>6 DEF SpuriousClient, WakeBusycv, WakeWaitcv, DestroyerAlone, Open, InWait, InDestroy
<1>7. ASSUME NEW w \in Workers,
             \/ WorkerSection(w) \/ FuncReturns(w) \/ FuncExits(w)
             \/ LingerExpires(w) \/ SpuriousWorker(w)
      PROVE  DestroyerAlone'
  <2>1. WokenUp /\ (Open' <=> Open)
    BY <1>0, <1>7, WorkersOnlyWake
  <2>. QED BY <2>1 DEF WokenUp, DestroyerAlone, InWait, InDestroy
<1>8. CASE UNCHANGED vars
  BY <1>8 DEF vars, DestroyerAlone, Open
<1>. QED BY <1>1, <1>2, <1>3, <1>4, <1>5, <1>6, <1>7, <1>8
         DEF Next, Terminated, ClientSection

-----------------------------------------------------------------------------
(***************************************************************************)
(* No wakeup of waiters is lost.  A worker that empties the active list    *)
(* while the queue is empty finds POOL_WAIT up if anyone sleeps, because   *)
(* only notify_waiters lowers it and then nobody is left asleep.           *)
(***************************************************************************)
WaitersHeeded ==
  \A c \in Clients :
    client[c] \in {"wait", "drain"} => "WAIT" \in flags /\ (head # <<>> \/ active # {})

Waiters == Counted /\ ActiveExact /\ DestroyerAlone /\ WaitersHeeded

LEMMA InitWaiters == Init => Waiters
<1>. SUFFICES ASSUME Init PROVE Waiters
  OBVIOUS
<1>1. DestroyerAlone /\ WaitersHeeded
  BY DEF Init, DestroyerAlone, WaitersHeeded, InWait, InDestroy
<1>. QED BY <1>1, InitCounted, InitActive DEF Waiters

LEMMA NextHeeded == Waiters /\ [Next]_vars => WaitersHeeded'
<1>. SUFFICES ASSUME Waiters, [Next]_vars PROVE WaitersHeeded'
  OBVIOUS
<1>0. /\ TypeOK /\ client \in [Clients -> ClientStates] /\ head \in Seq(Jobs)
      /\ active = Busy /\ WaitersHeeded /\ DestroyerAlone
  BY DEF Waiters, Counted, TypeOK, ActiveExact
<1>1. ASSUME NEW c \in Clients, NEW j \in Jobs, ThrPoolQueue(c, j) PROVE WaitersHeeded'
  <2>1. head' # <<>>
    BY <1>0, <1>1 DEF ThrPoolQueue
  <2>. QED BY <1>0, <1>1, <2>1 DEF ThrPoolQueue, WaitersHeeded
<1>2. ASSUME NEW c \in Clients,
             ThrPoolWait(c) \/ WaitLoop(c) \/ DestroyDrain(c) \/ DestroyBusy(c) \/ SpuriousClient(c)
      PROVE  WaitersHeeded'
  BY <1>0, <1>2 DEF ThrPoolWait, WaitLoop, Pending, DestroyDrain, DrainLoop, BusyLoop, DestroyBusy,
                    SpuriousClient, WakeBusycv, WakeWaitcv, WaitersHeeded
<1>3. ASSUME NEW c \in Clients, FreePool(c) PROVE WaitersHeeded'
  <2>1. client[c] = "unlink" /\ \A d \in Clients : d # c => client[d] = "out"
    BY <1>0, <1>3 DEF FreePool, DestroyerAlone, InDestroy
  <2>2. \A d \in Clients : client'[d] \notin {"wait", "drain"}
    BY <1>0, <1>3, <2>1 DEF FreePool
  <2>. QED BY <2>2 DEF WaitersHeeded
<1>4. ASSUME NEW c \in Clients, ThrPoolDestroy(c) PROVE WaitersHeeded'
  BY <1>0, <1>4 DEF ThrPoolDestroy, DrainLoop, BusyLoop, WaitersHeeded
<1>5. ASSUME NEW w \in Workers, TakeJob(w) PROVE WaitersHeeded'
  BY <1>0, <1>5 DEF TakeJob, WaitersHeeded
<1>6. ASSUME NEW w \in Workers, WaitForWork(w) PROVE WaitersHeeded'
  <2>1. CASE worker[w] = "woken"
    BY <1>0, <1>6, <2>1 DEF WaitForWork, Unlinked, Busy, WaitersHeeded
  <2>2. CASE NotifyWaiters(Unlinked(w))
    BY <1>0, <1>6, <2>2 DEF WaitForWork, NotifyWaiters, NotifyCond, WakeWaitcv, Unlinked,
                            WaitersHeeded
  <2>. QED BY <1>6, <2>1, <2>2 DEF WaitForWork
<1>7. ASSUME NEW w \in Workers, Retire(w) PROVE WaitersHeeded'
  <2>1. CASE EntersLoop(w) /\ NotifyWaiters(Unlinked(w))
    BY <1>0, <1>7, <2>1 DEF Retire, NotifyWaiters, NotifyCond, WakeWaitcv, Unlinked,
                            WaitersHeeded
  <2>2. CASE ~EntersLoop(w) /\ UNCHANGED <<flags, client>>
    BY <1>0, <1>7, <2>2 DEF Retire, EntersLoop, Ready, Unlinked, Busy, WaitersHeeded
  <2>. QED BY <1>7, <2>1, <2>2 DEF Retire
<1>8. ASSUME NEW w \in Workers, QuitOnDestroy(w) PROVE WaitersHeeded'
  <2>1. CASE EntersLoop(w)
    BY <1>0, <1>8, <2>1 DEF QuitOnDestroy, LastOneOut, NotifyCond, WakeWaitcv, WakeBusycv,
                            Unlinked, WaitersHeeded
  <2>2. CASE ~EntersLoop(w)
    <3>1. active' = active
      BY <1>0, <1>8, <2>2 DEF QuitOnDestroy, EntersLoop, Ready, Unlinked, Busy
    <3>. QED BY <1>0, <1>8, <2>2, <3>1 DEF QuitOnDestroy, LastOneOut, WakeBusycv, WaitersHeeded
  <2>. QED BY <2>1, <2>2
<1>9. ASSUME NEW w \in Workers, JobExit(w) PROVE WaitersHeeded'
  BY <1>0, <1>9 DEF JobExit, LastOneOut, NotifyCond, WakeWaitcv, WakeBusycv, Unlinked,
                    WaitersHeeded
<1>10. ASSUME NEW w \in Workers,
              FuncReturns(w) \/ FuncExits(w) \/ LingerExpires(w) \/ SpuriousWorker(w)
       PROVE  WaitersHeeded'
  BY <1>0, <1>10 DEF FuncReturns, FuncExits, LingerExpires, SpuriousWorker, WaitersHeeded
<1>11. CASE UNCHANGED vars
  BY <1>0, <1>11 DEF vars, WaitersHeeded
<1>. QED BY <1>1, <1>2, <1>3, <1>4, <1>5, <1>6, <1>7, <1>8, <1>9, <1>10, <1>11
         DEF Next, Terminated, WorkerSection, ClientSection

LEMMA WaitersInductive == Spec => []Waiters
<1>1. Waiters /\ [Next]_vars => Waiters'
  BY NextCounted, NextActive, NextDestroyerAlone, NextHeeded DEF Waiters
<1>. QED BY <1>1, InitWaiters, PTL DEF Spec

-----------------------------------------------------------------------------
(***************************************************************************)
(* No wakeup of workers is lost.  A worker goes to sleep only when the     *)
(* queue is empty; afterwards every job that is queued while somebody      *)
(* sleeps turns one sleeper into a worker that is about to look.           *)
(***************************************************************************)
Wakeups == Counted /\ SleepersNotNeeded

\* The number of workers about to look at the queue, after one of them moved.
LEMMA ReadyRecount ==
  ASSUME TypeOK, NEW w \in Workers, NEW s \in WorkerStates,
         worker' = [worker EXCEPT ![w] = s]
  PROVE  /\ Cardinality(Ready) \in Nat /\ Cardinality(Ready') \in Nat
         /\ Asleep' \ {w} = Asleep \ {w}
         /\ w \in Asleep' <=> s \in {"waiting", "lingering"}
         /\ s \in {"start", "woken", "timedout", "returned"} =>
              IF w \in Ready THEN Cardinality(Ready') = Cardinality(Ready)
                             ELSE Cardinality(Ready') = Cardinality(Ready) + 1
         /\ s \notin {"start", "woken", "timedout", "returned"} =>
              IF w \in Ready THEN Cardinality(Ready') = Cardinality(Ready) - 1
                             ELSE Cardinality(Ready') = Cardinality(Ready)
<1>1. Ready \in SUBSET Workers /\ Ready' \in SUBSET Workers
  BY DEF Ready
<1>2. /\ Ready' \ {w} = Ready \ {w}
      /\ w \in Ready' <=> s \in {"start", "woken", "timedout", "returned"}
      /\ Asleep' \ {w} = Asleep \ {w}
      /\ w \in Asleep' <=> s \in {"waiting", "lingering"}
  BY Move
<1>3. /\ Cardinality(Ready) \in Nat /\ Cardinality(Ready') \in Nat
      /\ w \in Ready' /\ w \notin Ready => Cardinality(Ready') = Cardinality(Ready) + 1
      /\ w \in Ready /\ w \notin Ready' => Cardinality(Ready') = Cardinality(Ready) - 1
      /\ (w \in Ready <=> w \in Ready') => Cardinality(Ready') = Cardinality(Ready)
  BY <1>1, <1>2, CountMove
<1>. QED BY <1>2, <1>3

\* With pool_idle at 0 no worker sleeps.
LEMMA NoneIdle == ASSUME ThreadAccounting, idle = 0 PROVE Asleep = {}
<1>1. Idlers \in SUBSET Workers /\ Asleep \subseteq Idlers
  BY DEF Idlers, Asleep
<1>2. IsFiniteSet(Idlers)
  BY <1>1, PoolAssumption, FS_Subset DEF PoolAssumption
<1>3. Idlers = {}
  BY <1>2, FS_EmptySet DEF ThreadAccounting
<1>. QED BY <1>1, <1>3

LEMMA ReadyCount == Cardinality(Ready) \in Nat /\ Cardinality(Ready') \in Nat
<1>1. Ready \in SUBSET Workers /\ Ready' \in SUBSET Workers
  BY DEF Ready
<1>. QED BY <1>1, PoolAssumption, FS_Subset, FS_CardinalityType DEF PoolAssumption

LEMMA QueueWakeups ==
  ASSUME Wakeups, NEW c \in Clients, NEW j \in Jobs, ThrPoolQueue(c, j)
  PROVE  SleepersNotNeeded'
<1>0. TypeOK /\ ThreadAccounting /\ SleepersNotNeeded /\ Open
      /\ head \in Seq(Jobs) /\ idle \in Nat
  BY DEF Wakeups, Counted, TypeOK, ThrPoolQueue
<1>1. CASE Asleep = {} /\ UNCHANGED worker
  BY <1>1 DEF SleepersNotNeeded, Asleep
<1>2. CASE \E w \in Asleep : worker' = [worker EXCEPT ![w] = "woken"]
  <2>1. PICK w \in Asleep : worker' = [worker EXCEPT ![w] = "woken"]
    BY <1>2
  <2>2. w \in Workers /\ w \notin Ready /\ "woken" \in WorkerStates /\ Asleep # {}
    BY <1>0 DEF Asleep, Ready, WorkerStates
  <2>3. Cardinality(Ready) \in Nat /\ Cardinality(Ready') = Cardinality(Ready) + 1
    BY <1>0, <2>1, <2>2, ReadyRecount
  <2>4. Len(head') = Len(head) + 1 /\ Len(head) \in Nat
    BY <1>0 DEF ThrPoolQueue
  <2>5. Len(head) <= Cardinality(Ready)
    BY <1>0, <2>2 DEF SleepersNotNeeded
  <2>. QED BY <2>3, <2>4, <2>5 DEF SleepersNotNeeded
<1>3. CASE ~IdleWorker /\ \E w \in Workers \ Live : worker' = [worker EXCEPT ![w] = "start"]
  <2>1. PICK w \in Workers \ Live : worker' = [worker EXCEPT ![w] = "start"]
    BY <1>3
  <2>2. w \in Workers /\ "start" \in WorkerStates
    BY DEF WorkerStates
  <2>3. Asleep = {}
    BY <1>0, <1>3, NoneIdle DEF IdleWorker
  <2>4. Asleep' = {}
    <3>1. Asleep' \ {w} = Asleep \ {w} /\ (w \in Asleep' <=> "start" \in {"waiting", "lingering"})
      BY <1>0, <2>1, <2>2, ReadyRecount
    <3>. QED BY <2>3, <3>1
  <2>. QED BY <2>4 DEF SleepersNotNeeded
<1>4. CASE ~IdleWorker /\ UNCHANGED worker
  <2>1. Asleep = {}
    BY <1>0, <1>4, NoneIdle DEF IdleWorker
  <2>. QED BY <1>4, <2>1 DEF SleepersNotNeeded, Asleep
<1>. QED BY <1>1, <1>2, <1>3, <1>4 DEF ThrPoolQueue

LEMMA WorkerWakeups ==
  ASSUME Wakeups, NEW w \in Workers,
         \/ WorkerSection(w) \/ FuncReturns(w) \/ FuncExits(w)
         \/ LingerExpires(w) \/ SpuriousWorker(w)
  PROVE  SleepersNotNeeded'
<1>0. TypeOK /\ SleepersNotNeeded /\ head \in Seq(Jobs)
  BY DEF Wakeups, Counted, TypeOK
<1>1. CASE TakeJob(w)
  <2>1. /\ w \in Ready /\ head # <<>> /\ "run" \in WorkerStates
        /\ worker' = [worker EXCEPT ![w] = "run"] /\ head' = Tail(head) /\ flags' = flags
    BY <1>1 DEF TakeJob, MayTake, WorkerStates
  <2>2. /\ Cardinality(Ready) \in Nat /\ Cardinality(Ready') = Cardinality(Ready) - 1
        /\ Asleep' = Asleep
    BY <1>0, <2>1, ReadyRecount DEF Asleep, Ready
  <2>3. Len(head') = Len(head) - 1 /\ Len(head) \in Nat
    BY <1>0, <2>1
  <2>. QED BY <1>0, <2>1, <2>2, <2>3 DEF SleepersNotNeeded, Open
<1>2. CASE WaitForWork(w) \/ Retire(w)
  <2>1. head' = <<>>
    BY <1>2 DEF WaitForWork, Retire
  <2>2. Len(head') = 0
    BY <2>1
  <2>. QED BY <2>2, ReadyCount DEF SleepersNotNeeded
<1>3. CASE QuitOnDestroy(w)
  <2>1. ~Open'
    BY <1>0, <1>3, WorkersOnlyWake DEF QuitOnDestroy, WorkerSection
  <2>. QED BY <2>1 DEF SleepersNotNeeded
<1>4. CASE JobExit(w)
  <2>1. /\ w \notin Ready /\ "none" \in WorkerStates /\ "start" \in WorkerStates
        /\ head' = head /\ (Open' <=> Open) /\ worker[w] = "exiting"
        /\ worker \in [Workers -> WorkerStates]
    BY <1>0, <1>4, WorkersOnlyWake DEF JobExit, WorkerSection, Ready, WorkerStates, TypeOK
  <2>2. CASE worker' = [worker EXCEPT ![w] = "none"]
    <3>1. Cardinality(Ready') = Cardinality(Ready) /\ Asleep' = Asleep
      BY <1>0, <2>1, <2>2, ReadyRecount DEF Asleep
    <3>. QED BY <1>0, <2>1, <3>1 DEF SleepersNotNeeded
  <2>3. CASE \E v \in Workers \ Live :
               worker' = [[worker EXCEPT ![w] = "none"] EXCEPT ![v] = "start"]
    <3>1. PICK v \in Workers \ Live :
                 worker' = [[worker EXCEPT ![w] = "none"] EXCEPT ![v] = "start"]
      BY <2>3
    <3>2. v \in Workers /\ worker[v] = "none" /\ v # w
      BY <2>1 DEF Live
    <3>3. /\ worker'[w] = "none" /\ worker'[v] = "start"
          /\ \A u \in Workers : u # w /\ u # v => worker'[u] = worker[u]
      BY <2>1, <3>1, <3>2
    <3>4. Asleep' = Asleep
      BY <2>1, <3>2, <3>3 DEF Asleep
    <3>5. Ready' \ {v} = Ready \ {v} /\ v \in Ready' /\ v \notin Ready
      BY <2>1, <3>2, <3>3 DEF Ready
    <3>6. Ready \in SUBSET Workers /\ Ready' \in SUBSET Workers
      BY DEF Ready
    <3>7. Cardinality(Ready') = Cardinality(Ready) + 1 /\ Cardinality(Ready) \in Nat
      BY <3>2, <3>5, <3>6, CountMove
    <3>8. Len(head) \in Nat
      BY <1>0
    <3>. QED BY <1>0, <2>1, <3>4, <3>7, <3>8 DEF SleepersNotNeeded
  <2>. QED BY <1>4, <2>2, <2>3 DEF JobExit
<1>5. CASE FuncReturns(w) \/ FuncExits(w) \/ LingerExpires(w) \/ SpuriousWorker(w)
  <2>1. PICK s \in {"returned", "exiting", "timedout", "woken"} :
          /\ worker' = [worker EXCEPT ![w] = s] /\ w \notin Ready
          /\ head' = head /\ flags' = flags
    BY <1>5 DEF FuncReturns, FuncExits, LingerExpires, SpuriousWorker, Asleep, Ready
  <2>2. s \in WorkerStates
    BY DEF WorkerStates
  <2>3. /\ Cardinality(Ready') >= Cardinality(Ready) /\ Cardinality(Ready) \in Nat
        /\ Cardinality(Ready') \in Nat /\ Asleep' \subseteq Asleep
    <3>1. Asleep' \ {w} = Asleep \ {w} /\ (w \in Asleep' <=> s \in {"waiting", "lingering"})
      BY <1>0, <2>1, <2>2, ReadyRecount
    <3>2. Cardinality(Ready') = Cardinality(Ready) + 1 \/ Cardinality(Ready') = Cardinality(Ready)
      BY <1>0, <2>1, <2>2, ReadyRecount
    <3>. QED BY <2>1, <3>1, <3>2, ReadyCount
  <2>4. Len(head) \in Nat
    BY <1>0
  <2>. QED BY <1>0, <2>1, <2>3, <2>4 DEF SleepersNotNeeded, Open
<1>. QED BY <1>1, <1>2, <1>3, <1>4, <1>5 DEF WorkerSection

LEMMA NextWakeups == Wakeups /\ [Next]_vars => SleepersNotNeeded'
<1>. SUFFICES ASSUME Wakeups, [Next]_vars PROVE SleepersNotNeeded'
  OBVIOUS
<1>1. ASSUME NEW c \in Clients, NEW j \in Jobs, ThrPoolQueue(c, j) PROVE SleepersNotNeeded'
  BY <1>1, QueueWakeups
<1>2. ASSUME NEW c \in Clients,
             ThrPoolWait(c) \/ WaitLoop(c) \/ DestroyDrain(c) \/ DestroyBusy(c) \/ SpuriousClient(c)
      PROVE  SleepersNotNeeded'
  <2>1. UNCHANGED <<head, worker>> /\ (Open' <=> Open)
    BY <1>2 DEF ThrPoolWait, WaitLoop, DestroyDrain, DrainLoop, DestroyBusy, SpuriousClient, Open
  <2>. QED BY <2>1 DEF Wakeups, SleepersNotNeeded, Asleep, Ready
<1>3. ASSUME NEW c \in Clients, FreePool(c) PROVE SleepersNotNeeded'
  <2>1. head' = <<>>
    BY <1>3 DEF FreePool
  <2>2. Len(head') = 0
    BY <2>1
  <2>. QED BY <2>2, ReadyCount DEF SleepersNotNeeded
<1>4. ASSUME NEW c \in Clients, ThrPoolDestroy(c) PROVE SleepersNotNeeded'
  <2>1. ~Open'
    BY <1>4 DEF ThrPoolDestroy, DrainLoop, Open
  <2>. QED BY <2>1 DEF SleepersNotNeeded
<1>5. ASSUME NEW w \in Workers,
             \/ WorkerSection(w) \/ FuncReturns(w) \/ FuncExits(w)
             \/ LingerExpires(w) \/ SpuriousWorker(w)
      PROVE  SleepersNotNeeded'
  BY <1>5, WorkerWakeups
<1>6. CASE UNCHANGED vars
  BY <1>6 DEF vars, Wakeups, SleepersNotNeeded, Asleep, Ready, Open
<1>. QED BY <1>1, <1>2, <1>3, <1>4, <1>5, <1>6 DEF Next, Terminated, ClientSection

\* While a worker sleeps on pool_workcv, each queued job has an awake worker of
\* its own about to look for it: neither a signal that found nobody asleep nor
\* a timeout racing a signal leaves a job behind.
THEOREM NoSleeperNeeded == Spec => []SleepersNotNeeded
<1>1. Init => Wakeups
  <2>1. Init => Asleep = {}
    BY DEF Init, Asleep
  <2>. QED BY <2>1, InitCounted DEF Wakeups, SleepersNotNeeded
<1>2. Wakeups /\ [Next]_vars => Wakeups'
  BY NextCounted, NextWakeups DEF Wakeups
<1>3. Wakeups => SleepersNotNeeded
  BY DEF Wakeups
<1>. QED BY <1>1, <1>2, <1>3, PTL DEF Spec

-----------------------------------------------------------------------------
(***************************************************************************)
(* No job is stranded, as long as pthread_create works.                    *)
(***************************************************************************)
\* A pool with queued jobs has workers: the last one leaves a non-empty queue
\* only in worker_cleanup, which creates its successor.
Manned == Open /\ head # <<>> /\ ~CreateMayFail => nthreads > 0

LEMMA NextManned == Counted /\ Manned /\ [Next]_vars => Manned'
<1>. SUFFICES ASSUME Counted, Manned, [Next]_vars PROVE Manned'
  OBVIOUS
<1>0. /\ TypeOK /\ nthreads \in Nat /\ idle \in Nat /\ nthreads = Cardinality(Live)
      /\ idle = Cardinality(Idlers) /\ nthreads <= Maximum /\ Maximum \in Nat \ {0}
  BY PoolAssumption DEF Counted, TypeOK, ThreadAccounting, PoolAssumption
<1>1. ASSUME NEW c \in Clients, NEW j \in Jobs, ThrPoolQueue(c, j) PROVE Manned'
  <2>1. CASE IdleWorker /\ UNCHANGED nthreads
    <3>1. Idlers \in SUBSET Workers /\ Live \in SUBSET Workers /\ Idlers \subseteq Live
      BY DEF Idlers, Live
    <3>2. IsFiniteSet(Live)
      BY <3>1, PoolAssumption, FS_Subset DEF PoolAssumption
    <3>3. Cardinality(Idlers) <= Cardinality(Live)
      BY <3>1, <3>2, FS_Subset
    <3>. QED BY <1>0, <2>1, <3>3 DEF IdleWorker, Manned
  <2>2. CASE nthreads' = nthreads + 1
    BY <1>0, <2>2 DEF Manned
  <2>3. CASE ~IdleWorker /\ (nthreads >= Maximum \/ CreateMayFail) /\ UNCHANGED nthreads
    BY <1>0, <2>3 DEF Manned
  <2>. QED BY <1>1, <2>1, <2>2, <2>3 DEF ThrPoolQueue
<1>2. ASSUME NEW c \in Clients,
             ThrPoolWait(c) \/ ClientSection(c) \/ ThrPoolDestroy(c) \/ SpuriousClient(c)
      PROVE  Manned'
  <2>1. (head' = head \/ head' = <<>>) /\ nthreads' = nthreads /\ (Open' => Open)
    BY <1>2 DEF ThrPoolWait, ClientSection, WaitLoop, DestroyDrain, DestroyBusy, FreePool,
                ThrPoolDestroy, DrainLoop, SpuriousClient, Open
  <2>. QED BY <2>1 DEF Manned
<1>3. ASSUME NEW w \in Workers,
             \/ WorkerSection(w) \/ FuncReturns(w) \/ FuncExits(w)
             \/ LingerExpires(w) \/ SpuriousWorker(w)
      PROVE  Manned'
  <2>0. Open' <=> Open
    BY <1>0, <1>3, WorkersOnlyWake
  <2>1. CASE TakeJob(w)
    BY <2>0, <2>1 DEF TakeJob, MayTake, Manned
  <2>2. CASE WaitForWork(w) \/ Retire(w)
    BY <2>2 DEF WaitForWork, Retire, Manned
  <2>3. CASE QuitOnDestroy(w)
    BY <2>0, <2>3 DEF QuitOnDestroy, Manned
  <2>4. CASE JobExit(w)
    BY <1>0, <2>0, <2>4 DEF JobExit, NeedsWorker, Manned
  <2>5. CASE FuncReturns(w) \/ FuncExits(w) \/ LingerExpires(w) \/ SpuriousWorker(w)
    BY <2>0, <2>5 DEF FuncReturns, FuncExits, LingerExpires, SpuriousWorker, Manned
  <2>. QED BY <1>3, <2>1, <2>2, <2>3, <2>4, <2>5 DEF WorkerSection
<1>4. CASE UNCHANGED vars
  BY <1>4 DEF vars, Manned, Open
<1>. QED BY <1>1, <1>2, <1>3, <1>4 DEF Next, Terminated

LEMMA MannedInductive == Spec => [](Wakeups /\ Manned)
<1>1. Init => Wakeups /\ Manned
  <2>1. Init => Asleep = {} /\ head = <<>>
    BY DEF Init, Asleep
  <2>. QED BY <2>1, InitCounted DEF Wakeups, SleepersNotNeeded, Manned
<1>2. Wakeups /\ Manned /\ [Next]_vars => (Wakeups /\ Manned)'
  BY NextCounted, NextWakeups, NextManned DEF Wakeups
<1>. QED BY <1>1, <1>2, PTL DEF Spec

\* An open pool with jobs in the queue and a worker has one that is at work or
\* awake.
LEMMA SomebodyAwake ==
  ASSUME Wakeups, Open, head # <<>>, Live # {}
  PROVE  Ready \union Busy # {}
<1>. SUFFICES ASSUME Ready = {}, Busy = {} PROVE FALSE
  OBVIOUS
<1>1. Asleep # {} /\ head \in Seq(Jobs)
  BY DEF Wakeups, Counted, TypeOK, WorkerStates, Live, Ready, Busy, Asleep
<1>2. Len(head) <= 0
  BY <1>1, FS_EmptySet DEF Wakeups, SleepersNotNeeded
<1>. QED BY <1>1, <1>2

LEMMA MannedLive == ASSUME Wakeups, nthreads > 0 PROVE Live # {}
<1>1. nthreads = Cardinality(Live) /\ Cardinality({}) = 0
  BY FS_EmptySet DEF Wakeups, Counted, ThreadAccounting
<1>. SUFFICES ASSUME Live = {} PROVE FALSE
  OBVIOUS
<1>2. Cardinality(Live) = 0
  BY <1>1
<1>. QED BY <1>1, <1>2

\* If pthread_create never fails, a pool with queued jobs always has a worker
\* that is awake.
THEOREM JobsNotStranded == Spec => []NoJobStranded
<1>1. Wakeups /\ Manned => NoJobStranded
  <2>. SUFFICES ASSUME Wakeups, Manned, Open, head # <<>>, ~CreateMayFail
                PROVE  Live \ Asleep # {}
    BY DEF NoJobStranded
  <2>1. Ready \union Busy # {}
    BY SomebodyAwake, MannedLive DEF Manned
  <2>. QED BY <2>1 DEF Live, Asleep, Ready, Busy
<1>. QED BY <1>1, MannedInductive, PTL

\* A pool that is destroyed only when its queue is empty has no jobs after that.
NothingLeft == DrainFirst /\ ~Open => head = <<>>

LEMMA NextNothingLeft == Counted /\ NothingLeft /\ [Next]_vars => NothingLeft'
<1>. SUFFICES ASSUME Counted, NothingLeft, [Next]_vars PROVE NothingLeft'
  OBVIOUS
<1>0. TypeOK
  BY DEF Counted
<1>1. CASE \E c \in Clients, j \in Jobs : ThrPoolQueue(c, j)
  BY <1>1 DEF ThrPoolQueue, NothingLeft, Open
<1>2. ASSUME NEW c \in Clients,
             ThrPoolWait(c) \/ ClientSection(c) \/ ThrPoolDestroy(c) \/ SpuriousClient(c)
      PROVE  NothingLeft'
  <2>1. (head' = head \/ head' = <<>>) /\ ((Open' <=> Open) \/ (DrainFirst => head = <<>>))
    BY <1>2 DEF ThrPoolWait, ClientSection, WaitLoop, DestroyDrain, DestroyBusy, FreePool,
                ThrPoolDestroy, DrainLoop, SpuriousClient, Open
  <2>. QED BY <2>1 DEF NothingLeft
<1>3. ASSUME NEW w \in Workers,
             \/ WorkerSection(w) \/ FuncReturns(w) \/ FuncExits(w)
             \/ LingerExpires(w) \/ SpuriousWorker(w)
      PROVE  NothingLeft'
  <2>1. (Open' <=> Open) /\ (~Open => head' = head)
    <3>1. ~Open => head' = head
      BY <1>3 DEF WorkerSection, TakeJob, MayTake, WaitForWork, Retire, QuitOnDestroy, JobExit,
                  FuncReturns, FuncExits, LingerExpires, SpuriousWorker
    <3>. QED BY <1>0, <1>3, <3>1, WorkersOnlyWake
  <2>. QED BY <2>1 DEF NothingLeft
<1>4. CASE UNCHANGED vars
  BY <1>4 DEF vars, NothingLeft, Open
<1>. QED BY <1>1, <1>2, <1>3, <1>4 DEF Next, Terminated

\* A client asleep in thr_pool_wait or in the first loop of thr_pool_destroy has
\* POOL_WAIT up, and a worker is on the way to the test of the flag, unless the
\* jobs in the queue are abandoned: no worker could be created for them, or the
\* pool was destroyed before them.
THEOREM WaitersRemembered == Spec => []WaiterNotForgotten
<1>1. Init => NothingLeft
  BY DEF Init, NothingLeft
<1>2. Waiters /\ NothingLeft /\ [Next]_vars => NothingLeft'
  BY NextNothingLeft DEF Waiters
<1>3. Waiters /\ NothingLeft /\ Wakeups /\ Manned => WaiterNotForgotten
  <2>. SUFFICES ASSUME Waiters, NothingLeft, Wakeups, Manned,
                       NEW c \in Clients, client[c] \in {"wait", "drain"}
                PROVE  /\ "WAIT" \in flags
                       /\ \/ active # {}
                          \/ head # <<>> /\ (Abandoned \/ (Open /\ Ready # {}))
    BY DEF WaiterNotForgotten
  <2>1. "WAIT" \in flags /\ (head # <<>> \/ active # {}) /\ active = Busy
    BY DEF Waiters, WaitersHeeded, ActiveExact
  <2>2. ASSUME active = {} PROVE Abandoned \/ (Open /\ Ready # {})
    <3>1. CASE ~Open
      BY <2>1, <2>2, <3>1 DEF Abandoned, NothingLeft
    <3>2. CASE Open /\ Live = {}
      BY <2>1, <2>2, <3>2, MannedLive DEF Abandoned, Manned
    <3>3. CASE Open /\ Live # {}
      BY <2>1, <2>2, <3>3, SomebodyAwake
    <3>. QED BY <3>1, <3>2, <3>3
  <2>. QED BY <2>1, <2>2
<1>. QED BY <1>1, <1>2, <1>3, WaitersInductive, MannedInductive, PTL DEF Spec

-----------------------------------------------------------------------------
(***************************************************************************)
(* The pool can shrink: how many workers wait without a time limit.        *)
(***************************************************************************)
Untimed == {w \in Workers : worker[w] = "waiting"}
Shrinkable == Counted /\ Cardinality(Untimed) <= Minimum

\* Fewer workers wait without a limit when none begins to.
LEMMA UntimedShrinks ==
  ASSUME Shrinkable, Untimed' \subseteq Untimed
  PROVE  Cardinality(Untimed') <= Minimum
<1>1. Untimed \in SUBSET Workers /\ Untimed' \in SUBSET Untimed
  BY DEF Untimed
<1>2. IsFiniteSet(Untimed)
  BY <1>1, PoolAssumption, FS_Subset DEF PoolAssumption
<1>3. Cardinality(Untimed') <= Cardinality(Untimed) /\ IsFiniteSet(Untimed')
  BY <1>1, <1>2, FS_Subset
<1>4. Cardinality(Untimed') \in Nat /\ Cardinality(Untimed) \in Nat
  BY <1>2, <1>3, FS_CardinalityType
<1>. QED BY <1>3, <1>4, PoolAssumption DEF Shrinkable, PoolAssumption

LEMMA NextShrinkable == Shrinkable /\ [Next]_vars => Shrinkable'
<1>. SUFFICES ASSUME Shrinkable, [Next]_vars PROVE Cardinality(Untimed') <= Minimum
  BY NextCounted DEF Shrinkable
<1>0. worker \in [Workers -> WorkerStates]
  BY DEF Shrinkable, Counted, TypeOK
<1>1. ASSUME NEW w \in Workers, WaitForWork(w) PROVE Cardinality(Untimed') <= Minimum
  <2>1. CASE AtMinimum
    <3>1. Counted' /\ nthreads' = nthreads
      BY <1>1, NextCounted, WaitForWorkCounted DEF Shrinkable, WaitForWork
    <3>2. Untimed' \in SUBSET Live' /\ Live' \in SUBSET Workers
      BY DEF Untimed, Live
    <3>3. IsFiniteSet(Live')
      BY <3>2, PoolAssumption, FS_Subset DEF PoolAssumption
    <3>4. Cardinality(Untimed') <= Cardinality(Live') /\ IsFiniteSet(Untimed')
      BY <3>2, <3>3, FS_Subset
    <3>5. Cardinality(Untimed') \in Nat /\ Cardinality(Live') \in Nat
      BY <3>3, <3>4, FS_CardinalityType
    <3>6. Cardinality(Live') <= Minimum
      BY <2>1, <3>1 DEF AtMinimum, Counted, ThreadAccounting
    <3>. QED BY <3>4, <3>5, <3>6, PoolAssumption DEF PoolAssumption
  <2>2. CASE ~AtMinimum
    <3>1. Untimed' \subseteq Untimed
      BY <1>0, <1>1, <2>2 DEF WaitForWork, Untimed
    <3>. QED BY <3>1, UntimedShrinks
  <2>. QED BY <2>1, <2>2
<1>2. ASSUME Untimed' \subseteq Untimed PROVE Cardinality(Untimed') <= Minimum
  BY <1>2, UntimedShrinks
<1>3. ASSUME NEW c \in Clients, NEW j \in Jobs, ThrPoolQueue(c, j) PROVE Untimed' \subseteq Untimed
  BY <1>0, <1>3 DEF ThrPoolQueue, Untimed
<1>4. ASSUME NEW c \in Clients, ThrPoolWait(c) \/ ClientSection(c) \/ SpuriousClient(c)
      PROVE  Untimed' \subseteq Untimed
  BY <1>4 DEF ThrPoolWait, ClientSection, WaitLoop, DestroyDrain, DestroyBusy, FreePool,
              SpuriousClient, Untimed
<1>5. ASSUME NEW c \in Clients, ThrPoolDestroy(c) PROVE Untimed' \subseteq Untimed
  BY <1>0, <1>5 DEF ThrPoolDestroy, WakeWorkers, Asleep, Untimed
<1>6. ASSUME NEW w \in Workers, TakeJob(w) \/ Retire(w) \/ QuitOnDestroy(w) \/ JobExit(w)
      PROVE  Untimed' \subseteq Untimed
  <2>1. CASE TakeJob(w) \/ Retire(w) \/ QuitOnDestroy(w)
    BY <1>0, <2>1 DEF TakeJob, Retire, QuitOnDestroy, Untimed
  <2>2. CASE JobExit(w)
    BY <1>0, <2>2 DEF JobExit, Untimed
  <2>. QED BY <1>6, <2>1, <2>2
<1>7. ASSUME NEW w \in Workers,
             FuncReturns(w) \/ FuncExits(w) \/ LingerExpires(w) \/ SpuriousWorker(w)
      PROVE  Untimed' \subseteq Untimed
  BY <1>0, <1>7 DEF FuncReturns, FuncExits, LingerExpires, SpuriousWorker, Untimed
<1>8. CASE UNCHANGED vars
  BY <1>2, <1>8 DEF vars, Untimed
<1>. QED BY <1>1, <1>2, <1>3, <1>4, <1>5, <1>6, <1>7, <1>8 DEF Next, Terminated, WorkerSection

\* At most pool_minimum workers wait for ever; all others leave when their time
\* is over, so the pool can always shrink to its minimum.
THEOREM CanShrink == Spec => []UntimedWithinMinimum
<1>1. Init => Shrinkable
  <2>1. Init => Untimed = {}
    BY DEF Init, Untimed
  <2>2. Cardinality({}) = 0
    BY FS_EmptySet
  <2>. QED BY <2>1, <2>2, InitCounted, PoolAssumption DEF Shrinkable, PoolAssumption
<1>2. Shrinkable => UntimedWithinMinimum
  BY DEF Shrinkable, Untimed, UntimedWithinMinimum
<1>. QED BY <1>1, <1>2, NextShrinkable, PTL DEF Spec

-----------------------------------------------------------------------------
(***************************************************************************)
(* The memory of the pool.                                                 *)
(***************************************************************************)
\* A destroyer past its loops has seen the last worker leave, and none can enter.
FreedAlone ==
  /\ \A c \in Clients : client[c] \in {"unlink", "gone"} => nthreads = 0
  /\ freed => \E c \in Clients : client[c] = "gone"

Memory == Counted /\ DestroyerAlone /\ FreedAlone

LEMMA NextFreedAlone == Memory /\ [Next]_vars => FreedAlone'
<1>. SUFFICES ASSUME Memory, [Next]_vars PROVE FreedAlone'
  OBVIOUS
<1>0. /\ TypeOK /\ client \in [Clients -> ClientStates] /\ nthreads \in Nat
      /\ DestroyerAlone /\ FreedAlone
  BY DEF Memory, Counted, TypeOK
<1>1. ASSUME NEW c \in Clients, NEW j \in Jobs, ThrPoolQueue(c, j) PROVE FreedAlone'
  <2>1. \A d \in Clients : client[d] \notin {"unlink", "gone"}
    BY <1>0, <1>1 DEF ThrPoolQueue, DestroyerAlone, InDestroy
  <2>. QED BY <1>0, <1>1, <2>1 DEF ThrPoolQueue, FreedAlone
<1>2. ASSUME NEW c \in Clients,
             ThrPoolWait(c) \/ ClientSection(c) \/ SpuriousClient(c)
      PROVE  FreedAlone'
  BY <1>0, <1>2 DEF ThrPoolWait, ClientSection, WaitLoop, DestroyDrain, DestroyBusy, FreePool,
                    DrainLoop, BusyLoop, SpuriousClient, WakeBusycv, WakeWaitcv, FreedAlone
<1>3. ASSUME NEW c \in Clients, ThrPoolDestroy(c) PROVE FreedAlone'
  BY <1>0, <1>3 DEF ThrPoolDestroy, DrainLoop, BusyLoop, FreedAlone
<1>4. ASSUME NEW w \in Workers,
             \/ WorkerSection(w) \/ FuncReturns(w) \/ FuncExits(w)
             \/ LingerExpires(w) \/ SpuriousWorker(w)
      PROVE  FreedAlone'
  <2>1. WokenUp /\ freed' = freed
    BY <1>0, <1>4, WorkersOnlyWake
       DEF WorkerSection, TakeJob, WaitForWork, Retire, QuitOnDestroy, JobExit, FuncReturns,
           FuncExits, LingerExpires, SpuriousWorker
  <2>2. nthreads = 0 => nthreads' = 0
    <3>1. nthreads = 0 => worker[w] = "none"
      <4>1. Live \in SUBSET Workers /\ Live \ {w} = Live \ {w}
        BY DEF Live
      <4>2. w \in Live => Cardinality(Live) >= 1
        BY <4>1, CountMove
      <4>. QED BY <1>0, <4>2 DEF Memory, Counted, ThreadAccounting, Live
    <3>. QED BY <1>4, <3>1
             DEF WorkerSection, TakeJob, WaitForWork, Retire, QuitOnDestroy, JobExit, FuncReturns,
                 FuncExits, LingerExpires, SpuriousWorker, Ready, Asleep
  <2>3. \A c \in Clients :
          client'[c] \in {"unlink", "gone"} <=> client[c] \in {"unlink", "gone"}
    BY <2>1 DEF WokenUp
  <2>4. \A c \in Clients : client[c] = "gone" => client'[c] = "gone"
    BY <2>1 DEF WokenUp
  <2>. QED BY <1>0, <2>1, <2>2, <2>3, <2>4 DEF FreedAlone
<1>5. CASE UNCHANGED vars
  BY <1>0, <1>5 DEF vars, FreedAlone
<1>. QED BY <1>1, <1>2, <1>3, <1>4, <1>5 DEF Next, Terminated

\* thr_pool_destroy frees the pool only when no worker thread is left that could
\* touch it and no other client is inside a pool function.
THEOREM FreeIsLast == Spec => []NoUseAfterFree
<1>1. Init => Memory
  <2>1. Init => DestroyerAlone /\ FreedAlone
    BY DEF Init, DestroyerAlone, FreedAlone, InWait, InDestroy
  <2>. QED BY <2>1, InitCounted DEF Memory
<1>2. Memory /\ [Next]_vars => Memory'
  BY NextCounted, NextDestroyerAlone, NextFreedAlone DEF Memory
<1>3. Memory => NoUseAfterFree
  <2>. SUFFICES ASSUME Memory, freed PROVE NoUseAfterFree
    BY DEF NoUseAfterFree
  <2>1. PICK c \in Clients : client[c] = "gone"
    BY DEF Memory, FreedAlone
  <2>2. \A d \in Clients : client[d] \in {"out", "gone"}
    BY <2>1 DEF Memory, DestroyerAlone, InDestroy
  <2>3. Cardinality(Live) = 0 /\ IsFiniteSet(Live)
    <3>1. Live \in SUBSET Workers
      BY DEF Live
    <3>2. IsFiniteSet(Live)
      BY <3>1, PoolAssumption, FS_Subset DEF PoolAssumption
    <3>. QED BY <2>1, <3>2 DEF Memory, FreedAlone, Counted, ThreadAccounting
  <2>4. Live = {}
    BY <2>3, FS_EmptySet
  <2>. QED BY <2>2, <2>4 DEF NoUseAfterFree
<1>. QED BY <1>1, <1>2, <1>3, PTL DEF Spec
=============================================================================
