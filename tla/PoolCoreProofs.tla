---------------------------- MODULE PoolCoreProofs ----------------------------
(***************************************************************************)
(* Theorems about PoolCore for any workers, clients, tasks, sizes and      *)
(* policies: the counters are exact, no wake-up is lost, and a wait covers *)
(* the tasks.                                                              *)
(***************************************************************************)
EXTENDS PoolCore, FiniteSetTheorems, SequenceTheorems, TLAPS

\* The types, with integers where TypeOK has naturals: that the counters do
\* not fall below zero follows from CountsExact.
Types ==
  /\ scheduler \in Schedulers /\ policy \in ShutdownPolicies
  /\ worker_count \in Int /\ target_worker_count \in Nat
  /\ active_worker_count \in Int
  /\ queue \in Seq(Tasks) /\ scheduled \in Seq(Tasks) /\ ended \subseteq Tasks
  /\ terminate \in BOOLEAN /\ terminated \subseteq Workers
  /\ pc \in [Workers -> WorkerStates]
  /\ task \in [Workers -> Tasks \union {NoTask}]
  /\ sleeping \subseteq Workers /\ waiters \subseteq Clients \union {Owner}
  /\ call \in [Clients -> Calls \union {NoCall}]
  /\ phase \in {"open", "clear", "drain", "quit", "retire", "join", "closed"}

\* Workers asleep are idle, and exactly the running workers hold a task.
WorkersInPlace ==
  /\ \A w \in sleeping : pc[w] = "idle"
  /\ \A w \in Workers : pc[w] = "run" <=> task[w] # NoTask

Basic == Types /\ CountsExact /\ WorkersInPlace

-----------------------------------------------------------------------------
\* Counting.

LEMMA Finite ==
  ASSUME NEW S \in SUBSET Workers
  PROVE  /\ IsFiniteSet(S) /\ Cardinality(S) \in Nat
         /\ \A w : /\ w \notin S => Cardinality(S \union {w}) = Cardinality(S) + 1
                   /\ w \in S => S \union {w} = S /\ Cardinality(S \ {w}) = Cardinality(S) - 1
                   /\ w \in S => 1 <= Cardinality(S)
<1>1. IsFiniteSet(S) /\ Cardinality(S) \in Nat
  BY PoolCoreAssumption, FS_Subset, FS_CardinalityType DEF PoolCoreAssumption
<1>2. ASSUME NEW w, w \notin S PROVE Cardinality(S \union {w}) = Cardinality(S) + 1
  BY <1>1, <1>2, FS_AddElement
<1>3. ASSUME NEW w, w \in S
      PROVE  /\ S \union {w} = S /\ Cardinality(S \ {w}) = Cardinality(S) - 1
             /\ 1 <= Cardinality(S)
  <2>1. Cardinality(S \ {w}) = Cardinality(S) - 1
    BY <1>1, <1>3, FS_RemoveElement
  <2>2. Cardinality(S) # 0
    BY <1>1, <1>3, FS_EmptySet
  <2>. QED BY <1>1, <1>3, <2>1, <2>2
<1>. QED BY <1>1, <1>2, <1>3

LEMMA DisjointCount ==
  ASSUME NEW S \in SUBSET Workers, NEW T \in SUBSET Workers, S \cap T = {}
  PROVE  Cardinality(S \union T) = Cardinality(S) + Cardinality(T)
<1>1. IsFiniteSet(S) /\ IsFiniteSet(T) /\ Cardinality(S) \in Nat /\ Cardinality(T) \in Nat
  BY Finite
<1>2. Cardinality(S \cap T) = 0
  BY FS_EmptySet
<1>3. Cardinality(S \union T) = Cardinality(S) + Cardinality(T) - Cardinality(S \cap T)
  BY <1>1, FS_Union
<1>. QED BY <1>1, <1>2, <1>3

\* The classes of workers after w has moved to state s.
LEMMA Move ==
  ASSUME Types, NEW w \in Workers, NEW s \in WorkerStates, pc' = [pc EXCEPT ![w] = s]
  PROVE  /\ pc' \in [Workers -> WorkerStates]
         /\ Attached' = IF s \in {"none", "exit"} THEN Attached \ {w} ELSE Attached \union {w}
         /\ Active' = IF s \in {"none", "exit", "idle"} THEN Active \ {w} ELSE Active \union {w}
         /\ Running' = IF s = "run" THEN Running \union {w} ELSE Running \ {w}
<1>1. /\ pc' \in [Workers -> WorkerStates]
      /\ pc'[w] = s /\ \A v \in Workers : v # w => pc'[v] = pc[v]
  BY DEF Types
<1>. QED BY <1>1 DEF Attached, Active, Running, WorkerStates

LEMMA Classes == Attached \in SUBSET Workers /\ Active \in SUBSET Workers
                 /\ Active \subseteq Attached /\ Running \subseteq Active
BY DEF Attached, Active, Running

\* A worker with the monitor in execute_task is attached; ActiveAgain counts it.
LEMMA AgainActive ==
  ASSUME Types, CountsExact, NEW w \in Workers, Looking(w)
  PROVE  /\ w \in Attached
         /\ ActiveAgain(w) = Cardinality(Active \union {w})
<1>1. w \in Attached /\ (w \in Active <=> pc[w] # "idle")
  BY DEF Looking, Attached, Active
<1>. QED BY <1>1, Classes, Finite DEF ActiveAgain, CountsExact

-----------------------------------------------------------------------------
\* Sequences.

\* What a sequence is without one of its elements.
LEMMA WithoutOne ==
  ASSUME NEW S, NEW s \in Seq(S), NEW i \in 1..Len(s)
  PROVE  /\ RemoveAt(s, i) \in Seq(S) /\ Len(RemoveAt(s, i)) = Len(s) - 1
         /\ \A k \in 1..(Len(s) - 1) :
              RemoveAt(s, i)[k] = IF k < i THEN s[k] ELSE s[k + 1]
<1>1. Len(s) \in Nat
  OBVIOUS
<1> DEFINE A == SubSeq(s, 1, i - 1)
           B == SubSeq(s, i + 1, Len(s))
<1>2. A \in Seq(S) /\ Len(A) = i - 1 /\ \A k \in 1..(i - 1) : A[k] = s[k]
  BY <1>1
<1>3. B \in Seq(S) /\ Len(B) = Len(s) - i /\ \A k \in 1..(Len(s) - i) : B[k] = s[i + k]
  BY <1>1
<1>4. RemoveAt(s, i) = A \o B
  BY DEF RemoveAt
<1> HIDE DEF A, B
<1>5. A \o B \in Seq(S) /\ Len(A \o B) = Len(s) - 1
  <2>1. A \o B \in Seq(S) /\ Len(A \o B) = Len(A) + Len(B)
    BY <1>2, <1>3, ConcatProperties
  <2>. QED BY <1>1, <1>2, <1>3, <2>1
<1>6. ASSUME NEW k \in 1..(Len(s) - 1)
      PROVE  (A \o B)[k] = IF k < i THEN s[k] ELSE s[k + 1]
  <2>1. (A \o B)[k] = IF k <= Len(A) THEN A[k] ELSE B[k - Len(A)]
    BY <1>1, <1>2, <1>3, <1>5
  <2>2. CASE k < i
    BY <1>1, <1>2, <2>1, <2>2
  <2>3. CASE ~(k < i)
    <3>1. k - Len(A) \in 1..(Len(s) - i) /\ ~(k <= Len(A)) /\ i + (k - Len(A)) = k + 1
      BY <1>1, <1>2, <2>3
    <3>2. B[k - Len(A)] = s[i + (k - Len(A))]
      BY <1>3, <3>1
    <3>. QED BY <2>1, <2>3, <3>1, <3>2
  <2>. QED BY <2>2, <2>3
<1>. QED BY <1>4, <1>5, <1>6

LEMMA PopOne ==
  ASSUME Types, NEW i \in Tops, Pop(i)
  PROVE  /\ queue' \in Seq(Tasks) /\ Len(queue') = Len(queue) - 1
         /\ i \in 1..Len(queue) /\ queue[i] \in Tasks
         /\ \A k \in 1..Len(queue') : queue'[k] = IF k < i THEN queue[k] ELSE queue[k + 1]
<1>1. i \in 1..Len(queue) /\ queue \in Seq(Tasks)
  BY DEF Tops, Types
<1>2. queue' = RemoveAt(queue, i) /\ queue[i] \in Tasks
  BY <1>1 DEF Pop
<1>3. /\ RemoveAt(queue, i) \in Seq(Tasks) /\ Len(RemoveAt(queue, i)) = Len(queue) - 1
      /\ \A k \in 1..(Len(queue) - 1) :
           RemoveAt(queue, i)[k] = IF k < i THEN queue[k] ELSE queue[k + 1]
  BY <1>1, WithoutOne
<1>. QED BY <1>1, <1>2, <1>3

LEMMA PushOne ==
  ASSUME Types, NEW t \in Tasks
  PROVE  /\ Push(t) \in Seq(Tasks) /\ Len(Push(t)) = Len(queue) + 1
         /\ \/ Push(t) = Append(queue, t)
            \/ Push(t) = <<t>> \o queue
BY DEF Push, Types

-----------------------------------------------------------------------------
\* Types, counters and places: initially, and by every action.

LEMMA BasicInit == Init => Basic
<1> SUFFICES ASSUME Init PROVE Basic
  OBVIOUS
<1>1. PICK S \in SUBSET Workers :
        /\ worker_count = Cardinality(S) /\ active_worker_count = Cardinality(S)
        /\ pc = [w \in Workers |-> IF w \in S THEN "fetch" ELSE "none"]
  BY DEF Init
<1>2. Attached = S /\ Active = S
  BY <1>1 DEF Attached, Active
<1>3. Cardinality(S) \in Nat
  BY Finite
<1>4. Types
  <2>1. pc \in [Workers -> WorkerStates] /\ worker_count \in Int /\ active_worker_count \in Int
    BY <1>1, <1>3 DEF WorkerStates
  <2>2. <<>> \in Seq(Tasks)
    OBVIOUS
  <2>. QED BY <2>1, <2>2, PoolCoreAssumption DEF Init, Types, PoolCoreAssumption
<1>5. WorkersInPlace
  BY <1>1 DEF Init, WorkersInPlace
<1>. QED BY <1>1, <1>2, <1>4, <1>5 DEF Basic, CountsExact

\* Steps that leave the threads and the counters alone.
LEMMA StillExact ==
  ASSUME CountsExact, UNCHANGED <<pc, worker_count, active_worker_count>>
  PROVE  CountsExact'
BY DEF CountsExact, Attached, Active

\* One worker moves between states in which it is attached, and its activity
\* is what ActiveAgain says.
LEMMA BasicLooking ==
  ASSUME Basic, NEW w \in Workers, Leave(w) \/ Sleep(w) \/ Take(w)
  PROVE  Basic'
<1> USE DEF Basic
<1>0. Looking(w) /\ w \in Attached /\ ActiveAgain(w) = Cardinality(Active \union {w})
  BY AgainActive DEF Leave, Sleep, Take
<1>1. /\ Attached \union {w} = Attached /\ Cardinality(Active \union {w}) \in Nat
      /\ Cardinality(Active \union {w}) - 1 = Cardinality(Active \ {w})
  <2>1. Active \union {w} \in SUBSET Workers /\ (Active \union {w}) \ {w} = Active \ {w}
    BY Classes
  <2>. QED BY <1>0, <2>1, Finite
<1>2. CASE Leave(w)
  <2>1. Attached' = Attached /\ Active' = Active \union {w} /\ pc' \in [Workers -> WorkerStates]
    BY <1>1, <1>2, Move DEF Leave, WorkerStates
  <2>2. Types'
    BY <1>0, <1>1, <1>2, <2>1 DEF Leave, Types, template, history
  <2>3. CountsExact'
    BY <1>0, <1>2, <2>1 DEF Leave, CountsExact
  <2>4. WorkersInPlace'
    BY <1>0, <1>2 DEF Leave, Types, WorkersInPlace, Looking
  <2>. QED BY <2>2, <2>3, <2>4
<1>3. CASE Sleep(w)
  <2>1. Attached' = Attached /\ Active' = Active \ {w} /\ pc' \in [Workers -> WorkerStates]
    BY <1>1, <1>3, Move DEF Sleep, WorkerStates
  <2>2. Types'
    BY <1>0, <1>1, <1>3, <2>1 DEF Sleep, Types, template, history, NotifyWaiters
  <2>3. CountsExact'
    BY <1>0, <1>1, <1>3, <2>1 DEF Sleep, CountsExact
  <2>4. WorkersInPlace'
    BY <1>0, <1>3 DEF Sleep, Types, WorkersInPlace, Looking
  <2>. QED BY <2>2, <2>3, <2>4
<1>4. CASE Take(w)
  <2>0. PICK i \in Tops : task' = [task EXCEPT ![w] = queue[i]] /\ Pop(i)
    BY <1>4 DEF Take
  <2>1. Attached' = Attached /\ Active' = Active \union {w} /\ pc' \in [Workers -> WorkerStates]
    BY <1>1, <1>4, Move DEF Take, WorkerStates
  <2>2. queue' \in Seq(Tasks) /\ queue[i] \in Tasks
    BY <2>0, PopOne
  <2>3. Types'
    BY <1>0, <1>1, <1>4, <2>0, <2>1, <2>2 DEF Take, Types, template, history
  <2>4. CountsExact'
    BY <1>0, <1>4, <2>1 DEF Take, CountsExact
  <2>5. WorkersInPlace'
    BY <1>0, <1>4, <2>0, <2>2, PoolCoreAssumption
    DEF Take, Types, WorkersInPlace, Looking, PoolCoreAssumption
  <2>. QED BY <2>3, <2>4, <2>5
<1>. QED BY <1>2, <1>3, <1>4

LEMMA BasicEnds ==
  ASSUME Basic, NEW w \in Workers, TaskEnds(w)
  PROVE  Basic'
<1> USE DEF Basic
<1>1. /\ w \in Attached /\ w \in Active /\ task[w] \in Tasks
      /\ Attached \union {w} = Attached /\ Active \union {w} = Active
  BY DEF TaskEnds, Attached, Active, Types, WorkersInPlace
<1>2. Attached' = Attached /\ Active' = Active /\ pc' \in [Workers -> WorkerStates]
  BY <1>1, Move DEF TaskEnds, WorkerStates
<1>3. Types'
  BY <1>1, <1>2 DEF TaskEnds, Types, template, counts
<1>4. CountsExact'
  BY <1>2 DEF TaskEnds, CountsExact, counts
<1>5. WorkersInPlace'
  BY DEF TaskEnds, Types, WorkersInPlace
<1>. QED BY <1>3, <1>4, <1>5

LEMMA BasicDestructed ==
  ASSUME Basic, NEW w \in Workers, Destructed(w)
  PROVE  Basic'
<1> USE DEF Basic
<1>1. w \in Attached /\ w \in Active
  BY DEF Destructed, Attached, Active
<1>2. Attached' = Attached \ {w} /\ Active' = Active \ {w} /\ pc' \in [Workers -> WorkerStates]
  BY Move DEF Destructed, WorkerStates
<1>3. CountsExact'
  BY <1>1, <1>2, Classes, Finite DEF Destructed, CountsExact, Attach
<1>4. Types'
  BY <1>2 DEF Destructed, Types, template, history, NotifyWaiters, Attach
<1>5. WorkersInPlace'
  BY DEF Destructed, Types, WorkersInPlace
<1>. QED BY <1>3, <1>4, <1>5

LEMMA BasicExit ==
  ASSUME Basic, NEW w \in Workers, Exit(w)
  PROVE  Basic'
<1> USE DEF Basic
<1>1. Attached \ {w} = Attached /\ Active \ {w} = Active
  BY DEF Exit, Attached, Active
<1>2. Attached' = Attached /\ Active' = Active /\ pc' \in [Workers -> WorkerStates]
  BY <1>1, Move DEF Exit, WorkerStates
<1>3. CountsExact'
  BY <1>2 DEF Exit, CountsExact, counts
<1>4. Types'
  BY <1>2 DEF Exit, Types, template, history, counts
<1>5. WorkersInPlace'
  BY DEF Exit, Types, WorkersInPlace
<1>. QED BY <1>3, <1>4, <1>5

\* The new threads of a resize or of a replacement.
LEMMA Spawned ==
  ASSUME Basic, NEW size \in Int, NEW n \in Int, NEW S \in Spawns(size, n)
  PROVE  /\ S \in SUBSET Workers /\ S \cap Attached = {} /\ Cardinality(S) \in Nat
         /\ Cardinality(Attached \union S) = Cardinality(Attached) + Cardinality(S)
         /\ Cardinality(Active \union S) = Cardinality(Active) + Cardinality(S)
         /\ Cardinality(S) <= size - n
         /\ \A w \in S : pc[w] = "none"
<1>1. /\ S \in SUBSET Workers /\ S \cap Attached = {} /\ S \cap Active = {}
      /\ Cardinality(S) <= size - n
      /\ \A w \in S : pc[w] = "none"
  BY DEF Spawns, Free, Attached, Active
<1>2. Cardinality(S) \in Nat
  BY <1>1, Finite
<1>. QED BY <1>1, <1>2, Classes, DisjointCount

LEMMA BasicResize ==
  ASSUME Basic, NEW size \in Sizes, Resize(size)
  PROVE  Basic'
<1> USE DEF Basic
<1>1. size \in Nat
  BY PoolCoreAssumption DEF PoolCoreAssumption
<1>2. CASE worker_count <= size
  <2>1. PICK S \in Spawns(size, worker_count) :
          /\ pc' = [w \in Workers |-> IF w \in S THEN "fetch" ELSE pc[w]]
          /\ Attach(Cardinality(S))
          /\ UNCHANGED sleeping
    BY <1>1, <1>2 DEF Resize, Types
  <2>2. /\ S \in SUBSET Workers /\ Cardinality(S) \in Nat
        /\ Cardinality(Attached \union S) = Cardinality(Attached) + Cardinality(S)
        /\ Cardinality(Active \union S) = Cardinality(Active) + Cardinality(S)
        /\ \A w \in S : pc[w] = "none"
    <3>1. size \in Int /\ worker_count \in Int
      BY <1>1 DEF Types
    <3> HIDE DEF Basic
    <3>. QED BY <2>1, <3>1, Spawned
  <2>3. /\ pc' \in [Workers -> WorkerStates]
        /\ Attached' = Attached \union S /\ Active' = Active \union S
    BY <2>1, <2>2 DEF Attached, Active, Types, WorkerStates
  <2>4. Types'
    BY <1>1, <2>1, <2>2, <2>3 DEF Types, Resize, Attach, template, history
  <2>5. CountsExact'
    BY <2>1, <2>2, <2>3 DEF CountsExact, Attach
  <2>6. WorkersInPlace'
    BY <2>1, <2>2 DEF Resize, WorkersInPlace, Types
  <2>. QED BY <2>4, <2>5, <2>6
<1>3. CASE ~(worker_count <= size)
  <2>1. UNCHANGED <<pc, worker_count, active_worker_count>> /\ sleeping' = {}
    BY <1>1, <1>3 DEF Resize, NotifySleepers
  <2>2. Types'
    BY <1>1, <2>1 DEF Types, Resize, template, history
  <2>3. CountsExact'
    BY <2>1, StillExact
  <2>4. WorkersInPlace'
    BY <2>1 DEF Resize, WorkersInPlace
  <2>. QED BY <2>2, <2>3, <2>4
<1>. QED BY <1>2, <1>3

LEMMA BasicDied ==
  ASSUME Basic, NEW w \in Workers, Died(w)
  PROVE  Basic'
<1> USE DEF Basic
<1>1. w \in Attached /\ w \in Active /\ pc[w] = "died"
  BY DEF Died, Attached, Active
<1>2. PICK S \in SUBSET Workers :
        /\ S \in (IF terminate THEN {{}} ELSE Spawns(worker_count, worker_count - 1))
        /\ Attach(Cardinality(S) - 1)
        /\ pc' = [v \in Workers |->
                     IF v = w THEN "exit" ELSE IF v \in S THEN "fetch" ELSE pc[v]]
  BY DEF Died, Spawns, Free
<1>3. /\ Cardinality(S) \in Nat
      /\ Cardinality(Attached \union S) = Cardinality(Attached) + Cardinality(S)
      /\ Cardinality(Active \union S) = Cardinality(Active) + Cardinality(S)
      /\ \A v \in S : pc[v] = "none"
  <2>1. CASE terminate
    <3>1. S = {} /\ Cardinality(S) = 0
      BY <1>2, <2>1, FS_EmptySet
    <3>2. Cardinality(Attached) \in Nat /\ Cardinality(Active) \in Nat
      BY Finite, Classes
    <3>. QED BY <3>1, <3>2
  <2>2. CASE ~terminate
    <3>1. S \in Spawns(worker_count, worker_count - 1)
      BY <1>2, <2>2
    <3>2. worker_count \in Int /\ worker_count - 1 \in Int
      BY DEF Types
    <3> DEFINE n == worker_count - 1
    <3> HIDE DEF Basic, n
    <3>3. n \in Int /\ S \in Spawns(worker_count, n)
      BY <3>1, <3>2 DEF n
    <3>. QED BY <3>2, <3>3, Spawned
  <2>. QED BY <2>1, <2>2
<1>4. /\ pc' \in [Workers -> WorkerStates]
      /\ Attached' = (Attached \union S) \ {w} /\ Active' = (Active \union S) \ {w}
  BY <1>1, <1>2, <1>3 DEF Attached, Active, Types, WorkerStates
<1>5. /\ Cardinality((Attached \union S) \ {w}) = Cardinality(Attached \union S) - 1
      /\ Cardinality((Active \union S) \ {w}) = Cardinality(Active \union S) - 1
      /\ Cardinality(Attached) \in Nat /\ Cardinality(Active) \in Nat
      /\ 1 <= Cardinality(Attached)
  <2>1. Attached \union S \in SUBSET Workers /\ Active \union S \in SUBSET Workers
    BY Classes
  <2>. QED BY <1>1, <2>1, Classes, Finite
<1>6. CountsExact'
  BY <1>2, <1>3, <1>4, <1>5 DEF CountsExact, Attach
<1>7. Types'
  <2>1. target_worker_count' \in Nat /\ terminated' \subseteq Workers
    BY <1>5 DEF Died, Types, CountsExact
  <2>2. worker_count' \in Int /\ active_worker_count' \in Int
    BY <1>2, <1>3 DEF Attach, Types
  <2>. QED BY <1>4, <2>1, <2>2 DEF Died, Types, template, history, NotifyWaiters
<1>8. WorkersInPlace'
  BY <1>1, <1>2, <1>3 DEF Died, Types, WorkersInPlace
<1>. QED BY <1>6, <1>7, <1>8

\* The steps of clients and of the owner, and spurious wake-ups, move no
\* worker: only the types have to be looked at.
LEMMA NoWorkerMoves ==
  ASSUME Basic, Types', UNCHANGED <<pc, task, worker_count, active_worker_count>>,
         sleeping' \subseteq sleeping
  PROVE  Basic'
BY StillExact DEF Basic, WorkersInPlace

LEMMA BasicClient ==
  ASSUME Basic,
         \/ \E t \in Tasks : Schedule(t)
         \/ Clear
         \/ \E c \in Clients :
              \/ \E timed \in BOOLEAN, limit \in Limits : WaitCall(c, timed, limit)
              \/ WaitTest(c) \/ WaitTimedOut(c)
  PROVE  Basic'
<1>0. Types
  BY DEF Basic
<1>1. ASSUME NEW t \in Tasks, Schedule(t) PROVE Basic'
  <2>1. Push(t) \in Seq(Tasks)
    BY <1>0, PushOne
  <2>2. sleeping' \subseteq sleeping
    BY <1>1 DEF Schedule, NotifyOne
  <2>3. Types'
    BY <1>0, <1>1, <2>1, <2>2 DEF Types, Schedule, template, counts
  <2>. QED BY <1>1, <2>2, <2>3, NoWorkerMoves DEF Schedule, counts
<1>2. CASE Clear
  <2>1. Pending \subseteq Tasks
    BY <1>0 DEF Pending, Types
  <2>2. Types'
    BY <1>0, <1>2, <2>1 DEF Types, Clear, DropPending, template, counts
  <2>. QED BY <1>2, <2>2, NoWorkerMoves DEF Clear, counts
<1>3. ASSUME NEW c \in Clients, NEW timed \in BOOLEAN, NEW limit \in Limits,
             WaitCall(c, timed, limit)
      PROVE Basic'
  <2>1. [inside |-> TRUE, timed |-> timed, limit |-> limit] \in Calls
    BY DEF Calls
  <2>2. Types'
    BY <1>0, <1>3, <2>1 DEF Types, WaitCall, template, counts, history
  <2>. QED BY <1>3, <2>2, NoWorkerMoves DEF WaitCall, counts
<1>4. ASSUME NEW c \in Clients, WaitTest(c) PROVE Basic'
  <2>2. Types'
    BY <1>0, <1>4 DEF Types, WaitTest, template, counts, history
  <2>. QED BY <1>4, <2>2, NoWorkerMoves DEF WaitTest, counts
<1>5. ASSUME NEW c \in Clients, WaitTimedOut(c) PROVE Basic'
  <2>2. Types'
    BY <1>0, <1>5 DEF Types, WaitTimedOut, template, counts, history
  <2>. QED BY <1>5, <2>2, NoWorkerMoves DEF WaitTimedOut, counts
<1>. QED BY <1>1, <1>2, <1>3, <1>4, <1>5

LEMMA BasicOwner ==
  ASSUME Basic, ShutdownCall \/ OwnerStep \/ Spurious
  PROVE  Basic'
<1>0. Types
  BY DEF Basic
<1>1. CASE ShutdownCall
  <2>1. Types'
    BY <1>0, <1>1 DEF Types, ShutdownCall, template, counts, history
  <2>. QED BY <1>1, <2>1, NoWorkerMoves DEF ShutdownCall, counts
<1>2. CASE ShutdownClear
  <2>1. Pending \subseteq Tasks
    BY <1>0 DEF Pending, Types
  <2>2. Types'
    BY <1>0, <1>2, <2>1 DEF Types, ShutdownClear, DropPending, template, counts
  <2>. QED BY <1>2, <2>2, NoWorkerMoves DEF ShutdownClear, counts
<1>3. CASE Drain
  <2>1. Types'
    BY <1>0, <1>3 DEF Types, Drain, template, counts, history
  <2>. QED BY <1>3, <2>1, NoWorkerMoves DEF Drain, counts
<1>4. CASE TerminateAllWorkers
  <2>1. Types'
    BY <1>0, <1>4 DEF Types, TerminateAllWorkers, NotifySleepers, AwaitInactive, template, history
  <2>. QED BY <1>4, <2>1, NoWorkerMoves DEF TerminateAllWorkers, NotifySleepers
<1>5. CASE Retire
  <2>1. Types'
    BY <1>0, <1>5 DEF Types, Retire, AwaitInactive, template, counts, history
  <2>. QED BY <1>5, <2>1, NoWorkerMoves DEF Retire, counts
<1>6. CASE Join
  <2>1. Types'
    BY <1>0, <1>6 DEF Types, Join, template, counts, history
  <2>. QED BY <1>6, <2>1, NoWorkerMoves DEF Join, counts
<1>7. CASE Spurious
  <2>1. sleeping' \subseteq sleeping /\ waiters' \subseteq waiters
    BY <1>7 DEF Spurious
  <2>2. Types'
    BY <1>0, <1>7, <2>1 DEF Types, Spurious, template, counts, history
  <2>. QED BY <1>7, <2>1, <2>2, NoWorkerMoves DEF Spurious, counts
<1>. QED BY <1>1, <1>2, <1>3, <1>4, <1>5, <1>6, <1>7 DEF OwnerStep

LEMMA BasicStep == Basic /\ [Next]_vars => Basic'
<1> SUFFICES ASSUME Basic, [Next]_vars PROVE Basic'
  OBVIOUS
<1>1. CASE \/ \E t \in Tasks : Schedule(t)
           \/ Clear
           \/ \E c \in Clients :
                \/ \E timed \in BOOLEAN, limit \in Limits : WaitCall(c, timed, limit)
                \/ WaitTest(c) \/ WaitTimedOut(c)
  BY <1>1, BasicClient
<1>2. CASE \E size \in Sizes : Resize(size)
  BY <1>2, BasicResize
<1>3. ASSUME NEW w \in Workers, WorkerStep(w) PROVE Basic'
  BY <1>3, BasicLooking, BasicEnds, BasicDestructed, BasicDied, BasicExit DEF WorkerStep
<1>4. CASE ShutdownCall \/ OwnerStep \/ Spurious
  BY <1>4, BasicOwner
<1>5. CASE UNCHANGED vars
  <2>1. Types'
    BY <1>5 DEF Basic, Types, vars, template, counts, history
  <2>. QED BY <1>5, <2>1, NoWorkerMoves DEF vars, counts
<1>. QED BY <1>1, <1>2, <1>3, <1>4, <1>5 DEF Next

LEMMA BasicAlways == Spec => []Basic
BY BasicInit, BasicStep, PTL DEF Spec

\* Every variable of the pool keeps its type; m_worker_count and
\* m_active_worker_count never fall below zero.
THEOREM TypeCorrect == Spec => []TypeOK
<1>1. Basic => TypeOK
  <2>1. Basic => worker_count \in Nat /\ active_worker_count \in Nat
    BY Classes, Finite DEF Basic, CountsExact
  <2>. QED BY <2>1 DEF Basic, Types, TypeOK
<1>. QED BY <1>1, BasicAlways, PTL

\* m_worker_count and m_active_worker_count are the numbers of the workers
\* attached and active, through resizes, deaths, replacements and shutdown.
THEOREM CountersCorrect == Spec => []CountsExact
<1>1. Basic => CountsExact
  BY DEF Basic
<1>. QED BY <1>1, BasicAlways, PTL

-----------------------------------------------------------------------------
\* No lost wake-up.

LEMMA CountMonotone ==
  ASSUME NEW T \in SUBSET Workers, NEW S \in SUBSET T
  PROVE  Cardinality(S) <= Cardinality(T)
BY Finite, FS_Subset

LEMMA SeekingWorkers == Seeking \in SUBSET Workers
BY DEF Seeking

\* It is enough that the pool is not too large and that the awake workers did
\* not become fewer than the pending tasks.
LEMMA SleepersKept ==
  ASSUME Basic, SleepersNotNeeded, Basic',
         sleeping # {} /\ worker_count <= target_worker_count
           => worker_count' <= target_worker_count',
         sleeping' # {} => sleeping # {},
         Seeking \subseteq Seeking', Len(queue') <= Len(queue)
  PROVE  SleepersNotNeeded'
<1>1. Seeking \in SUBSET Workers /\ Seeking' \in SUBSET Workers
  BY DEF Seeking
<1>2. Cardinality(Seeking) <= Cardinality(Seeking')
  BY <1>1, CountMonotone
<1>3. /\ Cardinality(Seeking) \in Nat /\ Cardinality(Seeking') \in Nat
      /\ Len(queue) \in Nat /\ Len(queue') \in Nat
  BY <1>1, Finite DEF Basic, Types
<1>. QED BY <1>2, <1>3 DEF SleepersNotNeeded

\* Nothing is pending: what a clear leaves behind, and what a worker finds
\* before it goes to sleep.
LEMMA SleepersIdle ==
  ASSUME queue' = <<>>, sleeping' # {} => worker_count' <= target_worker_count'
  PROVE  SleepersNotNeeded'
<1>1. Seeking' \in SUBSET Workers
  BY DEF Seeking
<1>2. Cardinality(Seeking') \in Nat /\ Len(queue') = 0
  BY <1>1, Finite
<1>. QED BY <1>2 DEF SleepersNotNeeded

LEMMA SleepersSchedule ==
  ASSUME Basic, SleepersNotNeeded, NEW t \in Tasks, Schedule(t)
  PROVE  SleepersNotNeeded'
<1>1. CASE sleeping' = {}
  BY <1>1 DEF SleepersNotNeeded
<1>2. ASSUME NEW w \in sleeping, sleeping' = sleeping \ {w}
      PROVE SleepersNotNeeded'
  <2>1. w \in Workers /\ pc[w] = "idle" /\ w \notin Seeking
    BY <1>2 DEF Basic, Types, WorkersInPlace, Seeking
  <2>2. Seeking' = Seeking \union {w}
    BY <1>2, <2>1 DEF Seeking, Schedule
  <2>3. Cardinality(Seeking') = Cardinality(Seeking) + 1 /\ Cardinality(Seeking) \in Nat
    BY <2>1, <2>2, SeekingWorkers, Finite
  <2>4. Len(queue') = Len(queue) + 1 /\ Len(queue) \in Nat
    <3>1. Types /\ Len(queue) \in Nat
      BY DEF Basic, Types
    <3>. QED BY <3>1, PushOne DEF Schedule
  <2>. QED BY <1>2, <2>3, <2>4 DEF SleepersNotNeeded, Schedule, counts
<1>. QED BY <1>1, <1>2 DEF Schedule, NotifyOne

LEMMA SleepersResize ==
  ASSUME Basic, SleepersNotNeeded, Basic', NEW size \in Sizes, Resize(size)
  PROVE  SleepersNotNeeded'
<1>1. CASE sleeping' = {}
  BY <1>1 DEF SleepersNotNeeded
<1>2. ASSUME sleeping' # {} PROVE SleepersNotNeeded'
  <2>1. size \in Nat /\ worker_count \in Int
    BY PoolCoreAssumption DEF PoolCoreAssumption, Basic, Types
  <2>2. PICK S \in Spawns(size, worker_count) :
          /\ pc' = [w \in Workers |-> IF w \in S THEN "fetch" ELSE pc[w]]
          /\ Attach(Cardinality(S))
          /\ UNCHANGED sleeping
    BY <1>2 DEF Resize, NotifySleepers
  <2>3. Cardinality(S) \in Nat /\ Cardinality(S) <= size - worker_count
        /\ \A w \in S : pc[w] = "none"
    <3>1. size \in Int /\ worker_count \in Int /\ S \in Spawns(size, worker_count)
      BY <2>1, <2>2
    <3>. QED BY <3>1, Spawned
  <2>4. worker_count' <= target_worker_count'
    BY <2>1, <2>2, <2>3 DEF Resize, Attach
  <2>5. Seeking \subseteq Seeking'
    BY <2>2, <2>3 DEF Seeking
  <2>. QED BY <2>2, <2>4, <2>5, SleepersKept DEF Resize, Basic, Types
<1>. QED BY <1>1, <1>2

LEMMA SleepersWorker ==
  ASSUME Basic, SleepersNotNeeded, Basic', NEW w \in Workers, WorkerStep(w)
  PROVE  SleepersNotNeeded'
<1>0. Types /\ worker_count \in Int /\ target_worker_count \in Int /\ Len(queue) \in Nat
      /\ \A v \in sleeping : pc[v] = "idle"
  BY DEF Basic, Types, WorkersInPlace
<1>1. CASE Leave(w)
  BY <1>0, <1>1 DEF Leave, SleepersNotNeeded
<1>2. CASE Sleep(w)
  BY <1>0, <1>2, SleepersIdle DEF Sleep
<1>3. CASE Take(w)
  <2>1. PICK i \in Tops : Pop(i)
    BY <1>3 DEF Take
  <2>2. Len(queue') = Len(queue) - 1
    BY <1>0, <2>1, PopOne
  <2>3. w \in Seeking /\ Seeking' = Seeking \ {w}
    BY <1>0, <1>3 DEF Take, Looking, Seeking, Types
  <2>4. Cardinality(Seeking') = Cardinality(Seeking) - 1 /\ Cardinality(Seeking) \in Nat
    BY <2>3, SeekingWorkers, Finite
  <2>. QED BY <1>0, <1>3, <2>2, <2>4 DEF Take, SleepersNotNeeded
<1>4. CASE TaskEnds(w)
  <2>1. Seeking \subseteq Seeking'
    BY <1>0, <1>4 DEF TaskEnds, Seeking, Types
  <2>. QED BY <1>0, <1>4, <2>1, SleepersKept DEF TaskEnds, counts
<1>5. CASE Destructed(w)
  <2>1. Seeking \subseteq Seeking'
    BY <1>0, <1>5 DEF Destructed, Seeking, Types
  <2>. QED BY <1>0, <1>5, <2>1, SleepersKept DEF Destructed, Attach
<1>6. CASE Died(w)
  <2>1. PICK S \in SUBSET Workers :
          /\ S \in (IF terminate THEN {{}} ELSE Spawns(worker_count, worker_count - 1))
          /\ Attach(Cardinality(S) - 1)
          /\ pc' = [v \in Workers |->
                       IF v = w THEN "exit" ELSE IF v \in S THEN "fetch" ELSE pc[v]]
    BY <1>6 DEF Died, Spawns, Free
  <2>2. Seeking \subseteq Seeking'
    <3>1. \A v \in S : pc[v] = "none"
      BY <2>1 DEF Spawns, Free
    <3>. QED BY <1>0, <1>6, <2>1, <3>1 DEF Died, Seeking
  <2>3. worker_count <= target_worker_count => worker_count' <= target_worker_count'
    <3>1. CASE terminate
      <4>1. Cardinality(S) = 0
        BY <2>1, <3>1, FS_EmptySet
      <4>. QED BY <1>0, <1>6, <2>1, <3>1, <4>1 DEF Died, Attach
    <3>2. CASE ~terminate
      <4>1. Cardinality(S) <= worker_count - (worker_count - 1)
        BY <2>1, <3>2 DEF Spawns
      <4>. QED BY <1>0, <1>6, <2>1, <3>2, <4>1, Finite DEF Died, Attach
    <3>. QED BY <3>1, <3>2
  <2>. QED BY <1>0, <1>6, <2>2, <2>3, SleepersKept DEF Died
<1>7. CASE Exit(w)
  <2>1. Seeking \subseteq Seeking'
    BY <1>0, <1>7 DEF Exit, Seeking, Types
  <2>. QED BY <1>0, <1>7, <2>1, SleepersKept DEF Exit, counts
<1>. QED BY <1>1, <1>2, <1>3, <1>4, <1>5, <1>6, <1>7 DEF WorkerStep

LEMMA SleepersOther ==
  ASSUME Basic, SleepersNotNeeded, Basic', UNCHANGED <<pc, queue>>,
         worker_count' = worker_count,
         sleeping' = {} \/ (sleeping' \subseteq sleeping /\ UNCHANGED target_worker_count)
  PROVE  SleepersNotNeeded'
<1>1. CASE sleeping' = {}
  BY <1>1 DEF SleepersNotNeeded
<1>2. CASE sleeping' # {}
  <2>1. Seeking \subseteq Seeking' /\ sleeping # {} /\ UNCHANGED target_worker_count
    BY <1>2 DEF Seeking
  <2>2. Len(queue') <= Len(queue)
    BY DEF Basic, Types
  <2>. QED BY <2>1, <2>2, SleepersKept
<1>. QED BY <1>1, <1>2

LEMMA SleepersStep == Basic /\ Basic' /\ SleepersNotNeeded /\ [Next]_vars => SleepersNotNeeded'
<1> SUFFICES ASSUME Basic, Basic', SleepersNotNeeded, [Next]_vars PROVE SleepersNotNeeded'
  OBVIOUS
<1>1. ASSUME NEW t \in Tasks, Schedule(t) PROVE SleepersNotNeeded'
  BY <1>1, SleepersSchedule
<1>2. CASE Clear
  BY <1>2, SleepersIdle DEF Clear, DropPending, SleepersNotNeeded, counts
<1>3. ASSUME NEW c \in Clients,
             \/ \E timed \in BOOLEAN, limit \in Limits : WaitCall(c, timed, limit)
             \/ WaitTest(c) \/ WaitTimedOut(c)
      PROVE SleepersNotNeeded'
  BY <1>3, SleepersOther DEF WaitCall, WaitTest, WaitTimedOut, counts
<1>4. ASSUME NEW size \in Sizes, Resize(size) PROVE SleepersNotNeeded'
  BY <1>4, SleepersResize
<1>5. ASSUME NEW w \in Workers, WorkerStep(w) PROVE SleepersNotNeeded'
  BY <1>5, SleepersWorker
<1>6. CASE ShutdownClear
  BY <1>6, SleepersIdle DEF ShutdownClear, DropPending, SleepersNotNeeded, counts
<1>7. CASE ShutdownCall \/ Drain \/ TerminateAllWorkers \/ Retire \/ Join \/ Spurious
  <2>1. UNCHANGED <<pc, queue>> /\ worker_count' = worker_count
    BY <1>7 DEF ShutdownCall, Drain, TerminateAllWorkers, Retire, Join, Spurious, counts
  <2>2. sleeping' = {} \/ (sleeping' \subseteq sleeping /\ UNCHANGED target_worker_count)
    BY <1>7 DEF ShutdownCall, Drain, TerminateAllWorkers, NotifySleepers, Retire, Join,
                Spurious, counts
  <2>. QED BY <2>1, <2>2, SleepersOther
<1>8. CASE UNCHANGED vars
  BY <1>8, SleepersOther DEF vars, counts
<1>. QED BY <1>1, <1>2, <1>3, <1>4, <1>5, <1>6, <1>7, <1>8 DEF Next, OwnerStep

\* While a worker sleeps every pending task has an awake worker of its own that
\* is about to look for a task, so a notification taken by another is not lost.
THEOREM NoSleeperNeeded == Spec => []SleepersNotNeeded
<1>1. Init => SleepersNotNeeded
  BY DEF Init, SleepersNotNeeded
<1>. QED BY <1>1, SleepersStep, BasicAlways, PTL DEF Spec

-----------------------------------------------------------------------------
\* wait() and the shutdown look at two counters; what these say of the tasks.

LEMMA LoadCounts ==
  ASSUME Types, CountsExact
  PROVE  /\ active_worker_count \in Nat /\ Len(queue) \in Nat /\ Load \in Nat
         /\ active_worker_count = 0 => Active = {}
         /\ Load = 0 => queue = <<>> /\ Active = {}
         /\ Active # {} => Load # 0
<1>1. active_worker_count \in Nat /\ Len(queue) \in Nat
  BY Classes, Finite DEF Types, CountsExact
<1>2. active_worker_count = 0 => Active = {}
  <2>1. IsFiniteSet(Active)
    BY Classes, Finite
  <2>. QED BY <2>1, FS_EmptySet DEF CountsExact
<1>3. Len(queue) = 0 => queue = <<>>
  BY DEF Types
<1>. QED BY <1>1, <1>2, <1>3 DEF Load

\* The same of the next state.
LEMMA LoadCountsNext ==
  ASSUME Types', CountsExact'
  PROVE  /\ active_worker_count' \in Nat /\ Len(queue') \in Nat /\ Load' \in Nat
         /\ Active' # {} => Load' # 0
<1>1. Active' \in SUBSET Workers
  BY DEF Active, Attached
<1>2. active_worker_count' \in Nat /\ Len(queue') \in Nat
  BY <1>1, Finite DEF Types, CountsExact
<1>3. active_worker_count' = 0 => Active' = {}
  <2>1. IsFiniteSet(Active')
    BY <1>1, Finite
  <2>. QED BY <2>1, FS_EmptySet DEF CountsExact
<1>. QED BY <1>2, <1>3 DEF Load

LEMMA LimitType ==
  ASSUME Types, NEW c \in Clients
  PROVE  call[c].limit \in Nat
<1>1. call[c] \in Calls \union {NoCall}
  BY DEF Types
<1>2. Limits \subseteq Nat /\ NoCall.limit = 0
  BY PoolCoreAssumption DEF PoolCoreAssumption, NoCall
<1>3. \A k \in Calls : k.limit \in Limits
  BY DEF Calls
<1>4. CASE call[c] \in Calls
  BY <1>2, <1>3, <1>4
<1>5. CASE call[c] = NoCall
  BY <1>2, <1>5
<1>. QED BY <1>1, <1>4, <1>5

LEMMA NothingLeft ==
  ASSUME Types, CountsExact, Load = 0
  PROVE  Pending = {} /\ Running = {}
BY LoadCounts, Classes DEF Pending

\* A wait(0), or a timed wait(0) that returns true, has covered every task.
THEOREM WaitCovers == Spec => WaitCoversTasks
<1>1. ASSUME Basic, [Next]_vars, NEW c \in Clients, call[c].inside, call[c].limit = 0,
             ~call'[c].inside, c \notin waiters
      PROVE Pending = {} /\ Running = {}
  <2>1. call \in [Clients -> Calls \union {NoCall}] /\ call'[c] # call[c]
    BY <1>1 DEF Basic, Types
  <2>2. WaitTest(c)
    <3>1. PICK d \in Clients :
            \/ \E timed \in BOOLEAN, limit \in Limits : WaitCall(d, timed, limit)
            \/ WaitTest(d) \/ WaitTimedOut(d)
      <4>1. UNCHANGED call \/
            \E d \in Clients :
              \/ \E timed \in BOOLEAN, limit \in Limits : WaitCall(d, timed, limit)
              \/ WaitTest(d) \/ WaitTimedOut(d)
        BY <1>1 DEF Next, Schedule, Clear, Resize, WorkerStep, Leave, Sleep, Take, TaskEnds,
             Destructed, Died, Exit, ShutdownCall, OwnerStep, ShutdownClear, Drain,
             TerminateAllWorkers, Retire, Join, Spurious, vars
      <4>. QED BY <2>1, <4>1
    <3>2. c = d
      BY <2>1, <3>1 DEF WaitCall, WaitTest, WaitTimedOut
    <3>. QED BY <1>1, <3>1, <3>2 DEF WaitCall, WaitTimedOut
  <2>3. Load <= 0
    <3>1. ~(Load <= call[c].limit) => UNCHANGED call
      BY <2>2 DEF WaitTest, Within
    <3>. QED BY <1>1, <2>1, <3>1
  <2>4. Load = 0
    BY <2>3, LoadCounts, <1>1 DEF Basic
  <2>. QED BY <1>1, <2>4, NothingLeft DEF Basic
<1>2. Basic /\ [Next]_vars =>
        [\A c \in Clients :
           (call[c].inside /\ call[c].limit = 0 /\ ~call'[c].inside /\ c \notin waiters)
             => Pending = {} /\ Running = {}]_vars
  BY <1>1
<1>. QED BY <1>2, BasicAlways, PTL DEF Spec, WaitCoversTasks

\* The shutdown: beyond the drain nothing is pending and nothing runs.
Quiet ==
  (policy # "immediately" /\ phase \in {"quit", "retire", "join", "closed"})
    => queue = <<>> /\ Running = {}

LEMMA QuietStep == Basic /\ Quiet /\ [Next]_vars => Quiet'
<1> SUFFICES ASSUME Basic, Quiet, [Next]_vars PROVE Quiet'
  OBVIOUS
<1>0. Types /\ CountsExact
  BY DEF Basic
<1>1. CASE \/ \E t \in Tasks : Schedule(t)
           \/ Clear \/ ShutdownCall
  BY <1>1 DEF Schedule, Clear, ShutdownCall, Quiet, template
<1>2. CASE UNCHANGED <<policy, phase, queue, pc>>
  BY <1>2 DEF Quiet, Running
<1>3. ASSUME NEW size \in Sizes, Resize(size) PROVE Quiet'
  <2>1. Running' \subseteq Running
    BY <1>0, <1>3 DEF Resize, Running, Types
  <2>. QED BY <1>3, <2>1 DEF Resize, Quiet, template
<1>4. ASSUME NEW w \in Workers, Take(w) PROVE Quiet'
  <2>1. queue # <<>>
    BY <1>4 DEF Take, Tops
  <2>. QED BY <1>4, <2>1 DEF Take, Quiet, template
<1>5. ASSUME NEW w \in Workers, WorkerStep(w), ~Take(w) PROVE Quiet'
  <2>1. Running' \subseteq Running
    BY <1>0, <1>5 DEF WorkerStep, Leave, Sleep, TaskEnds, Destructed, Died, Exit, Running, Types
  <2>2. UNCHANGED <<policy, phase, queue>>
    BY <1>5 DEF WorkerStep, Leave, Sleep, TaskEnds, Destructed, Died, Exit, template
  <2>. QED BY <2>1, <2>2 DEF Quiet
<1>6. CASE ShutdownClear
  BY <1>6 DEF ShutdownClear, Quiet, template
<1>7. CASE Drain
  <2>1. Load = 0 => queue = <<>> /\ Running = {}
    BY <1>0, LoadCounts, NothingLeft
  <2>2. Load # 0 => phase' = "drain"
    BY <1>7 DEF Drain
  <2>. QED BY <1>7, <2>1, <2>2 DEF Drain, Quiet, template, Running
<1>8. CASE TerminateAllWorkers \/ Retire \/ Join
  <2>1. /\ UNCHANGED <<policy, queue, pc>>
        /\ phase \in {"quit", "retire", "join"}
    BY <1>8 DEF TerminateAllWorkers, Retire, Join, template
  <2>. QED BY <2>1 DEF Quiet, Running
<1>9. CASE \/ \E c \in Clients :
                \/ \E timed \in BOOLEAN, limit \in Limits : WaitCall(c, timed, limit)
                \/ WaitTest(c) \/ WaitTimedOut(c)
           \/ Spurious \/ UNCHANGED vars
  BY <1>2, <1>9 DEF WaitCall, WaitTest, WaitTimedOut, Spurious, vars, template
<1>. QED BY <1>1, <1>3, <1>4, <1>5, <1>6, <1>7, <1>8, <1>9 DEF Next, OwnerStep

\* Under wait_for_all_tasks and wait_for_active_tasks no task is pending or
\* running once the shutdown terminates the workers, nor at any time after.
THEOREM ShutdownCompletes == Spec => []ShutdownFinishesTasks
<1>1. Init => Quiet
  BY DEF Init, Quiet
<1>2. Quiet => ShutdownFinishesTasks
  BY DEF Quiet, ShutdownFinishesTasks, Pending
<1>. QED BY <1>1, <1>2, QuietStep, BasicAlways, PTL DEF Spec

-----------------------------------------------------------------------------
\* No waiter is forgotten.

LEMMA Busy ==
  ASSUME Basic', NEW w \in Workers, pc'[w] \in {"fetch", "run", "leave", "died"}
  PROVE  WaitersNotForgotten'
<1>1. Active' # {}
  BY DEF Active, Attached
<1>. QED BY <1>1, LoadCountsNext DEF Basic, WaitersNotForgotten

\* The pending tasks are dropped while a thread waits: a worker that one of the
\* schedules woke has not yet been back to look.
LEMMA Dropped ==
  ASSUME Basic, Basic', SleepersNotNeeded, WaitersNotForgotten, queue' = <<>>,
         UNCHANGED <<pc, worker_count, active_worker_count, sleeping, waiters>>
  PROVE  WaitersNotForgotten'
<1> SUFFICES ASSUME ~WaitersNotForgotten' PROVE FALSE
  OBVIOUS
<1>0. /\ waiters # {} /\ Load' = 0 /\ worker_count # 0
      /\ \A w \in Workers : pc[w] = "idle" => w \in sleeping
  BY DEF WaitersNotForgotten
<1>b. active_worker_count = 0
  <2>1. Types' /\ CountsExact'
    BY DEF Basic
  <2>2. active_worker_count' \in Nat /\ Len(queue') \in Nat
    BY <2>1, LoadCountsNext
  <2>. QED BY <1>0, <2>2 DEF Load
<1>1. Active = {} /\ Len(queue) \in Nat
  BY <1>b, LoadCounts DEF Basic
<1>2. Seeking = {}
  BY <1>0, <1>1 DEF Seeking, Active, Attached
<1>3. sleeping # {}
  <2>1. Attached # {}
    BY <1>0, FS_EmptySet DEF Basic, CountsExact
  <2>2. \E w \in Workers : pc[w] = "idle"
    BY <1>1, <2>1 DEF Active, Attached
  <2>. QED BY <1>0, <2>2
<1>4. Len(queue) = 0
  BY <1>1, <1>2, <1>3, FS_EmptySet DEF SleepersNotNeeded
<1>. QED BY <1>0, <1>b, <1>4 DEF WaitersNotForgotten, Load

\* Threads stop waiting and workers are woken; nobody begins to wait.
LEMMA FewerWaiting ==
  ASSUME WaitersNotForgotten, UNCHANGED <<pc, worker_count, active_worker_count, queue>>,
         waiters' \subseteq waiters, sleeping' \subseteq sleeping
  PROVE  WaitersNotForgotten'
BY DEF WaitersNotForgotten, Load

LEMMA WaitersStep ==
  Basic /\ Basic' /\ SleepersNotNeeded /\ WaitersNotForgotten /\ [Next]_vars
    => WaitersNotForgotten'
<1> SUFFICES ASSUME Basic, Basic', SleepersNotNeeded, WaitersNotForgotten, [Next]_vars
             PROVE  WaitersNotForgotten'
  OBVIOUS
<1>0. /\ active_worker_count \in Nat /\ Len(queue) \in Nat /\ Load \in Nat /\ Types
      /\ active_worker_count' \in Nat /\ Len(queue') \in Nat /\ Load' \in Nat
  BY LoadCounts, LoadCountsNext DEF Basic
<1>1. ASSUME NEW t \in Tasks, Schedule(t) PROVE WaitersNotForgotten'
  <2>1. Len(queue') # 0
    <3>1. Len(Push(t)) = Len(queue) + 1
      BY <1>0, PushOne
    <3>. QED BY <1>0, <1>1, <3>1 DEF Schedule
  <2>. QED BY <1>0, <2>1 DEF WaitersNotForgotten, Load
<1>2. CASE Clear \/ ShutdownClear
  BY <1>2, Dropped DEF Clear, ShutdownClear, DropPending, counts
<1>3. ASSUME NEW c \in Clients,
             \/ \E timed \in BOOLEAN, limit \in Limits : WaitCall(c, timed, limit)
             \/ WaitTimedOut(c)
      PROVE WaitersNotForgotten'
  BY <1>3, FewerWaiting DEF WaitCall, WaitTimedOut, counts
<1>4. ASSUME NEW c \in Clients, WaitTest(c) PROVE WaitersNotForgotten'
  <2>1. CASE Load <= call[c].limit
    BY <1>4, <2>1, FewerWaiting DEF WaitTest, Within, counts
  <2>2. CASE ~(Load <= call[c].limit)
    <3>1. call[c].limit \in Nat
      BY <1>0, LimitType
    <3>2. Load # 0
      BY <1>0, <2>2, <3>1
    <3>. QED BY <1>4, <3>2 DEF WaitTest, Within, WaitersNotForgotten, Load, counts
  <2>. QED BY <2>1, <2>2
<1>5. ASSUME NEW size \in Sizes, Resize(size) PROVE WaitersNotForgotten'
  <2>1. CASE pc' = pc
    <3>1. worker_count' = worker_count /\ active_worker_count' = active_worker_count
      BY <2>1 DEF Basic, CountsExact, Attached, Active
    <3>2. sleeping' \subseteq sleeping
      BY <1>5 DEF Resize, NotifySleepers
    <3>. QED BY <1>5, <2>1, <3>1, <3>2, FewerWaiting DEF Resize
  <2>2. CASE pc' # pc
    <3>1. PICK w \in Workers : pc'[w] # pc[w]
      <4>1. pc \in [Workers -> WorkerStates] /\ pc' \in [Workers -> WorkerStates]
        BY DEF Basic, Types
      <4>. QED BY <2>2, <4>1
    <3>2. pc'[w] = "fetch"
      BY <1>5, <3>1 DEF Resize
    <3>. QED BY <3>2, Busy
  <2>. QED BY <2>1, <2>2
<1>6. ASSUME NEW w \in Workers, WorkerStep(w) PROVE WaitersNotForgotten'
  <2>1. CASE Leave(w) \/ Take(w) \/ TaskEnds(w)
    <3>1. pc'[w] \in {"fetch", "run", "leave", "died"}
      BY <1>0, <2>1 DEF Leave, Take, TaskEnds, Types
    <3>. QED BY <3>1, Busy
  <2>2. CASE Sleep(w) \/ Destructed(w) \/ Died(w)
    BY <2>2 DEF Sleep, Destructed, Died, NotifyWaiters, WaitersNotForgotten
  <2>3. CASE Exit(w)
    BY <1>0, <2>3 DEF Exit, WaitersNotForgotten, Load, Types, counts
  <2>. QED BY <1>6, <2>1, <2>2, <2>3 DEF WorkerStep
<1>7. CASE Drain
  BY <1>7, <1>0 DEF Drain, WaitersNotForgotten, Load, counts
<1>8. CASE TerminateAllWorkers \/ Retire
  <2>1. CASE active_worker_count = 0
    BY <1>8, <2>1, FewerWaiting
    DEF TerminateAllWorkers, Retire, AwaitInactive, NotifySleepers, counts
  <2>2. CASE active_worker_count # 0
    BY <1>0, <1>8, <2>2
    DEF TerminateAllWorkers, Retire, WaitersNotForgotten, Load, counts
  <2>. QED BY <2>1, <2>2
<1>9. CASE ShutdownCall \/ Join \/ Spurious \/ UNCHANGED vars
  BY <1>9, FewerWaiting DEF ShutdownCall, Join, Spurious, vars, counts
<1>. QED BY <1>1, <1>2, <1>3, <1>4, <1>5, <1>6, <1>7, <1>8, <1>9 DEF Next, OwnerStep

\* A thread asleep in wait() or in the shutdown while nothing is pending or
\* active will be notified, in every pool that has a worker.
THEOREM NoWaiterForgotten == Spec => []WaitersNotForgotten
<1>1. Init => WaitersNotForgotten
  BY DEF Init, WaitersNotForgotten
<1>. QED BY <1>1, WaitersStep, NoSleeperNeeded, BasicAlways, PTL DEF Spec

-----------------------------------------------------------------------------
\* The tasks: each in one place, and taken in the order of the scheduler.

Distinct == \A i, j \in DOMAIN queue : i # j => queue[i] # queue[j]
ScheduledOnce == \A i, j \in DOMAIN scheduled : i # j => scheduled[i] # scheduled[j]
Known == {scheduled[i] : i \in DOMAIN scheduled}

LEMMA PushSet ==
  ASSUME Types, NEW t \in Tasks, queue' = Push(t), t \notin Pending, Distinct
  PROVE  Pending' = Pending \union {t} /\ Distinct'
<1>0. queue \in Seq(Tasks) /\ Len(queue) \in Nat
  BY DEF Types
<1>1. CASE queue' = Append(queue, t)
  <2>1. /\ DOMAIN queue' = 1..(Len(queue) + 1)
        /\ \A k \in 1..(Len(queue) + 1) :
             queue'[k] = IF k = Len(queue) + 1 THEN t ELSE queue[k]
    BY <1>0, <1>1
  <2>2. DOMAIN queue = 1..Len(queue)
    BY <1>0
  <2>3. Pending' = Pending \union {t}
    BY <1>0, <2>1, <2>2 DEF Pending
  <2>4. Distinct'
    BY <1>0, <2>1, <2>2 DEF Distinct, Pending
  <2>. QED BY <2>3, <2>4
<1>2. CASE queue' = <<t>> \o queue
  <2>1. /\ DOMAIN queue' = 1..(Len(queue) + 1)
        /\ \A k \in 1..(Len(queue) + 1) :
             queue'[k] = IF k = 1 THEN t ELSE queue[k - 1]
    BY <1>0, <1>2
  <2>2. DOMAIN queue = 1..Len(queue)
    BY <1>0
  <2>3. \A k \in 1..Len(queue) : k + 1 \in 1..(Len(queue) + 1) /\ queue'[k + 1] = queue[k]
    BY <1>0, <2>1
  <2>4. Pending' = Pending \union {t}
    <3>1. ASSUME NEW u \in Pending' PROVE u \in Pending \union {t}
      BY <1>0, <2>1, <2>2 DEF Pending
    <3>2. ASSUME NEW u \in Pending \union {t} PROVE u \in Pending'
      <4>1. CASE u = t
        <5>1. 1 \in 1..(Len(queue) + 1) /\ queue'[1] = t
          BY <1>0, <2>1
        <5>. QED BY <2>1, <4>1, <5>1 DEF Pending
      <4>2. CASE u \in Pending
        BY <2>1, <2>2, <2>3, <4>2 DEF Pending
      <4>. QED BY <3>2, <4>1, <4>2
    <3>. QED BY <3>1, <3>2
  <2>5. Distinct'
    BY <1>0, <2>1, <2>2 DEF Distinct, Pending
  <2>. QED BY <2>4, <2>5
<1>. QED BY <1>1, <1>2, PushOne

LEMMA PopSet ==
  ASSUME Types, Distinct, NEW i \in Tops, Pop(i)
  PROVE  /\ queue[i] \in Pending /\ Pending' = Pending \ {queue[i]}
         /\ Distinct'
<1>0. queue \in Seq(Tasks) /\ Len(queue) \in Nat /\ DOMAIN queue = 1..Len(queue)
  BY DEF Types
<1>1. /\ queue' \in Seq(Tasks) /\ Len(queue') = Len(queue) - 1 /\ i \in 1..Len(queue)
      /\ \A k \in 1..Len(queue') : queue'[k] = IF k < i THEN queue[k] ELSE queue[k + 1]
  BY PopOne
<1>2. DOMAIN queue' = 1..(Len(queue) - 1)
  BY <1>1
<1>3. queue[i] \in Pending
  BY <1>0, <1>1 DEF Pending
<1>4. ASSUME NEW u \in Pending' PROVE u \in Pending \ {queue[i]}
  BY <1>0, <1>1, <1>2, <1>4 DEF Pending, Distinct
<1>5. ASSUME NEW u \in Pending \ {queue[i]} PROVE u \in Pending'
  <2>1. PICK k \in 1..Len(queue) : queue[k] = u
    BY <1>0, <1>5 DEF Pending
  <2>2. CASE k < i
    BY <1>0, <1>1, <1>2, <2>1, <2>2 DEF Pending
  <2>3. CASE ~(k < i)
    <3>1. k - 1 \in 1..(Len(queue) - 1) /\ ~(k - 1 < i) /\ (k - 1) + 1 = k
      BY <1>0, <1>1, <1>5, <2>1, <2>3
    <3>2. queue'[k - 1] = u
      BY <1>1, <2>1, <3>1
    <3>. QED BY <1>2, <3>1, <3>2 DEF Pending
  <2>. QED BY <2>2, <2>3
<1>6. ASSUME NEW a \in DOMAIN queue', NEW b \in DOMAIN queue', a # b
      PROVE queue'[a] # queue'[b]
  <2> DEFINE At(k) == IF k < i THEN k ELSE k + 1
  <2>1. /\ At(a) \in 1..Len(queue) /\ At(b) \in 1..Len(queue) /\ At(a) # At(b)
    BY <1>0, <1>1, <1>2, <1>6
  <2>2. queue'[a] = queue[At(a)] /\ queue'[b] = queue[At(b)]
    BY <1>0, <1>1, <1>2
  <2> HIDE DEF At
  <2>. QED BY <1>0, <2>1, <2>2 DEF Distinct
<1>7. Distinct'
  BY <1>6 DEF Distinct
<1>. QED BY <1>3, <1>4, <1>5, <1>7

\* No task moves.
LEMMA TasksStill ==
  ASSUME TasksConserved, UNCHANGED <<queue, task, history>>, Running' = Running
  PROVE  TasksConserved'
BY DEF TasksConserved, Pending, history

LEMMA TasksDropped ==
  ASSUME TasksConserved, DropPending, UNCHANGED <<pc, task, scheduled>>
  PROVE  TasksConserved'
<1>1. Running' = Running /\ Pending' = {} /\ ended' = ended \union Pending
  BY DEF Running, Pending, DropPending
<1>. QED BY <1>1 DEF TasksConserved, DropPending

LEMMA TasksSchedule ==
  ASSUME Basic, TasksConserved, NEW t \in Tasks, Schedule(t)
  PROVE  TasksConserved'
<1>0. Types /\ scheduled \in Seq(Tasks)
  BY DEF Basic, Types
<1>1. t \notin Known /\ Known' = Known \union {t}
  <2>1. t \notin Known /\ scheduled' = Append(scheduled, t)
    BY DEF Schedule, Known
  <2>2. /\ Len(scheduled) \in Nat /\ DOMAIN scheduled = 1..Len(scheduled)
        /\ DOMAIN scheduled' = 1..(Len(scheduled) + 1)
        /\ \A k \in 1..(Len(scheduled) + 1) :
             scheduled'[k] = IF k = Len(scheduled) + 1 THEN t ELSE scheduled[k]
    BY <1>0, <2>1
  <2>. QED BY <2>1, <2>2 DEF Known
<1>2. /\ t \notin Pending /\ t \notin ended /\ \A w \in Running : task[w] # t
  BY <1>1 DEF TasksConserved, Known
<1>3. Pending' = Pending \union {t} /\ Distinct'
  BY <1>0, <1>2, PushSet DEF Schedule, TasksConserved, Distinct
<1>4. Running' = Running /\ task' = task /\ ended' = ended
  BY DEF Schedule, Running
<1>. QED BY <1>1, <1>2, <1>3, <1>4 DEF TasksConserved, Distinct, Known

LEMMA TasksTake ==
  ASSUME Basic, TasksConserved, NEW w \in Workers, Take(w)
  PROVE  TasksConserved'
<1>0. Types /\ Distinct
  BY DEF Basic, TasksConserved, Distinct
<1>1. PICK i \in Tops : task' = [task EXCEPT ![w] = queue[i]] /\ Pop(i)
  BY DEF Take
<1>2. queue[i] \in Pending /\ Pending' = Pending \ {queue[i]} /\ Distinct'
  BY <1>0, <1>1, PopSet
<1>3. Running' = Running \union {w} /\ w \notin Running
  BY <1>0, Move DEF Take, Looking, Running, WorkerStates
<1>4. /\ task'[w] = queue[i] /\ \A v \in Running : task'[v] = task[v]
      /\ UNCHANGED history
  BY <1>0, <1>1, <1>3 DEF Take, Types, Running
<1>. QED BY <1>2, <1>3, <1>4 DEF TasksConserved, Distinct, history

LEMMA TasksEnds ==
  ASSUME Basic, TasksConserved, NEW w \in Workers, TaskEnds(w)
  PROVE  TasksConserved'
<1>0. Types
  BY DEF Basic
<1>1. Running' = Running \ {w} /\ w \in Running
  BY <1>0, Move DEF TaskEnds, Running, WorkerStates
<1>2. /\ \A v \in Running \ {w} : task'[v] = task[v]
      /\ ended' = ended \union {task[w]} /\ UNCHANGED <<queue, scheduled>>
      /\ Pending' = Pending
  BY <1>0, <1>1 DEF TaskEnds, Types, Running, Pending
<1>. QED BY <1>1, <1>2 DEF TasksConserved

LEMMA TasksStep == Basic /\ TasksConserved /\ [Next]_vars => TasksConserved'
<1> SUFFICES ASSUME Basic, TasksConserved, [Next]_vars PROVE TasksConserved'
  OBVIOUS
<1>0. Types
  BY DEF Basic
<1>1. ASSUME NEW t \in Tasks, Schedule(t) PROVE TasksConserved'
  BY <1>1, TasksSchedule
<1>2. CASE Clear \/ ShutdownClear
  BY <1>2, TasksDropped DEF Clear, ShutdownClear
<1>3. ASSUME NEW c \in Clients,
             \/ \E timed \in BOOLEAN, limit \in Limits : WaitCall(c, timed, limit)
             \/ WaitTest(c) \/ WaitTimedOut(c)
      PROVE TasksConserved'
  BY <1>3, TasksStill DEF WaitCall, WaitTest, WaitTimedOut, Running
<1>4. ASSUME NEW size \in Sizes, Resize(size) PROVE TasksConserved'
  <2>1. Running' = Running
    BY <1>0, <1>4 DEF Resize, Spawns, Free, Running, Types
  <2>. QED BY <1>4, <2>1, TasksStill DEF Resize
<1>5. ASSUME NEW w \in Workers, WorkerStep(w) PROVE TasksConserved'
  <2>1. CASE Leave(w) \/ Sleep(w) \/ Destructed(w) \/ Died(w) \/ Exit(w)
    <3>1. Running' = Running
      BY <1>0, <2>1
      DEF Leave, Sleep, Looking, Destructed, Died, Spawns, Free, Exit, Running, Types
    <3>. QED BY <2>1, <3>1, TasksStill DEF Leave, Sleep, Destructed, Died, Exit
  <2>. QED BY <1>5, <2>1, TasksTake, TasksEnds DEF WorkerStep
<1>6. CASE \/ ShutdownCall \/ Drain \/ TerminateAllWorkers \/ Retire \/ Join
           \/ Spurious \/ UNCHANGED vars
  BY <1>6, TasksStill
  DEF ShutdownCall, Drain, TerminateAllWorkers, Retire, Join, Spurious, vars, Running
<1>. QED BY <1>1, <1>2, <1>3, <1>4, <1>5, <1>6 DEF Next, OwnerStep

\* A task is pending, with one worker, or over: it is never run twice, and
\* none is lost on the way through the containers, a resize or a death.
THEOREM NoTaskLost == Spec => []TasksConserved
<1>1. Init => TasksConserved
  BY DEF Init, TasksConserved, Pending, Running
<1>. QED BY <1>1, TasksStep, BasicAlways, PTL DEF Spec

-----------------------------------------------------------------------------
\* The order of the containers: fifo and prio keep the pending tasks in the
\* order of the calls of schedule, lifo in the reverse order.

Before(a, b) == IF scheduler = "lifo" THEN b < a ELSE a < b

OrderKept ==
  \A i, j \in DOMAIN queue : \A a, b \in DOMAIN scheduled :
    (i < j /\ scheduled[a] = queue[i] /\ scheduled[b] = queue[j]) => Before(a, b)

InOrder == TasksConserved /\ ScheduledOnce /\ OrderKept

LEMMA OrderSchedule ==
  ASSUME Basic, InOrder, NEW t \in Tasks, Schedule(t)
  PROVE  ScheduledOnce' /\ OrderKept'
<1>0. /\ queue \in Seq(Tasks) /\ Len(queue) \in Nat /\ DOMAIN queue = 1..Len(queue)
      /\ scheduled \in Seq(Tasks) /\ Len(scheduled) \in Nat
      /\ DOMAIN scheduled = 1..Len(scheduled)
      /\ scheduler' = scheduler
  BY DEF Basic, Types, Schedule, template
<1> DEFINE last == Len(scheduled) + 1
<1>1. /\ DOMAIN scheduled' = 1..last /\ last \in Nat
      /\ scheduled'[last] = t
      /\ \A a \in 1..last : a # last => a \in 1..Len(scheduled) /\ scheduled'[a] = scheduled[a]
  BY <1>0 DEF Schedule
<1>2. \A a \in 1..Len(scheduled) : scheduled[a] # t
  BY <1>0 DEF Schedule
<1>3. \A k \in 1..Len(queue) : queue[k] # t
  <2>1. Pending \subseteq Known
    BY DEF InOrder, TasksConserved, Known
  <2>. QED BY <1>0, <1>2, <2>1 DEF Pending, Known
<1>4. ScheduledOnce'
  BY <1>0, <1>1, <1>2 DEF ScheduledOnce, InOrder
<1> HIDE DEF last
<1>5. ASSUME NEW i \in DOMAIN queue', NEW j \in DOMAIN queue',
             NEW a \in DOMAIN scheduled', NEW b \in DOMAIN scheduled',
             i < j, scheduled'[a] = queue'[i], scheduled'[b] = queue'[j]
      PROVE Before(a, b)
  <2>1. CASE scheduler = "lifo"
    <3>1. queue' = <<t>> \o queue
      BY <2>1 DEF Schedule, Push
    <3>2. /\ DOMAIN queue' = 1..(Len(queue) + 1) /\ queue'[1] = t
          /\ \A k \in 1..(Len(queue) + 1) :
               k # 1 => k - 1 \in 1..Len(queue) /\ queue'[k] = queue[k - 1]
      BY <1>0, <3>1
    <3>3. j - 1 \in 1..Len(queue) /\ queue'[j] = queue[j - 1]
      BY <1>0, <1>5, <3>2
    <3>4. b \in 1..Len(scheduled) /\ scheduled'[b] = scheduled[b]
      BY <1>1, <1>3, <1>5, <3>3
    <3>5. CASE i = 1
      <4>1. a = last
        BY <1>1, <1>2, <1>5, <3>2, <3>5
      <4>. QED BY <1>0, <2>1, <3>4, <4>1 DEF last, Before
    <3>6. CASE i # 1
      <4>1. i - 1 \in 1..Len(queue) /\ queue'[i] = queue[i - 1] /\ i - 1 < j - 1
        BY <1>0, <1>5, <3>2, <3>6
      <4>2. a \in 1..Len(scheduled) /\ scheduled'[a] = scheduled[a]
        BY <1>1, <1>3, <1>5, <4>1
      <4>. QED BY <1>0, <1>5, <3>3, <3>4, <4>1, <4>2 DEF InOrder, OrderKept
    <3>. QED BY <3>5, <3>6
  <2>2. CASE scheduler # "lifo"
    <3>1. queue' = Append(queue, t)
      BY <2>2 DEF Schedule, Push
    <3>2. /\ DOMAIN queue' = 1..(Len(queue) + 1) /\ queue'[Len(queue) + 1] = t
          /\ \A k \in 1..(Len(queue) + 1) :
               k # Len(queue) + 1 => k \in 1..Len(queue) /\ queue'[k] = queue[k]
      BY <1>0, <3>1
    <3>3. i \in 1..Len(queue) /\ queue'[i] = queue[i]
      BY <1>0, <1>5, <3>2
    <3>4. a \in 1..Len(scheduled) /\ scheduled'[a] = scheduled[a]
      BY <1>1, <1>3, <1>5, <3>3
    <3>5. CASE j = Len(queue) + 1
      <4>1. b = last
        BY <1>1, <1>2, <1>5, <3>2, <3>5
      <4>. QED BY <1>0, <2>2, <3>4, <4>1 DEF last, Before
    <3>6. CASE j # Len(queue) + 1
      <4>1. j \in 1..Len(queue) /\ queue'[j] = queue[j]
        BY <1>0, <1>5, <3>2, <3>6
      <4>2. b \in 1..Len(scheduled) /\ scheduled'[b] = scheduled[b]
        BY <1>1, <1>3, <1>5, <4>1
      <4>. QED BY <1>0, <1>5, <3>3, <3>4, <4>1, <4>2 DEF InOrder, OrderKept
    <3>. QED BY <3>5, <3>6
  <2>. QED BY <2>1, <2>2
<1>6. OrderKept'
  BY <1>0, <1>5 DEF OrderKept, Before
<1>. QED BY <1>4, <1>6

LEMMA OrderTake ==
  ASSUME Basic, InOrder, NEW w \in Workers, Take(w)
  PROVE  ScheduledOnce' /\ OrderKept'
<1>0. /\ Types /\ queue \in Seq(Tasks) /\ Len(queue) \in Nat /\ DOMAIN queue = 1..Len(queue)
      /\ UNCHANGED <<scheduler, scheduled>>
  BY DEF Basic, Types, Take, template, history
<1>1. PICK i \in Tops : Pop(i)
  BY DEF Take
<1>2. /\ queue' \in Seq(Tasks) /\ Len(queue') = Len(queue) - 1 /\ i \in 1..Len(queue)
      /\ \A k \in 1..Len(queue') : queue'[k] = IF k < i THEN queue[k] ELSE queue[k + 1]
  BY <1>0, <1>1, PopOne
<1> DEFINE At(k) == IF k < i THEN k ELSE k + 1
<1>3. ASSUME NEW j \in DOMAIN queue', NEW k \in DOMAIN queue', j < k
      PROVE  /\ At(j) \in DOMAIN queue /\ At(k) \in DOMAIN queue /\ At(j) < At(k)
             /\ queue'[j] = queue[At(j)] /\ queue'[k] = queue[At(k)]
  BY <1>0, <1>2, <1>3
<1> HIDE DEF At
<1>4. OrderKept'
  BY <1>0, <1>3 DEF InOrder, OrderKept, Before
<1>. QED BY <1>0, <1>4 DEF InOrder, ScheduledOnce

\* The pending tasks stay as they are, or are all dropped.
LEMMA OrderStill ==
  ASSUME InOrder, UNCHANGED <<scheduler, scheduled>>, queue' = queue \/ queue' = <<>>
  PROVE  ScheduledOnce' /\ OrderKept'
BY DEF InOrder, ScheduledOnce, OrderKept, Before

LEMMA OrderStep == Basic /\ InOrder /\ [Next]_vars => InOrder'
<1> SUFFICES ASSUME Basic, InOrder, [Next]_vars PROVE ScheduledOnce' /\ OrderKept'
  BY TasksStep DEF InOrder
<1>1. ASSUME NEW t \in Tasks, Schedule(t) PROVE ScheduledOnce' /\ OrderKept'
  BY <1>1, OrderSchedule
<1>2. ASSUME NEW w \in Workers, WorkerStep(w), ~Take(w) PROVE ScheduledOnce' /\ OrderKept'
  BY <1>2, OrderStill
  DEF WorkerStep, Leave, Sleep, TaskEnds, Destructed, Died, Exit, template, history
<1>3. CASE Clear \/ ShutdownClear
  BY <1>3, OrderStill DEF Clear, ShutdownClear, DropPending, template
<1>4. ASSUME NEW c \in Clients,
             \/ \E timed \in BOOLEAN, limit \in Limits : WaitCall(c, timed, limit)
             \/ WaitTest(c) \/ WaitTimedOut(c)
      PROVE ScheduledOnce' /\ OrderKept'
  BY <1>4, OrderStill DEF WaitCall, WaitTest, WaitTimedOut, template, history
<1>5. CASE \/ \E size \in Sizes : Resize(size)
           \/ ShutdownCall \/ Drain \/ TerminateAllWorkers \/ Retire \/ Join
           \/ Spurious \/ UNCHANGED vars
  BY <1>5, OrderStill
  DEF Resize, ShutdownCall, Drain, TerminateAllWorkers, Retire, Join, Spurious, vars,
      template, history
<1>. QED BY <1>1, <1>2, <1>3, <1>4, <1>5, OrderTake DEF Next, OwnerStep

\* Of the tasks pending together the one that goes first under the scheduler of
\* the pool is performed first, whatever was scheduled or cleared before.
THEOREM TakenInOrder == Spec => StartsInOrder
<1>1. ASSUME Basic, InOrder, [Next]_vars, NEW w \in Workers,
             task[w] = NoTask, task'[w] # NoTask,
             NEW a \in DOMAIN scheduled, NEW b \in DOMAIN scheduled,
             scheduled[a] = task'[w], scheduled[b] \in Pending', a # b
      PROVE CASE scheduler = "fifo" -> a < b
              [] scheduler = "lifo" -> b < a
              [] scheduler = "prio" -> scheduled[b] \in High => scheduled[a] \in High
  <2>0. Types /\ Distinct
    BY <1>1 DEF Basic, InOrder, TasksConserved, Distinct
  <2>1. Take(w)
    <3>1. task' = task \/ \E v \in Workers : Take(v) \/ TaskEnds(v)
      BY <1>1 DEF Next, Schedule, Clear, WaitCall, WaitTest, WaitTimedOut, Resize,
         WorkerStep, Leave, Sleep, Destructed, Died, Exit, ShutdownCall, OwnerStep,
         ShutdownClear, Drain, TerminateAllWorkers, Retire, Join, Spurious, vars
    <3>2. PICK v \in Workers : Take(v) \/ TaskEnds(v)
      BY <1>1, <3>1
    <3>. QED BY <1>1, <2>0, <3>2 DEF Take, TaskEnds, Types
  <2>2. PICK i \in Tops : task' = [task EXCEPT ![w] = queue[i]] /\ Pop(i)
    BY <2>1 DEF Take
  <2>3. scheduled[a] = queue[i] /\ i \in DOMAIN queue
    BY <1>1, <2>0, <2>2 DEF Types, Tops
  <2>4. scheduled[b] \in Pending /\ scheduled[b] # queue[i]
    BY <1>1, <2>0, <2>2, PopSet
  <2>5. PICK k \in DOMAIN queue : queue[k] = scheduled[b] /\ k # i
    BY <2>4 DEF Pending
  <2>6. CASE scheduler = "prio"
    BY <2>2, <2>3, <2>4, <2>6 DEF Tops
  <2>7. CASE scheduler # "prio"
    <3>1. i = 1
      BY <2>2, <2>7 DEF Tops
    <3>2. i < k
      <4>1. queue \in Seq(Tasks)
        BY <2>0 DEF Types
      <4>. QED BY <2>5, <3>1, <4>1
    <3>3. Before(a, b)
      BY <1>1, <2>3, <2>5, <3>2 DEF InOrder, OrderKept
    <3>4. scheduler \in {"fifo", "lifo"}
      BY <2>0, <2>7, PoolCoreAssumption DEF Types, PoolCoreAssumption
    <3>. QED BY <3>3, <3>4 DEF Before
  <2>. QED BY <2>6, <2>7
<1>2. Basic /\ InOrder /\ [Next]_vars =>
        [\A w \in Workers :
           (task[w] = NoTask /\ task'[w] # NoTask) =>
             \A i, j \in DOMAIN scheduled :
               (scheduled[i] = task'[w] /\ scheduled[j] \in Pending' /\ i # j) =>
                 CASE scheduler = "fifo" -> i < j
                   [] scheduler = "lifo" -> j < i
                   [] scheduler = "prio" -> scheduled[j] \in High => scheduled[i] \in High
        ]_vars
  BY <1>1
<1>3. Init => InOrder
  <2>1. Init => TasksConserved
    BY DEF Init, TasksConserved, Pending, Running
  <2>. QED BY <2>1 DEF Init, InOrder, ScheduledOnce, OrderKept
<1>. QED BY <1>2, <1>3, OrderStep, BasicAlways, PTL DEF Spec, StartsInOrder
-----------------------------------------------------------------------------
(***************************************************************************)
(* The refinement: every step of the pool is one of TaskPool, or one that  *)
(* no client can see.                                                      *)
(***************************************************************************)

\* TaskPool's operators are those of the libraries.
LEMMA SameOperators ==
  ASSUME NEW s, NEW i
  PROVE  Promise!RemoveAt(s, i) = RemoveAt(s, i) /\ Promise!Cardinality(s) = Cardinality(s)
BY DEF Promise!RemoveAt, RemoveAt, Promise!Cardinality, Cardinality

LEMMA Reversed ==
  ASSUME NEW S, NEW s \in Seq(S)
  PROVE  /\ Reverse(s) \in Seq(S) /\ Len(Reverse(s)) = Len(s)
         /\ \A k \in 1..Len(s) : /\ Len(s) + 1 - k \in 1..Len(s)
                                 /\ Reverse(s)[k] = s[Len(s) + 1 - k]
<1>1. Len(s) \in Nat /\ s \in [1..Len(s) -> S]
  OBVIOUS
<1>2. Reverse(s) = [k \in 1..Len(s) |-> s[(Len(s) - k) + 1]]
  BY DEF Reverse
<1>3. \A k \in 1..Len(s) : /\ (Len(s) - k) + 1 = Len(s) + 1 - k
                           /\ Len(s) + 1 - k \in 1..Len(s)
  BY <1>1
<1>4. Reverse(s) \in [1..Len(s) -> S]
  BY <1>1, <1>2, <1>3
<1>. QED BY <1>1, <1>2, <1>3, <1>4

\* The pending tasks by age are those of the container, in their order or in
\* the reverse one.
LEMMA AgeTypes ==
  ASSUME Types
  PROVE  /\ ByAge \in Seq(Tasks) /\ Len(ByAge) = Len(queue) /\ Len(queue) \in Nat
         /\ \A k \in 1..Len(queue) :
              ByAge[k] = IF scheduler = "lifo" THEN queue[Len(queue) + 1 - k] ELSE queue[k]
         /\ Promise!Waiting = Pending
         /\ queue = <<>> => ByAge = <<>>
<1>0. queue \in Seq(Tasks) /\ Len(queue) \in Nat /\ DOMAIN queue = 1..Len(queue)
  BY DEF Types
<1>1. CASE scheduler # "lifo"
  BY <1>0, <1>1 DEF ByAge, Promise!Waiting, Pending
<1>2. CASE scheduler = "lifo"
  <2>1. /\ ByAge \in Seq(Tasks) /\ Len(ByAge) = Len(queue)
        /\ \A k \in 1..Len(queue) : /\ Len(queue) + 1 - k \in 1..Len(queue)
                                    /\ ByAge[k] = queue[Len(queue) + 1 - k]
    BY <1>0, <1>2, Reversed DEF ByAge
  <2>2. DOMAIN ByAge = 1..Len(queue) /\ (queue = <<>> => ByAge = <<>>)
    BY <1>0, <2>1
  <2>3. \A k \in 1..Len(queue) : queue[k] = ByAge[Len(queue) + 1 - k]
    <3> TAKE k \in 1..Len(queue)
    <3>1. Len(queue) + 1 - (Len(queue) + 1 - k) = k
      BY <1>0
    <3>. QED BY <2>1, <3>1
  <2>4. Promise!Waiting = Pending
    BY <1>0, <2>1, <2>2, <2>3 DEF Promise!Waiting, Pending
  <2>. QED BY <1>0, <1>2, <2>1, <2>2, <2>4
<1>. QED BY <1>1, <1>2

\* The same of the next state.
LEMMA AgeTypesNext ==
  ASSUME Types'
  PROVE  /\ ByAge' \in Seq(Tasks) /\ Len(ByAge') = Len(queue') /\ Len(queue') \in Nat
         /\ \A k \in 1..Len(queue') :
              ByAge'[k] = IF scheduler' = "lifo" THEN queue'[Len(queue') + 1 - k] ELSE queue'[k]
         /\ queue' = <<>> => ByAge' = <<>>
<1>0. queue' \in Seq(Tasks) /\ Len(queue') \in Nat
  BY DEF Types
<1>1. CASE scheduler' # "lifo"
  BY <1>0, <1>1 DEF ByAge
<1>2. CASE scheduler' = "lifo"
  <2>1. /\ ByAge' \in Seq(Tasks) /\ Len(ByAge') = Len(queue')
        /\ \A k \in 1..Len(queue') : ByAge'[k] = queue'[Len(queue') + 1 - k]
    BY <1>0, <1>2, Reversed DEF ByAge
  <2>. QED BY <1>0, <1>2, <2>1
<1>. QED BY <1>1, <1>2

\* A scheduled task is the youngest.
LEMMA AgePush ==
  ASSUME Types, Types', NEW t \in Tasks, Schedule(t)
  PROVE  ByAge' = Append(ByAge, t)
<1>0. /\ queue \in Seq(Tasks) /\ Len(queue) \in Nat /\ scheduler' = scheduler
      /\ queue' = IF scheduler = "lifo" THEN <<t>> \o queue ELSE Append(queue, t)
  BY DEF Types, Schedule, Push, template
<1>1. CASE scheduler # "lifo"
  BY <1>0, <1>1 DEF ByAge
<1>2. CASE scheduler = "lifo"
  <2> DEFINE n == Len(queue)
  <2>1. /\ queue' = <<t>> \o queue /\ Len(queue') = n + 1 /\ queue'[1] = t
        /\ \A k \in 2..(n + 1) : queue'[k] = queue[k - 1]
    BY <1>0, <1>2
  <2>2. /\ ByAge \in Seq(Tasks) /\ Len(ByAge) = n
        /\ \A k \in 1..n : ByAge[k] = queue[n + 1 - k]
    BY <1>2, AgeTypes
  <2>3. /\ ByAge' \in Seq(Tasks) /\ Len(ByAge') = n + 1
        /\ \A k \in 1..(n + 1) : ByAge'[k] = queue'[(n + 1) + 1 - k]
    BY <1>0, <1>2, <2>1, AgeTypesNext
  <2>4. /\ Append(ByAge, t) \in Seq(Tasks) /\ Len(Append(ByAge, t)) = n + 1
        /\ Append(ByAge, t)[n + 1] = t
        /\ \A k \in 1..n : Append(ByAge, t)[k] = ByAge[k]
    BY <1>0, <2>2
  <2>5. ASSUME NEW k \in 1..(n + 1) PROVE ByAge'[k] = Append(ByAge, t)[k]
    <3>1. CASE k = n + 1
      <4>1. (n + 1) + 1 - k = 1
        BY <1>0, <3>1
      <4>. QED BY <2>1, <2>3, <2>4, <3>1, <4>1
    <3>2. CASE k # n + 1
      <4>1. /\ k \in 1..n /\ (n + 1) + 1 - k \in 2..(n + 1)
            /\ ((n + 1) + 1 - k) - 1 = n + 1 - k
        BY <1>0, <3>2
      <4>2. queue'[(n + 1) + 1 - k] = queue[n + 1 - k]
        BY <2>1, <4>1
      <4>. QED BY <2>2, <2>3, <2>4, <4>1, <4>2
    <3>. QED BY <3>1, <3>2
  <2> HIDE DEF n
  <2>. QED BY <2>3, <2>4, <2>5, SeqEqual
<1>. QED BY <1>1, <1>2

\* The task that the scheduler gives first is one that may start first.
LEMMA AgePop ==
  ASSUME Types, Types', NEW i \in Tops, Pop(i), scheduler' = scheduler
  PROVE  \E k \in Promise!First : /\ k \in DOMAIN ByAge /\ ByAge[k] = queue[i]
                                  /\ ByAge' = RemoveAt(ByAge, k)
<1> DEFINE n == Len(queue)
<1>0. /\ queue \in Seq(Tasks) /\ n \in Nat /\ i \in 1..n /\ DOMAIN queue = 1..n
      /\ Len(queue') = n - 1
      /\ \A k \in 1..(n - 1) : queue'[k] = IF k < i THEN queue[k] ELSE queue[k + 1]
      /\ scheduler \in {"fifo", "lifo", "prio"}
  <2>1. /\ Len(queue') = Len(queue) - 1 /\ i \in 1..Len(queue)
        /\ \A k \in 1..Len(queue') : queue'[k] = IF k < i THEN queue[k] ELSE queue[k + 1]
    BY PopOne
  <2>. QED BY <2>1, PoolCoreAssumption DEF Types, PoolCoreAssumption
<1>1. /\ ByAge \in Seq(Tasks) /\ Len(ByAge) = n /\ DOMAIN ByAge = 1..n
      /\ \A k \in 1..n : ByAge[k] = IF scheduler = "lifo" THEN queue[n + 1 - k] ELSE queue[k]
      /\ Promise!Waiting = Pending
  BY AgeTypes
<1>2. CASE scheduler # "lifo"
  <2>1. i \in Promise!First
    BY <1>0, <1>1, <1>2 DEF Promise!First, Tops
  <2>2. ByAge = queue /\ ByAge' = queue'
    BY <1>2 DEF ByAge
  <2>. QED BY <1>0, <1>1, <2>1, <2>2 DEF Pop
<1>3. CASE scheduler = "lifo"
  <2>1. i = 1
    BY <1>3 DEF Tops
  <2>2. n \in Promise!First /\ n \in DOMAIN ByAge
    BY <1>0, <1>1, <1>3, <2>1 DEF Promise!First
  <2>3. ByAge[n] = queue[i]
    <3>1. n \in 1..n /\ n + 1 - n = 1
      BY <1>0, <2>1
    <3>. QED BY <1>1, <1>3, <2>1, <3>1
  <2>4. /\ ByAge' \in Seq(Tasks) /\ Len(ByAge') = n - 1
        /\ \A k \in 1..(n - 1) : ByAge'[k] = queue'[(n - 1) + 1 - k]
    BY <1>0, <1>3, AgeTypesNext
  <2>5. /\ RemoveAt(ByAge, n) \in Seq(Tasks) /\ Len(RemoveAt(ByAge, n)) = n - 1
        /\ \A k \in 1..(n - 1) : RemoveAt(ByAge, n)[k] = IF k < n THEN ByAge[k] ELSE ByAge[k + 1]
    <3>1. n \in 1..Len(ByAge)
      BY <1>0, <1>1, <2>1
    <3>. QED BY <1>1, <3>1, WithoutOne
  <2>6. ASSUME NEW k \in 1..(n - 1) PROVE ByAge'[k] = RemoveAt(ByAge, n)[k]
    <3>1. /\ k \in 1..n /\ k < n /\ (n - 1) + 1 - k \in 1..(n - 1)
          /\ ~((n - 1) + 1 - k < 1) /\ ((n - 1) + 1 - k) + 1 = n + 1 - k
      BY <1>0
    <3>2. queue'[(n - 1) + 1 - k] = queue[n + 1 - k]
      BY <1>0, <2>1, <3>1
    <3>. QED BY <1>1, <1>3, <2>4, <2>5, <3>1, <3>2
  <2> HIDE DEF n
  <2>7. ByAge' = RemoveAt(ByAge, n)
    BY <2>4, <2>5, <2>6, SeqEqual
  <2>. QED BY <2>2, <2>3, <2>7
<1>. QED BY <1>2, <1>3

\* No more tasks are performed than workers are active.
LEMMA PerformedCount ==
  ASSUME Types, CountsExact
  PROVE  Cardinality(Performed) \in Nat /\ Cardinality(Performed) <= active_worker_count
<1> DEFINE f == [w \in Running |-> task[w]]
<1>1. Running \subseteq Active /\ IsFiniteSet(Active) /\ IsFiniteSet(Running)
  <2>1. Running \in SUBSET Workers /\ Running \subseteq Active
    BY DEF Running, Active, Attached
  <2>. QED BY <2>1, Classes, Finite
<1>2. f \in Surjection(Running, Performed)
  BY DEF Surjection, Performed
<1> HIDE DEF f
<1>3. IsFiniteSet(Performed) /\ Cardinality(Performed) <= Cardinality(Running)
  BY <1>1, <1>2, FS_Surjection
<1>4. Cardinality(Running) <= Cardinality(Active)
  BY <1>1, FS_Subset
<1>5. /\ Cardinality(Performed) \in Nat /\ Cardinality(Running) \in Nat
      /\ Cardinality(Active) \in Nat
  BY <1>1, <1>3, FS_CardinalityType
<1>. QED BY <1>3, <1>4, <1>5 DEF CountsExact

\* Only the policies that clear do so.
ClearPhase == phase = "clear" => policy # "wait_for_all_tasks"

Serving == Basic /\ InOrder /\ ClearPhase

LEMMA ServingStep == Serving /\ [Next]_vars => Serving'
<1>1. ASSUME Serving, [Next]_vars PROVE ClearPhase'
  BY <1>1 DEF Serving, ClearPhase, Next, Schedule, Clear, WaitCall, WaitTest, WaitTimedOut,
     Resize, WorkerStep, Leave, Sleep, Take, TaskEnds, Destructed, Died, Exit, ShutdownCall,
     OwnerStep, ShutdownClear, Drain, TerminateAllWorkers, AwaitInactive, Retire, Join,
     Spurious, vars, template
<1>. QED BY <1>1, BasicStep, OrderStep DEF Serving

LEMMA ServingAlways == Spec => []Serving
<1>1. Init => Serving
  <2>1. Init => TasksConserved
    BY DEF Init, TasksConserved, Pending, Running
  <2>. QED BY <2>1, BasicInit
       DEF Init, Serving, InOrder, ScheduledOnce, OrderKept, ClearPhase
<1>. QED BY <1>1, ServingStep, PTL DEF Spec

LEMMA InitPromise == Init => Promise!Init
<1> SUFFICES ASSUME Init PROVE Promise!Init
  OBVIOUS
<1>1. Types
  BY BasicInit DEF Basic
<1>2. ByAge = <<>> /\ Performed = {} /\ Stage = "open"
  BY <1>1, AgeTypes DEF Init, Performed, Running, Stage
<1>. QED BY <1>2 DEF Init, Promise!Init, NoCall, Promise!NoCall

\* What a client sees of a step that moves no task, ends no call and no phase.
LEMMA Unseen ==
  ASSUME UNCHANGED <<scheduler, policy, queue, task, ended, call>>, Running' = Running,
         Stage' = Stage
  PROVE  UNCHANGED Promise!vars
BY DEF Promise!vars, ByAge, Performed

LEMMA SubmitStep ==
  ASSUME Serving, Serving', NEW t \in Tasks, Schedule(t)
  PROVE  Promise!Submit(t)
<1>0. Types /\ Types' /\ TasksConserved
  BY DEF Serving, Basic, InOrder
<1>1. t \notin Promise!Waiting \union Performed \union ended
  <2>1. t \notin Known
    BY DEF Schedule, Known
  <2>. QED BY <1>0, <2>1, AgeTypes DEF TasksConserved, Performed, Known
<1>2. Performed' = Performed /\ Stage = "open" /\ Stage' = "open"
  BY DEF Schedule, Performed, Running, Stage
<1>3. ByAge' = Append(ByAge, t)
  BY <1>0, AgePush
<1>. QED BY <1>1, <1>2, <1>3 DEF Promise!Submit, Schedule, template

LEMMA StartStep ==
  ASSUME Serving, Serving', NEW w \in Workers, Take(w)
  PROVE  \E k \in DOMAIN ByAge : Promise!Start(k)
<1>0. Types /\ Types'
  BY DEF Serving, Basic
<1>1. PICK i \in Tops : task' = [task EXCEPT ![w] = queue[i]] /\ Pop(i)
  BY DEF Take
<1>2. PICK k \in Promise!First : /\ k \in DOMAIN ByAge /\ ByAge[k] = queue[i]
                                 /\ ByAge' = RemoveAt(ByAge, k)
  BY <1>0, <1>1, AgePop DEF Take, template
<1>3. Performed' = Performed \union {queue[i]}
  <2>1. Running' = Running \union {w} /\ w \notin Running
    BY <1>0, Move DEF Take, Looking, Running, WorkerStates
  <2>2. task'[w] = queue[i] /\ \A v \in Running : task'[v] = task[v]
    BY <1>0, <1>1, <2>1 DEF Types, Running
  <2>. QED BY <2>1, <2>2 DEF Performed
<1>4. Stage' = Stage
  BY DEF Take, Stage
<1>5. Promise!Start(k)
  BY <1>2, <1>3, <1>4, SameOperators DEF Promise!Start, Take, template, history
<1>. QED BY <1>2, <1>5

LEMMA FinishStep ==
  ASSUME Serving, NEW w \in Workers, TaskEnds(w)
  PROVE  \E t \in Tasks : Promise!Finish(t)
<1>0. Types /\ TasksConserved
  BY DEF Serving, Basic, InOrder
<1>1. Running' = Running \ {w} /\ w \in Running
  BY <1>0, Move DEF TaskEnds, Running, WorkerStates
<1>2. task[w] \in Performed /\ Performed' = Performed \ {task[w]}
  <2>1. \A v \in Running \ {w} : task'[v] = task[v] /\ task[v] # task[w]
    BY <1>0, <1>1 DEF TaskEnds, Types, Running, TasksConserved
  <2>. QED BY <1>1, <2>1 DEF Performed
<1>3. task[w] \in Tasks
  BY <1>0, <1>1 DEF Serving, Basic, WorkersInPlace, Types, Running
<1>4. Stage' = Stage /\ ByAge' = ByAge /\ ended' = ended \union {task[w]}
  BY DEF TaskEnds, Stage, ByAge, template
<1>5. Promise!Finish(task[w])
  BY <1>2, <1>4 DEF Promise!Finish, TaskEnds, template
<1>. QED BY <1>3, <1>5

LEMMA DropStep ==
  ASSUME Types, Types', DropPending, UNCHANGED <<template, pc, task, call>>
  PROVE  Promise!Drop
<1>1. ByAge' = <<>>
  BY AgeTypesNext DEF DropPending
<1>2. Performed' = Performed
  BY DEF Performed, Running
<1>. QED BY <1>1, <1>2, AgeTypes DEF Promise!Drop, DropPending, template

\* The return of wait: by its threshold, or by its time limit.
LEMMA ReturnStep ==
  ASSUME Serving, NEW c \in Clients, WaitTest(c) \/ WaitTimedOut(c)
  PROVE  Promise!WaitReturn(c) \/ UNCHANGED Promise!vars
<1>0. /\ Types /\ CountsExact
      /\ UNCHANGED <<scheduler, policy, queue, task, pc, phase, ended>>
  BY DEF Serving, Basic, WaitTest, WaitTimedOut, template, history
<1>1. ByAge' = ByAge /\ Performed' = Performed /\ Stage' = Stage /\ Running' = Running
  BY <1>0 DEF ByAge, Performed, Running, Stage
<1>2. CASE call' = call
  BY <1>0, <1>1, <1>2 DEF Promise!vars
<1>3. CASE call' # call
  <2>1. call[c].inside /\ call' = [call EXCEPT ![c] = NoCall]
    <3>1. CASE WaitTest(c)
      BY <1>3, <3>1 DEF WaitTest
    <3>2. CASE WaitTimedOut(c)
      <4>1. call[c].timed /\ call' = [call EXCEPT ![c] = NoCall]
        BY <3>2 DEF WaitTimedOut
      <4>2. call[c] \in Calls \union {NoCall}
        BY <1>0 DEF Types
      <4>3. NoCall.timed = FALSE /\ \A r \in Calls : r.inside
        BY DEF NoCall, Calls
      <4>. QED BY <4>1, <4>2, <4>3
    <3>. QED BY <3>1, <3>2
  <2>2. call[c].timed \/ Len(ByAge) + Cardinality(Performed) <= call[c].limit
    <3>1. CASE WaitTimedOut(c)
      BY <3>1 DEF WaitTimedOut
    <3>2. CASE WaitTest(c)
      <4>1. active_worker_count + Len(queue) <= call[c].limit
        BY <1>3, <3>2 DEF WaitTest, Within, Load
      <4>2. call[c].limit \in Nat
        BY <1>0, LimitType
      <4>. QED BY <1>0, <4>1, <4>2, PerformedCount, AgeTypes, LoadCounts
    <3>. QED BY <3>1, <3>2
  <2>. QED BY <1>0, <1>1, <2>1, <2>2, SameOperators
       DEF Promise!WaitReturn, NoCall, Promise!NoCall
<1>. QED BY <1>2, <1>3

LEMMA ShutdownStep ==
  ASSUME Serving, Serving', ShutdownCall \/ ShutdownClear \/ Drain
  PROVE  Promise!Next \/ UNCHANGED Promise!vars
<1>0. /\ Types /\ Types' /\ CountsExact
      /\ policy \in {"wait_for_all_tasks", "wait_for_active_tasks", "immediately"}
  BY PoolCoreAssumption DEF Serving, Basic, Types, PoolCoreAssumption
<1>1. CASE ShutdownCall
  <2>1. Stage = "open" /\ Stage' = "stopping"
    BY <1>1 DEF ShutdownCall, Stage
  <2>2. ByAge' = ByAge /\ Performed' = Performed
    BY <1>1 DEF ShutdownCall, ByAge, Performed, Running, template
  <2>3. Promise!StopCall
    BY <1>1, <2>1, <2>2 DEF ShutdownCall, Promise!StopCall, template, history
  <2>. QED BY <2>3 DEF Promise!Next
<1>2. CASE ShutdownClear
  <2>1. Promise!Drop /\ Stage = "stopping"
    BY <1>0, <1>2, DropStep DEF ShutdownClear, Stage
  <2>2. CASE policy = "immediately"
    <3>1. Stage' = "stopped"
      BY <1>2, <2>2 DEF ShutdownClear, Stage
    <3>2. Promise!Stop
      BY <2>1, <2>2, <3>1 DEF Promise!Stop
    <3>. QED BY <3>2 DEF Promise!Next
  <2>3. CASE policy # "immediately"
    <3>1. policy = "wait_for_active_tasks"
      BY <1>0, <1>2, <2>3 DEF Serving, ClearPhase, ShutdownClear
    <3>2. Stage' = "stopping"
      BY <1>2, <2>3 DEF ShutdownClear, Stage
    <3>3. Promise!Discard
      BY <2>1, <3>1, <3>2 DEF Promise!Discard
    <3>. QED BY <3>3 DEF Promise!Next
  <2>. QED BY <2>2, <2>3
<1>3. CASE Drain
  <2>0. UNCHANGED <<scheduler, policy, queue, task, pc, ended, call>> /\ phase = "drain"
    BY <1>3 DEF Drain, template, history
  <2>1. Running' = Running
    BY <2>0 DEF Running
  <2>2. CASE Load = 0
    <3>1. Pending = {} /\ Running = {} /\ queue = <<>>
      BY <1>0, <2>2, LoadCounts, NothingLeft
    <3>2. ByAge = <<>> /\ ByAge' = <<>> /\ Performed = {} /\ Performed' = {}
      BY <1>0, <2>0, <2>1, <3>1, AgeTypes DEF Performed, ByAge
    <3>3. Stage = "stopping" /\ Stage' = "stopped"
      BY <1>3, <2>2 DEF Drain, Stage
    <3>4. ended' = ended \union Promise!Waiting
      BY <1>0, <2>0, <3>1, AgeTypes
    <3>5. Promise!Stop
      BY <2>0, <3>2, <3>3, <3>4 DEF Promise!Stop, Promise!Drop
    <3>. QED BY <3>5 DEF Promise!Next
  <2>3. CASE Load # 0
    <3>1. Stage' = Stage
      BY <1>3, <2>3 DEF Drain, Stage
    <3>. QED BY <2>0, <2>1, <3>1, Unseen
  <2>. QED BY <2>2, <2>3
<1>. QED BY <1>1, <1>2, <1>3

LEMMA NextPromise ==
  Serving /\ Serving' /\ [Next]_vars => [Promise!Next]_(Promise!vars)
<1> SUFFICES ASSUME Serving, Serving', [Next]_vars
             PROVE  Promise!Next \/ UNCHANGED Promise!vars
  OBVIOUS
<1>0. Types /\ Types'
  BY DEF Serving, Basic
<1>1. ASSUME NEW t \in Tasks, Schedule(t) PROVE Promise!Next
  BY <1>1, SubmitStep DEF Promise!Next
<1>2. CASE Clear
  <2>1. Stage = "open" /\ Stage' = "open" /\ Promise!Drop
    BY <1>0, <1>2, DropStep DEF Clear, Stage
  <2>2. Promise!Discard
    BY <2>1 DEF Promise!Discard
  <2>. QED BY <2>2 DEF Promise!Next
<1>3. ASSUME NEW c \in Clients, NEW timed \in BOOLEAN, NEW limit \in Limits,
             WaitCall(c, timed, limit)
      PROVE  Promise!Next
  <2>1. /\ ByAge' = ByAge /\ Performed' = Performed /\ Stage = "open" /\ Stage' = "open"
    BY <1>3 DEF WaitCall, ByAge, Performed, Running, Stage, template
  <2>2. Promise!WaitCall(c, timed, limit)
    BY <1>3, <2>1 DEF WaitCall, Promise!WaitCall, template, history
  <2>. QED BY <2>2 DEF Promise!Next
<1>4. ASSUME NEW c \in Clients, WaitTest(c) \/ WaitTimedOut(c)
      PROVE  Promise!Next \/ UNCHANGED Promise!vars
  BY <1>4, ReturnStep DEF Promise!Next
<1>5. ASSUME NEW size \in Sizes, Resize(size) PROVE UNCHANGED Promise!vars
  <2>1. Running' = Running
    BY <1>0, <1>5 DEF Resize, Spawns, Free, Running, Types
  <2>. QED BY <1>5, <2>1, Unseen DEF Resize, Stage, template, history
<1>6. ASSUME NEW w \in Workers, WorkerStep(w) PROVE Promise!Next \/ UNCHANGED Promise!vars
  <2>1. CASE Take(w)
    BY <2>1, StartStep DEF Promise!Next
  <2>2. CASE TaskEnds(w)
    BY <2>2, FinishStep DEF Promise!Next
  <2>3. CASE Leave(w) \/ Sleep(w) \/ Destructed(w) \/ Died(w) \/ Exit(w)
    <3>1. Running' = Running
      BY <1>0, <2>3
      DEF Leave, Sleep, Looking, Destructed, Died, Spawns, Free, Exit, Running, Types
    <3>. QED BY <2>3, <3>1, Unseen
         DEF Leave, Sleep, Destructed, Died, Exit, Stage, template, history
  <2>. QED BY <1>6, <2>1, <2>2, <2>3 DEF WorkerStep
<1>7. CASE TerminateAllWorkers \/ Retire \/ Join
  <2>1. phase \in {"quit", "retire", "join"} /\ phase' \in {"retire", "join", "closed"}
    BY <1>7 DEF TerminateAllWorkers, Retire, Join, AwaitInactive
  <2>2. Stage' = Stage
    BY <2>1 DEF Stage
  <2>. QED BY <1>7, <2>2, Unseen
       DEF TerminateAllWorkers, Retire, Join, Running, template, history
<1>8. CASE Spurious \/ UNCHANGED vars
  BY <1>8, Unseen DEF Spurious, vars, Running, Stage, template, history
<1>. QED BY <1>1, <1>2, <1>3, <1>4, <1>5, <1>6, <1>7, <1>8, ShutdownStep
     DEF Next, OwnerStep

\* For any workers, sizes, policies and thresholds: every step of the pool is
\* one that its interface promises, or one that no client can see.
THEOREM Refines == Spec => ImplementsTaskPool
<1>. QED BY InitPromise, ServingAlways, NextPromise, PTL
     DEF Spec, ImplementsTaskPool, Promise!Spec
==============================================================================
