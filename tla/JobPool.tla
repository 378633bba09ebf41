------------------------------- MODULE JobPool -------------------------------
(***************************************************************************)
(* What thr_pool.h promises of a pool, without threads, condition          *)
(* variables or counters: a FIFO of jobs, at most Maximum of them running  *)
(* at once, a wait that returns once the jobs queued before it have ended, *)
(* and a destruction after which nothing runs any more.                    *)
(***************************************************************************)
EXTENDS Naturals, Sequences, FiniteSets

CONSTANTS Clients, Jobs, Maximum

VARIABLES
  queue,     \* jobs not started yet, in the order they were queued
  running,   \* jobs being performed
  finished,  \* jobs that ended, by returning, exiting or being cancelled
  waiters,   \* clients inside thr_pool_wait
  owed,      \* for each of them, the jobs it waits for
  phase      \* "open", "closing" (in thr_pool_destroy) or "closed"

vars == <<queue, running, finished, waiters, owed, phase>>

Queued == {queue[i] : i \in 1..Len(queue)}

Init ==
  /\ queue = <<>> /\ running = {} /\ finished = {}
  /\ waiters = {} /\ owed = [c \in Clients |-> {}]
  /\ phase = "open"

\* thr_pool_queue: a new job goes to the end.
Enqueue(j) ==
  /\ phase = "open"
  /\ j \notin Queued \union running \union finished
  /\ queue' = Append(queue, j)
  /\ UNCHANGED <<running, finished, waiters, owed, phase>>

\* Jobs start in FIFO order, and none starts in a pool being destroyed.
Start ==
  /\ phase = "open"
  /\ queue # <<>> /\ Cardinality(running) < Maximum
  /\ running' = running \union {Head(queue)}
  /\ queue' = Tail(queue)
  /\ UNCHANGED <<finished, waiters, owed, phase>>

End(j) ==
  /\ j \in running
  /\ running' = running \ {j}
  /\ finished' = finished \union {j}
  /\ UNCHANGED <<queue, waiters, owed, phase>>

\* thr_pool_wait, called and returning.
WaitCall(c) ==
  /\ phase = "open" /\ c \notin waiters
  /\ waiters' = waiters \union {c}
  /\ owed' = [owed EXCEPT ![c] = Queued \union running]
  /\ UNCHANGED <<queue, running, finished, phase>>

WaitReturn(c) ==
  /\ c \in waiters /\ owed[c] \subseteq finished
  /\ waiters' = waiters \ {c}
  /\ owed' = [owed EXCEPT ![c] = {}]
  /\ UNCHANGED <<queue, running, finished, phase>>

\* thr_pool_destroy: called when no client is waiting, and over when nothing
\* runs; the jobs that did not start are dropped.
DestroyCall ==
  /\ phase = "open" /\ waiters = {}
  /\ phase' = "closing"
  /\ UNCHANGED <<queue, running, finished, waiters, owed>>

DestroyReturn ==
  /\ phase = "closing" /\ running = {}
  /\ phase' = "closed"
  /\ queue' = <<>>
  /\ UNCHANGED <<running, finished, waiters, owed>>

Next ==
  \/ \E j \in Jobs : Enqueue(j) \/ End(j)
  \/ Start
  \/ \E c \in Clients : WaitCall(c) \/ WaitReturn(c)
  \/ DestroyCall \/ DestroyReturn

Spec == Init /\ [][Next]_vars

\* Liveness of the promise: a pending job starts whenever fewer than Maximum
\* are running, a started one ends, and waits and destructions return.
FairSpec ==
  /\ Spec
  /\ WF_vars(Start)
  /\ \A j \in Jobs : WF_vars(End(j))
  /\ \A c \in Clients : WF_vars(WaitReturn(c))
  /\ WF_vars(DestroyReturn)
=============================================================================
