------------------------------ MODULE TaskPool ------------------------------
(***************************************************************************)
(* What pool.hpp and its policies promise of boost::threadpool, without    *)
(* threads, counters, sizes or conditions: pending tasks start in the      *)
(* order of the scheduler and are performed once; clear drops those that   *)
(* have not started; wait returns once no more tasks than its threshold    *)
(* are pending or running, or, with a time limit, at any time; when the    *)
(* last handle goes the pool stops as its shutdown policy says.            *)
(***************************************************************************)
EXTENDS Integers, Sequences, SequencesExt, FiniteSets

CONSTANTS Clients, Tasks, High, Limits, Schedulers, ShutdownPolicies

VARIABLES
  scheduler, policy,  \* the template arguments, never changed
  pending,            \* tasks that have not started, in order of schedule
  running,            \* tasks being performed
  over,               \* tasks that ended, threw or were dropped
  call,               \* the call of wait each client is in
  phase               \* "open", "stopping" or "stopped"

vars == <<scheduler, policy, pending, running, over, call, phase>>

Waiting == {pending[i] : i \in DOMAIN pending}
NoCall == [inside |-> FALSE, timed |-> FALSE, limit |-> 0]

Init ==
  /\ scheduler \in Schedulers /\ policy \in ShutdownPolicies
  /\ pending = <<>> /\ running = {} /\ over = {}
  /\ call = [c \in Clients |-> NoCall]
  /\ phase = "open"

\* thread_pool::schedule: "The task will be executed once only."
Submit(t) ==
  /\ phase = "open" /\ t \notin Waiting \union running \union over
  /\ pending' = Append(pending, t)
  /\ UNCHANGED <<scheduler, policy, running, over, call, phase>>

\* The tasks that no other goes before: the first, the last, or any of the
\* highest priority.
First ==
  {i \in DOMAIN pending :
     CASE scheduler = "fifo" -> i = 1
       [] scheduler = "lifo" -> i = Len(pending)
       [] scheduler = "prio" -> pending[i] \in High \/ Waiting \cap High = {}}

Start(i) ==
  /\ i \in First
  /\ running' = running \union {pending[i]}
  /\ pending' = RemoveAt(pending, i)
  /\ UNCHANGED <<scheduler, policy, over, call, phase>>

Finish(t) ==
  /\ t \in running
  /\ running' = running \ {t}
  /\ over' = over \union {t}
  /\ UNCHANGED <<scheduler, policy, pending, call, phase>>

Drop ==
  /\ pending' = <<>>
  /\ over' = over \union Waiting
  /\ UNCHANGED <<scheduler, policy, running, call>>

\* thread_pool::clear, which one shutdown policy calls as well.
Discard ==
  /\ phase = "open" \/ (phase = "stopping" /\ policy = "wait_for_active_tasks")
  /\ Drop
  /\ UNCHANGED phase

\* thread_pool::wait, called and returning.
WaitCall(c, timed, limit) ==
  /\ phase = "open" /\ ~call[c].inside
  /\ call' = [call EXCEPT ![c] = [inside |-> TRUE, timed |-> timed, limit |-> limit]]
  /\ UNCHANGED <<scheduler, policy, pending, running, over, phase>>

WaitReturn(c) ==
  /\ call[c].inside
  /\ call[c].timed \/ Len(pending) + Cardinality(running) <= call[c].limit
  /\ call' = [call EXCEPT ![c] = NoCall]
  /\ UNCHANGED <<scheduler, policy, pending, running, over, phase>>

\* The last handle goes; nobody is inside the pool.
StopCall ==
  /\ phase = "open" /\ \A c \in Clients : ~call[c].inside
  /\ phase' = "stopping"
  /\ UNCHANGED <<scheduler, policy, pending, running, over, call>>

\* The policies that wait stop a pool without tasks; "immediately" drops the
\* pending ones, and those that are running go on.
Stop ==
  /\ phase = "stopping" /\ phase' = "stopped"
  /\ policy # "immediately" => pending = <<>> /\ running = {}
  /\ Drop

Next ==
  \/ \E t \in Tasks : Submit(t) \/ Finish(t)
  \/ \E i \in DOMAIN pending : Start(i)
  \/ Discard
  \/ \E c \in Clients :
       \/ \E timed \in BOOLEAN, limit \in Limits : WaitCall(c, timed, limit)
       \/ WaitReturn(c)
  \/ StopCall \/ Stop

Spec == Init /\ [][Next]_vars
=============================================================================
