-------------------------------- MODULE Future --------------------------------
(***************************************************************************)
(* One future of boost::threadpool (detail/future.hpp): the worker that    *)
(* performs the task it belongs to, and the clients that wait for its      *)
(* result or cancel it.                                                    *)
(*                                                                         *)
(* wait and set_value lock m_monitor; ready, cancel, is_cancelled and      *)
(* set_execution_status do not, so each of their reads and writes is an    *)
(* action, and so is each write inside set_value.                          *)
(***************************************************************************)
EXTENDS Naturals, FiniteSets

CONSTANTS
  Clients,
  Values,        \* what the task's function may return
  NoValue,       \* the content of m_result before set_value
  TaskMayThrow   \* may the function throw an exception?

ASSUME FutureAssumption == NoValue \notin Values /\ TaskMayThrow \in BOOLEAN

VARIABLES
  ready, cancelled, executing, result,   \* m_ready, m_is_cancelled, ...
  task,     \* how far the worker is with the task
  value,    \* what the function returned
  call,     \* the call each client is in
  at,       \* where in that call it is
  got,      \* what its last get() returned
  grants    \* history: the states of the task in which a cancel() returned true

members == <<ready, cancelled, executing, result>>
vars == <<members, task, value, call, at, got, grants>>

TaskStates ==
  {"pending",   \* scheduled, not taken by a worker
   "check",     \* taken; about to test is_cancelled
   "call",      \* in the function
   "set",       \* about to lock the monitor in set_value
   "write", "mark", "notify",   \* in set_value, with the monitor
   "unset",     \* about to call set_execution_status(false)
   "over",
   "skipped",   \* taken, but the function is empty
   "threw",     \* the function threw; the worker died
   "dropped"}   \* the pool was cleared or shut down before

Places ==
  {"out",
   "test",      \* about to lock the monitor and test m_ready
   "asleep",    \* in the condition wait
   "awake",     \* woken, about to test m_ready again
   "read",      \* get() has waited and is about to read m_result
   "ready", "executing", "cancel"}   \* cancel(), at m_ready, m_executing, the write

MonitorFree == task \notin {"write", "mark", "notify"}

\* schedule() has made the future; m_executing is not initialised.
Init ==
  /\ ready = FALSE /\ cancelled = FALSE /\ executing \in BOOLEAN
  /\ result = NoValue
  /\ task = "pending" /\ value = NoValue
  /\ call = [c \in Clients |-> "none"] /\ at = [c \in Clients |-> "out"]
  /\ got = [c \in Clients |-> NoValue]
  /\ grants = {}

-----------------------------------------------------------------------------
\* The worker: future_impl_task_func.  The function is empty or it is not; a
\* worker finds out once, when it performs the task.

Drop ==
  /\ task = "pending" /\ task' = "dropped"
  /\ UNCHANGED <<members, value, call, at, got, grants>>

Begin ==
  /\ task = "pending" /\ task' = "check"
  /\ executing' = TRUE
  /\ UNCHANGED <<ready, cancelled, result, value, call, at, got, grants>>

\* if(m_function): without one the task is over, and the future is left as it is.
Skip ==
  /\ task = "pending" /\ task' = "skipped"
  /\ UNCHANGED <<members, value, call, at, got, grants>>

MayCall == ~cancelled

Check ==
  /\ task = "check" /\ task' = IF MayCall THEN "call" ELSE "unset"
  /\ UNCHANGED <<members, value, call, at, got, grants>>

FunctionReturns ==
  /\ task = "call" /\ task' = "set"
  /\ value' \in Values
  /\ UNCHANGED <<members, call, at, got, grants>>

\* m_executing keeps its value for ever.
FunctionThrows ==
  /\ TaskMayThrow
  /\ task = "call" /\ task' = "threw"
  /\ UNCHANGED <<members, value, call, at, got, grants>>

\* set_value: the test under the lock, the two writes, notify_all and unlock.
Bug_MaySet == ~ready
MaySet == ~ready /\ ~cancelled

TestAndSet ==
  /\ task = "set" /\ task' = IF MaySet THEN "write" ELSE "unset"
  /\ UNCHANGED <<members, value, call, at, got, grants>>

WriteResult ==
  /\ task = "write" /\ task' = "mark"
  /\ result' = value
  /\ UNCHANGED <<ready, cancelled, executing, value, call, at, got, grants>>

MarkReady ==
  /\ task = "mark" /\ task' = "notify"
  /\ ready' = TRUE
  /\ UNCHANGED <<cancelled, executing, result, value, call, at, got, grants>>

Bug_Woken(p) == p
Woken(p) == IF p = "asleep" THEN "awake" ELSE p

NotifyAll ==
  /\ task = "notify" /\ task' = "unset"
  /\ at' = [c \in Clients |-> Woken(at[c])]
  /\ UNCHANGED <<members, value, call, got, grants>>

EndExecution ==
  /\ task = "unset" /\ task' = "over"
  /\ executing' = FALSE
  /\ UNCHANGED <<ready, cancelled, result, value, call, at, got, grants>>

-----------------------------------------------------------------------------
\* Clients: wait, timed_wait, get (operator()) and cancel.

Enter(c, f, place) ==
  /\ at[c] = "out"
  /\ call' = [call EXCEPT ![c] = f] /\ at' = [at EXCEPT ![c] = place]
  /\ UNCHANGED <<members, task, value, got, grants>>

Call(c) ==
  \/ \E f \in {"wait", "timed", "get"} : Enter(c, f, "test")
  \/ Enter(c, "cancel", "ready")

Leave(c) == call' = [call EXCEPT ![c] = "none"] /\ at' = [at EXCEPT ![c] = "out"]

\* One test of the loop in wait; get goes on to read m_result without the lock.
Bug_SeesReady(c) == ready \/ at[c] = "awake"
SeesReady(c) == ready

WaitTest(c) ==
  /\ at[c] \in {"test", "awake"} /\ MonitorFree
  /\ \/ ~SeesReady(c) /\ at' = [at EXCEPT ![c] = "asleep"] /\ UNCHANGED call
     \/ SeesReady(c) /\ call[c] = "get" /\ at' = [at EXCEPT ![c] = "read"] /\ UNCHANGED call
     \/ SeesReady(c) /\ call[c] # "get" /\ Leave(c)
  /\ UNCHANGED <<members, task, value, got, grants>>

TimedOut(c) ==
  /\ at[c] = "asleep" /\ call[c] = "timed" /\ MonitorFree
  /\ Leave(c)
  /\ UNCHANGED <<members, task, value, got, grants>>

Spurious(c) ==
  /\ at[c] = "asleep" /\ at' = [at EXCEPT ![c] = "awake"]
  /\ UNCHANGED <<members, task, value, call, got, grants>>

GetReads(c) ==
  /\ at[c] = "read"
  /\ got' = [got EXCEPT ![c] = result]
  /\ Leave(c)
  /\ UNCHANGED <<members, task, value, grants>>

\* cancel: !m_ready || m_executing, evaluated from left to right.
Bug_AfterReady == "executing"
AfterReady == IF ready THEN "executing" ELSE "cancel"

CancelTestsReady(c) ==
  /\ at[c] = "ready" /\ at' = [at EXCEPT ![c] = AfterReady]
  /\ UNCHANGED <<members, task, value, call, got, grants>>

CancelTestsExecuting(c) ==
  /\ at[c] = "executing"
  /\ IF executing THEN at' = [at EXCEPT ![c] = "cancel"] /\ UNCHANGED call ELSE Leave(c)
  /\ UNCHANGED <<members, task, value, got, grants>>

Cancel(c) ==
  /\ at[c] = "cancel"
  /\ cancelled' = TRUE
  /\ grants' = grants \union {task}
  /\ Leave(c)
  /\ UNCHANGED <<ready, executing, result, task, value, got>>

-----------------------------------------------------------------------------
Worker ==
  \/ Begin \/ Skip \/ Check \/ FunctionReturns \/ FunctionThrows \/ TestAndSet
  \/ WriteResult \/ MarkReady \/ NotifyAll \/ EndExecution

ClientStep(c) ==
  WaitTest(c) \/ GetReads(c) \/ CancelTestsReady(c) \/ CancelTestsExecuting(c) \/ Cancel(c)

Next ==
  \/ Drop \/ Worker
  \/ \E c \in Clients : Call(c) \/ ClientStep(c) \/ TimedOut(c) \/ Spurious(c)

Spec == Init /\ [][Next]_vars

\* The pool performs the task (TasksServed of PoolCore) or drops it, the
\* function ends, and the clients' threads run.  Time limits may never pass.
FairSpec == Spec /\ WF_vars(Worker) /\ \A c \in Clients : WF_vars(ClientStep(c))

-----------------------------------------------------------------------------
\* Properties.

\* Every variable keeps its type.
TypeOK ==
  /\ ready \in BOOLEAN /\ cancelled \in BOOLEAN /\ executing \in BOOLEAN
  /\ result \in Values \union {NoValue} /\ value \in Values \union {NoValue}
  /\ task \in TaskStates
  /\ call \in [Clients -> {"none", "wait", "timed", "get", "cancel"}]
  /\ at \in [Clients -> Places]
  /\ got \in [Clients -> Values \union {NoValue}]
  /\ grants \subseteq TaskStates

\* get() returns what the function returned, although it reads m_result after
\* the monitor has been released and wakeups may be spurious.
GetGivesResult ==
  [][\A c \in Clients :
       at[c] = "read" /\ at'[c] = "out" => got'[c] \in Values /\ got'[c] = value]_vars

\* m_executing, which no constructor sets, is not read before it is written.
ExecutingIsSet ==
  \A c \in Clients : at[c] = "executing" => task \notin {"pending", "skipped", "dropped"}

\* A cancel() that returned true is honoured as far as the unlocked flag can be:
\* before the worker's test the function is not called, and before the test of
\* set_value the future does not become ready.
CancelHonoured ==
  /\ grants \cap {"pending", "check"} # {} =>
       task \in {"pending", "check", "unset", "over", "skipped", "dropped"}
  /\ ready => grants \cap {"pending", "check", "call", "set"} = {}

\* A wait returns, unless the future was cancelled, its function is empty or threw,
\* or the pool dropped the task: then nobody wakes the waiting clients.
Broken == cancelled \/ task \in {"skipped", "threw", "dropped"}
WaitReturns ==
  \A c \in Clients : call[c] \in {"wait", "timed", "get"} ~> (at[c] = "out" \/ Broken)
===============================================================================
