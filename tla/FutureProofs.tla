----------------------------- MODULE FutureProofs -----------------------------
(***************************************************************************)
(* Proofs about Future: its type, the meaning of what get() and cancel()   *)
(* return, and that m_executing is never read before it is written.        *)
(***************************************************************************)
EXTENDS Future, TLAPS

\* While the future is ready the value is in place and its task is past the
\* function; whoever reads m_result or m_executing has seen it ready.
Delivered ==
  /\ task \in {"set", "write", "mark", "notify"} => value \in Values
  /\ task = "mark" => result = value
  /\ ready => /\ task \in {"notify", "unset", "over"}
              /\ value \in Values /\ result = value
  /\ \A c \in Clients : at[c] \in {"read", "executing"} => ready

\* A cancellation stays, and keeps the task from what follows its next test.
Stopped ==
  /\ grants # {} => cancelled
  /\ grants \cap {"pending", "check"} # {} =>
       task \in {"pending", "check", "unset", "over", "skipped", "dropped"}
  /\ grants \cap {"pending", "check", "call", "set"} # {} =>
       ~ready /\ task \notin {"write", "mark", "notify"}

IInv == TypeOK /\ Delivered /\ Stopped

\* The steps of the worker keep the invariant.
LEMMA WorkerKeeps ==
  IInv /\ (Drop \/ Worker) => IInv'
<1> SUFFICES ASSUME IInv, Drop \/ Worker PROVE IInv'
  OBVIOUS
<1> USE FutureAssumption DEF IInv, TypeOK, Delivered, Stopped, TaskStates, Places, members
<1>1. CASE Drop
  BY <1>1 DEF Drop
<1>2. CASE Begin
  BY <1>2 DEF Begin
<1>3. CASE Check
  BY <1>3 DEF Check, MayCall
<1>4. CASE FunctionReturns
  BY <1>4 DEF FunctionReturns
<1>5. CASE FunctionThrows
  BY <1>5 DEF FunctionThrows
<1>6. CASE TestAndSet
  BY <1>6 DEF TestAndSet, MaySet
<1>7. CASE WriteResult
  BY <1>7 DEF WriteResult
<1>8. CASE MarkReady
  BY <1>8 DEF MarkReady
<1>9. CASE NotifyAll
  BY <1>9 DEF NotifyAll, Woken
<1>10. CASE EndExecution
  BY <1>10 DEF EndExecution
<1>11. CASE Skip
  BY <1>11 DEF Skip
<1> QED
  BY <1>1, <1>2, <1>3, <1>4, <1>5, <1>6, <1>7, <1>8, <1>9, <1>10, <1>11 DEF Worker

\* So do the calls of a client.
LEMMA ClientKeeps ==
  ASSUME IInv, NEW c \in Clients, Call(c) \/ ClientStep(c) \/ TimedOut(c) \/ Spurious(c)
  PROVE  IInv'
<1> USE FutureAssumption DEF IInv, TypeOK, Delivered, Stopped, TaskStates, Places, members
<1>1. CASE Call(c)
  <2>1. PICK f \in {"wait", "timed", "get", "cancel"}, p \in {"test", "ready"} : Enter(c, f, p)
    BY <1>1 DEF Call
  <2>2. /\ call' = [call EXCEPT ![c] = f] /\ at' = [at EXCEPT ![c] = p]
        /\ UNCHANGED <<ready, cancelled, executing, result, task, value, got, grants>>
    BY <2>1 DEF Enter
  <2>3. TypeOK'
    BY <2>2
  <2> QED
    BY <2>2, <2>3
<1>2. CASE WaitTest(c)
  BY <1>2 DEF WaitTest, SeesReady, Leave
<1>3. CASE GetReads(c)
  BY <1>3 DEF GetReads, Leave
<1>4. CASE CancelTestsReady(c)
  BY <1>4 DEF CancelTestsReady, AfterReady
<1>5. CASE CancelTestsExecuting(c)
  BY <1>5 DEF CancelTestsExecuting, Leave
<1>6. CASE Cancel(c)
  BY <1>6 DEF Cancel, Leave
<1>7. CASE TimedOut(c)
  BY <1>7 DEF TimedOut, Leave
<1>8. CASE Spurious(c)
  BY <1>8 DEF Spurious
<1> QED
  BY <1>1, <1>2, <1>3, <1>4, <1>5, <1>6, <1>7, <1>8 DEF ClientStep

LEMMA Inductive == Spec => []IInv
<1>1. Init => IInv
  BY FutureAssumption DEF Init, IInv, TypeOK, Delivered, Stopped, TaskStates, Places
<1>2. IInv /\ [Next]_vars => IInv'
  <2> SUFFICES ASSUME IInv, [Next]_vars PROVE IInv'
    OBVIOUS
  <2>1. CASE Drop \/ Worker
    BY <2>1, WorkerKeeps
  <2>2. CASE \E c \in Clients : Call(c) \/ ClientStep(c) \/ TimedOut(c) \/ Spurious(c)
    BY <2>2, ClientKeeps
  <2>3. CASE UNCHANGED vars
    BY <2>3 DEF vars, members, IInv, TypeOK, Delivered, Stopped
  <2> QED
    BY <2>1, <2>2, <2>3 DEF Next
<1> QED
  BY <1>1, <1>2, PTL DEF Spec

\* The members of the future, the task and the clients keep their types.
THEOREM TypeCorrect == Spec => []TypeOK
<1>1. IInv => TypeOK
  BY DEF IInv
<1> QED
  BY <1>1, Inductive, PTL

\* cancel() never reads m_executing, which no constructor sets, before the
\* worker has written it.
THEOREM ExecutingRead == Spec => []ExecutingIsSet
<1>1. IInv => ExecutingIsSet
  BY DEF IInv, Delivered, ExecutingIsSet
<1> QED
  BY <1>1, Inductive, PTL

\* A cancel() that returned true keeps the function from being called, or the
\* future from becoming ready, up to the worker's last test.
THEOREM CancelWorks == Spec => []CancelHonoured
<1>1. IInv => CancelHonoured
  BY DEF IInv, Stopped, CancelHonoured
<1> QED
  BY <1>1, Inductive, PTL

\* get() returns what the function returned.
THEOREM ResultRead == Spec => GetGivesResult
<1> DEFINE Reads ==
      \A c \in Clients :
        at[c] = "read" /\ at'[c] = "out" => got'[c] \in Values /\ got'[c] = value
<1>1. IInv /\ [Next]_vars => [Reads]_vars
  <2> SUFFICES ASSUME IInv, Next, NEW c \in Clients, at[c] = "read", at'[c] = "out"
               PROVE  got'[c] \in Values /\ got'[c] = value
    OBVIOUS
  <2> USE DEF IInv, TypeOK, Delivered
  <2>1. CASE Drop \/ Worker
    BY <2>1 DEF Drop, Worker, Begin, Skip, Check, FunctionReturns, FunctionThrows, TestAndSet,
                WriteResult, MarkReady, NotifyAll, Woken, EndExecution
  <2>2. ASSUME NEW d \in Clients, Call(d) \/ ClientStep(d) \/ TimedOut(d) \/ Spurious(d)
        PROVE  got'[c] \in Values /\ got'[c] = value
    <3>1. CASE GetReads(d)
      BY <3>1 DEF GetReads, Leave
    <3>2. CASE ~GetReads(d)
      BY <2>2, <3>2 DEF Call, Enter, ClientStep, WaitTest, CancelTestsReady,
           CancelTestsExecuting, Cancel, TimedOut, Spurious, Leave, AfterReady
    <3> QED
      BY <3>1, <3>2
  <2> QED
    BY <2>1, <2>2 DEF Next
<1> QED
  BY <1>1, Inductive, PTL DEF Spec, GetGivesResult
===============================================================================
