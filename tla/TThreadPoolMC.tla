---------------------------- MODULE TThreadPoolMC ----------------------------
(***************************************************************************)
(* The programs and machines TThreadPool is checked for.                   *)
(***************************************************************************)
EXTENDS TThreadPool

Setup(e, x, f, s, r) ==
  [exes |-> e, extra |-> x, frames |-> f, spurious |-> s, refusals |-> r]

\* Two frames of two jobs, three jobs in one frame, a spurious wakeup, more
\* threads than jobs as in main.cpp, and a machine that refuses threads.
Programs ==
  {Setup(2, 1, 2, 0, FALSE), Setup(3, 1, 1, 0, FALSE), Setup(2, 1, 1, 1, FALSE),
   Setup(1, 1, 3, 1, FALSE), Setup(1, 2, 2, 0, FALSE), Setup(2, 0, 1, 0, TRUE)}

\* One frame of two jobs on three threads.
OneFrame == {Setup(2, 1, 1, 0, FALSE)}
=============================================================================
