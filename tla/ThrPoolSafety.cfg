\* Three workers at most, one kept; three jobs, two clients.  pthread_create may
\* fail, jobs may call pthread_exit, the pool may be destroyed at any time.
SPECIFICATION Spec
CONSTANTS
  Workers = {w1, w2, w3, w4}
  Clients = {c1, c2}
  Jobs = {j1, j2, j3}
  NoJob = NoJob
  Minimum = 1
  Maximum = 3
  Linger = 2
  CreateMayFail = TRUE
  JobsMayExit = TRUE
  DrainFirst = FALSE
SYMMETRY Symmetry
INVARIANTS
  TypeOK
  ThreadAccounting
  JobsConserved
  SleepersNotNeeded
  WaiterNotForgotten
  NoUseAfterFree
PROPERTY
  ImplementsJobPool
