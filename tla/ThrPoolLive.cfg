\* Clean use, as in the pipelines' main: jobs end, the pool is destroyed once
\* its queue is empty, pthread_create works.  Two clients may wait at once.
SPECIFICATION FairSpec
CONSTANTS
  Workers = {w1, w2, w3}
  Clients = {c1, c2}
  Jobs = {j1, j2}
  NoJob = NoJob
  Minimum = 1
  Maximum = 2
  Linger = 2
  CreateMayFail = FALSE
  JobsMayExit = TRUE
  DrainFirst = TRUE
PROPERTIES
  ExcessWorkersLeave
  ImplementsFairJobPool
