\* The pool is destroyed while jobs are queued behind an active one.
SPECIFICATION FairSpec
CONSTANTS
  Workers = {w1, w2, w3}
  Clients = {c1}
  Jobs = {j1, j2, j3}
  NoJob = NoJob
  Minimum = 1
  Maximum = 2
  Linger = 2
  CreateMayFail = FALSE
  JobsMayExit = FALSE
  DrainFirst = FALSE
PROPERTY
  DestroyReturns
