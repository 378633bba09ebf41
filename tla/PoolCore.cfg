\* Two threads, two tasks, one client, all policies.
SPECIFICATION FairSpec
CONSTANTS
  Workers = {w1, w2}
  Clients = {c1}
  Owner = Owner
  Tasks = {t1, t2}
  NoTask = NoTask
  High = {t2}
  Sizes = {0, 1, 2}
  Limits = {0, 1}
  Schedulers = {"fifo", "lifo", "prio"}
  ShutdownPolicies = {"wait_for_all_tasks", "wait_for_active_tasks", "immediately"}
  CreateMayFail = TRUE
  TasksMayThrow = TRUE
CHECK_DEADLOCK FALSE
INVARIANTS TypeOK CountsExact SleepersNotNeeded WaitersNotForgotten TasksConserved
PROPERTIES WaitCoversTasks StartsInOrder ImplementsTaskPool TasksServed WaitsEnd
