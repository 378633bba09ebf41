\* Two clients, two possible results.
SPECIFICATION FairSpec
CONSTANTS
  Clients = {c1, c2}
  Values = {v1, v2}
  NoValue = NoValue
  TaskMayThrow = TRUE
INVARIANTS ExecutingIsSet CancelHonoured
PROPERTIES GetGivesResult WaitReturns
